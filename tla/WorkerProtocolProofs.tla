----------------------- MODULE WorkerProtocolProofs -----------------------
(***************************************************************************)
(* Proofs about WorkerProtocol, for any number of callers, closers, calls, *)
(* junk lines and faults.                                                  *)
(***************************************************************************)
EXTENDS WorkerProtocol, FiniteSetTheorems, SequenceTheorems, TLAPS

USE DEF Sending, Written

Closing == {"claim", "kill", "streams"}
Busy == {"write", "push", "read"} \cup Closing

\* Nobody took the worker away from its session.
NoCloser == \A t \in Closers : At(t, "idle")

\* Who holds _wlock; until the worker is published only _spawn_worker acts.
LockInv ==
    /\ \A t \in Runners : thread[t].pc \in Busy =>
           wlock = t \/ (t = Starter /\ thread[t].pc \in Closing)
    /\ wlock # NoThread =>
           thread[wlock].pc \in Busy /\ thread[wlock].id = seq /\ seq # 0
    /\ \A t \in Threads : wlock # t => thread[t].id = 0
    /\ \A t \in Closers : thread[t].pc \in {"idle", "over"} \cup Closing
    /\ \A t \in Threads : t # Starter /\ phase # "published" => At(t, "idle")
    /\ phase = "starting" <=> ~At(Starter, "over")

\* close() runs once, and ends with the worker reaped and the pipes closed.
CloseInv ==
    /\ \A t, u \in Threads :
           thread[t].pc \in {"kill", "streams"} /\ thread[u].pc \in {"kill", "streams"} => t = u
    /\ \A t \in Threads : thread[t].pc \in {"kill", "streams"} => closed /\ streams = "open"
    /\ \A t \in Threads : At(t, "streams") => proc = "reaped"
    /\ closed => streams = "closed" \/ \E t \in Threads : thread[t].pc \in {"kill", "streams"}
    /\ streams = "closed" => closed /\ proc = "reaped" /\ kid = "none"
    /\ serving # 0 => proc = "up"
    /\ phase = "refused" => streams = "closed"

\* A request has no outcome until its call returns.
OutcomeInv ==
    /\ \A i \in Ids : i > seq => outcome[i] = 0
    /\ wlock # NoThread => outcome[seq] = 0
    /\ AnswersOwn

\* Calls that wait for _wlock have been counted and have no number yet.
Locking == {t \in Runners : At(t, "lock")}
CountInv ==
    /\ IsFiniteSet(Locking)
    /\ seq + Cardinality(Locking) <= counts.calls

\* Where the answer to request k is, or is still to come from.
InLines(k) == \E p \in 1 .. Len(lines) : lines[p].kind = "answer" /\ lines[p].id = k
InRequests(k) == \E p \in 1 .. Len(requests) : requests[p] = k
Outstanding(k) == InLines(k) \/ serving = k \/ InRequests(k)

\* Requests are answered in their order.
OrderInv ==
    /\ \A p, q \in 1 .. Len(lines) :
           p < q /\ lines[p].kind = "answer" /\ lines[q].kind = "answer" => lines[p].id < lines[q].id
    /\ \A p, q \in 1 .. Len(requests) : p < q => requests[p] < requests[q]
    /\ \A j, k \in Ids : InLines(j) /\ (serving = k \/ InRequests(k)) => j < k
    /\ \A k \in Ids : serving # 0 /\ InRequests(k) => serving < k
    /\ \A p \in 1 .. Len(lines) : lines[p].kind = "answer" => lines[p].id \in Ids
    /\ \A k \in Ids : Outstanding(k) => k <= seq
    /\ \A t \in Runners : Sending(t) => \A k \in Ids : Outstanding(k) => k < seq

IsLost(i) == outcome[i] = Lost
SomeLost == \E i \in Ids : IsLost(i)

\* As long as nobody takes the worker away:
\* the reader of a call that waits is the only one,
SoleReader ==
    \/ readers = {}
    \/ streams = "closed"
    \/ \E t \in Runners : \/ At(t, "read") /\ readers \subseteq {thread[t].id}
                          \/ thread[t].pc \in Closing

\* its answer is outstanding,
AnswerDue == \A t \in Runners : At(t, "read") /\ proc = "up" => Outstanding(thread[t].id)

\* after a lost answer the worker is dead, or about to be closed, or an answer
\* nobody waits for is outstanding, which the next call will get and refuse,
LossShows ==
    proc = "up" /\ SomeLost =>
        \/ \E k \in Ids : IsLost(k) /\ Outstanding(k)
        \/ \E t \in Runners : thread[t].pc \in Closing

\* and which arrives before the answer the call waits for.
LostFirst ==
    \A t \in Runners : At(t, "read") /\ InLines(thread[t].id) /\ SomeLost =>
        \E k \in Ids : IsLost(k) /\ InLines(k)
NoneAfterLoss == \A i, j \in Ids : i < j /\ IsLost(i) => outcome[j] <= 0

SoleInv == SoleReader /\ AnswerDue /\ LossShows /\ LostFirst /\ NoneAfterLoss

IInv ==
    /\ TypeOK
    /\ LockInv
    /\ CloseInv
    /\ OutcomeInv
    /\ CountInv
    /\ OrderInv
    /\ NoCloser => SoleInv

ThreadState == [pc : Pcs, id : 0 .. MaxCalls]

----------------------------------------------------------------------------
(* Facts that every step needs.                                            *)

LEMMA Basics ==
    ASSUME IInv
    PROVE  /\ seq \in Nat /\ MaxCalls \in Nat /\ seq <= MaxCalls
           /\ thread \in [Threads -> ThreadState]
           /\ Starter \in Runners /\ Starter \in Threads /\ Starter \notin Closers
           /\ NoThread \notin Threads
           /\ Runners \cup Closers = Threads /\ Runners \cap Closers = {}
           /\ Lost = -1 /\ Lost \notin Ids /\ 0 \notin Ids
           /\ wlock \in Runners \cup {NoThread}
           /\ \A i \in Ids : i \in Nat /\ i > 0
BY WorkerProtocolAssumption DEF IInv, TypeOK, Runners, Threads, ThreadState, Lost, Ids

\* At most one runner is past the lock.
LEMMA OneBusy ==
    ASSUME IInv, NEW t \in Runners, NEW u \in Runners,
           thread[t].pc \in Busy, thread[u].pc \in Busy
    PROVE  t = u
<1>1. ASSUME NEW x \in Runners, NEW y \in Runners, x = Starter, thread[x].pc \in Closing,
             thread[y].pc \in Busy
      PROVE  x = y
  <2>1. phase = "starting"
    BY <1>1 DEF IInv, LockInv, At, Closing
  <2>2. QED  BY <1>1, <2>1, Basics DEF IInv, LockInv, At, Busy, Closing
<1>2. QED  BY <1>1 DEF IInv, LockInv

\* A thread in the middle of a call of run() or of close() has its number.
LEMMA Numbers ==
    ASSUME IInv, NEW t \in Runners
    PROVE  /\ thread[t].id \in {0, seq}
           /\ thread[t].pc \in {"write", "push", "read"} => wlock = t
           /\ wlock = t => thread[t].pc \in Busy /\ thread[t].id = seq /\ seq \in Ids
           /\ wlock # t => thread[t].id = 0
<1>1. t \in Threads /\ t # NoThread /\ seq \in Nat /\ MaxCalls \in Nat /\ seq <= MaxCalls
  BY Basics
<1>2. QED  BY <1>1 DEF IInv, LockInv, Busy, Closing, Ids

LEMMA GotoFacts ==
    ASSUME IInv, NEW t \in Threads, NEW pc \in Pcs, Goto(t, pc)
    PROVE  /\ thread' \in [Threads -> ThreadState]
           /\ thread'[t].pc = pc /\ thread'[t].id = thread[t].id
           /\ \A u \in Threads : u # t => thread'[u] = thread[u]
BY DEF IInv, TypeOK, Goto, ThreadState

LEMMA ReturnFacts ==
    ASSUME IInv, NEW t \in Runners, NEW result \in {Lost} \cup Ids, Return(t, result)
    PROVE  /\ thread' \in [Threads -> ThreadState]
           /\ thread'[t].id = 0
           /\ thread'[t].pc = IF t # Starter THEN "idle" ELSE IF result = Lost THEN "claim" ELSE "over"
           /\ \A u \in Threads : u # t => thread'[u] = thread[u]
           /\ wlock' = IF wlock = t THEN NoThread ELSE wlock
           /\ wlock' \in Runners \cup {NoThread}
           /\ outcome' \in [Ids -> {Lost, 0} \cup Ids]
           /\ \A i \in Ids : outcome'[i] = IF wlock = t /\ i = seq THEN result ELSE outcome[i]
           /\ phase' = IF t = Starter /\ result # Lost THEN "published" ELSE phase
<1>1. t \in Threads /\ wlock \in Runners \cup {NoThread} /\ 0 \in 0 .. MaxCalls
  BY Basics
<1> DEFINE x == [pc |-> IF t # Starter THEN "idle" ELSE IF result = Lost THEN "claim" ELSE "over",
                 id |-> 0]
<1>2. x \in ThreadState
  BY <1>1 DEF ThreadState, Pcs
<1>3. thread' = [thread EXCEPT ![t] = x]
  BY DEF Return
<1>4. /\ thread' \in [Threads -> ThreadState] /\ thread'[t] = x
      /\ \A u \in Threads : u # t => thread'[u] = thread[u]
  <2> HIDE DEF x
  <2>1. QED  BY <1>1, <1>2, <1>3 DEF IInv, TypeOK, ThreadState
<1>5. /\ outcome' \in [Ids -> {Lost, 0} \cup Ids]
      /\ \A i \in Ids : outcome'[i] = IF wlock = t /\ i = seq THEN result ELSE outcome[i]
  <2>1. CASE thread[t].id = 0
    BY <2>1, Numbers, Basics DEF Return, IInv, TypeOK
  <2>2. CASE thread[t].id # 0
    <3>1. wlock = t /\ thread[t].id = seq /\ seq \in Ids
      BY <2>2, Numbers
    <3>2. outcome' = [outcome EXCEPT ![seq] = result]
      BY <2>2, <3>1 DEF Return
    <3>3. QED  BY <3>1, <3>2 DEF IInv, TypeOK
  <2>3. QED  BY <2>1, <2>2
<1>6. QED  BY <1>1, <1>4, <1>5 DEF Return

----------------------------------------------------------------------------
(* What keeps each part.                                                   *)

\* A thread goes on within its call; _wlock stays where it is.
LEMMA LockMoves ==
    ASSUME IInv, NEW t \in Threads, UNCHANGED <<wlock, phase, seq>>,
           thread' \in [Threads -> ThreadState], thread'[t].id = thread[t].id,
           \A u \in Threads : u # t => thread'[u] = thread[u],
           t \in Runners => /\ thread[t].pc \in Busy
                            /\ thread'[t].pc \in Busy
                            /\ wlock = t \/ thread'[t].pc \in Closing,
           t \in Closers => /\ phase = "published"
                            /\ thread'[t].pc \in {"over"} \cup Closing
    PROVE  LockInv'
<1>1. /\ \A u \in Runners : thread'[u].pc \in Busy =>
           wlock' = u \/ (u = Starter /\ thread'[u].pc \in Closing)
  BY Basics DEF IInv, LockInv, Busy, Closing
<1>2. wlock' # NoThread => thread'[wlock'].pc \in Busy /\ thread'[wlock'].id = seq' /\ seq' # 0
  BY Basics DEF IInv, LockInv
<1>3. \A u \in Threads : wlock' # u => thread'[u].id = 0
  BY DEF IInv, LockInv
<1>4. \A u \in Closers : thread'[u].pc \in {"idle", "over"} \cup Closing
  BY Basics DEF IInv, LockInv
<1>5. \A u \in Threads : u # Starter /\ phase' # "published" => At(u, "idle")'
  <2>1. t \in Runners /\ t # Starter => phase = "published"
    BY DEF IInv, LockInv, At, Busy, Closing
  <2>2. QED  BY <2>1, Basics DEF IInv, LockInv, At
<1>6. phase' = "starting" <=> ~At(Starter, "over")'
  <2>1. CASE t = Starter
    <3>1. thread[t].pc # "over" /\ thread'[t].pc # "over"
      BY <2>1, Basics DEF Busy, Closing
    <3>2. QED  BY <2>1, <3>1 DEF IInv, LockInv, At
  <2>2. CASE t # Starter
    BY <2>2, Basics DEF IInv, LockInv, At
  <2>3. QED  BY <2>1, <2>2
<1>7. QED  BY <1>1, <1>2, <1>3, <1>4, <1>5, <1>6 DEF LockInv

\* A call of run() returns.
LEMMA LockReturns ==
    ASSUME IInv, NEW t \in Runners, NEW result \in {Lost} \cup Ids, Return(t, result),
           seq' = seq, thread[t].pc # "over", t = Starter \/ phase = "published"
    PROVE  LockInv'
<1> DEFINE pc == IF t # Starter THEN "idle" ELSE IF result = Lost THEN "claim" ELSE "over"
<1>1. /\ thread' \in [Threads -> ThreadState]
      /\ thread'[t].id = 0 /\ thread'[t].pc = pc
      /\ \A u \in Threads : u # t => thread'[u] = thread[u]
      /\ wlock' = IF wlock = t THEN NoThread ELSE wlock
      /\ phase' = IF t = Starter /\ result # Lost THEN "published" ELSE phase
  BY ReturnFacts
<1>2. t \in Threads /\ t \notin Closers /\ wlock' # t
  BY <1>1, Basics
<1>3. \A u \in Runners : thread'[u].pc \in Busy =>
          wlock' = u \/ (u = Starter /\ thread'[u].pc \in Closing)
  BY <1>1, <1>2, Basics DEF IInv, LockInv, Busy, Closing
<1>4. wlock' # NoThread => thread'[wlock'].pc \in Busy /\ thread'[wlock'].id = seq' /\ seq' # 0
  BY <1>1, <1>2, Basics DEF IInv, LockInv
<1>5. \A u \in Threads : wlock' # u => thread'[u].id = 0
  BY <1>1, <1>2 DEF IInv, LockInv
<1>6. \A u \in Closers : thread'[u].pc \in {"idle", "over"} \cup Closing
  BY <1>1, <1>2, Basics DEF IInv, LockInv
<1>7. \A u \in Threads : u # Starter /\ phase' # "published" => At(u, "idle")'
  BY <1>1, <1>2 DEF IInv, LockInv, At
<1>8. phase' = "starting" <=> ~At(Starter, "over")'
  <2>1. CASE t = Starter
    <3>1. phase = "starting"
      BY <2>1 DEF IInv, LockInv, At
    <3>2. QED  BY <1>1, <2>1, <3>1 DEF At
  <2>2. CASE t # Starter
    BY <1>1, <2>2, Basics DEF IInv, LockInv, At
  <2>3. QED  BY <2>1, <2>2
<1>9. QED  BY <1>3, <1>4, <1>5, <1>6, <1>7, <1>8 DEF LockInv

\* What an outcome says does not change but by the return of its call.
LEMMA OutcomeSame ==
    ASSUME IInv, UNCHANGED <<outcome, seq, wlock>>
    PROVE  OutcomeInv'
BY DEF IInv, OutcomeInv, AnswersOwn

LEMMA OutcomeReturns ==
    ASSUME IInv, NEW t \in Runners, NEW result \in {Lost} \cup Ids, Return(t, result),
           seq' = seq, result \in {Lost, seq}
    PROVE  OutcomeInv'
<1>1. /\ wlock' = IF wlock = t THEN NoThread ELSE wlock
      /\ \A i \in Ids : outcome'[i] = IF wlock = t /\ i = seq THEN result ELSE outcome[i]
  BY ReturnFacts
<1>2. wlock # t /\ wlock # NoThread => seq \in Ids
  <2>1. ASSUME wlock # NoThread  PROVE seq \in Ids
    <3>1. wlock \in Runners  BY <2>1, Basics
    <3>2. QED  BY <3>1, Numbers
  <2>2. QED  BY <2>1
<1>3. \A i \in Ids : i > seq' => outcome'[i] = 0
  BY <1>1, Basics DEF IInv, OutcomeInv
<1>4. wlock' # NoThread => outcome'[seq'] = 0
  BY <1>1, <1>2 DEF IInv, OutcomeInv
<1>5. AnswersOwn'
  BY <1>1 DEF IInv, OutcomeInv, AnswersOwn
<1>6. QED  BY <1>3, <1>4, <1>5 DEF OutcomeInv

LEMMA CountSame ==
    ASSUME IInv, seq' = seq, Locking' \subseteq Locking, counts'.calls \in Nat,
           counts'.calls >= counts.calls
    PROVE  CountInv'
<1>1. IsFiniteSet(Locking)
  BY DEF IInv, CountInv
<1>2. IsFiniteSet(Locking') /\ Cardinality(Locking') <= Cardinality(Locking)
  BY <1>1, FS_Subset, Zenon
<1>3. Cardinality(Locking) \in Nat /\ Cardinality(Locking') \in Nat
  BY <1>1, <1>2, FS_CardinalityType
<1>4. seq \in Nat /\ counts.calls \in Nat
  BY Basics DEF IInv, TypeOK
<1>5. seq + Cardinality(Locking) <= counts.calls
  BY DEF IInv, CountInv
<1>6. seq + Cardinality(Locking') <= counts'.calls
  BY <1>2, <1>3, <1>4, <1>5
<1>7. QED  BY <1>2, <1>6 DEF CountInv

LEMMA OrderSame ==
    ASSUME IInv, UNCHANGED <<lines, requests, serving, seq>>,
           \A u \in Runners : Sending(u)' => Sending(u)
    PROVE  OrderInv'
BY DEF IInv, OrderInv, Outstanding, InLines, InRequests

\* A step of a thread that is not at work in close().
LEMMA CloseSame ==
    ASSUME IInv, NEW t \in Threads, UNCHANGED <<closed, streams, kid, serving>>,
           proc' = proc \/ (proc # "up" /\ proc' = "reaped"),
           phase' = "refused" => phase = "refused" \/ streams = "closed",
           thread[t].pc \notin {"kill", "streams"}, thread'[t].pc \notin {"kill", "streams"},
           \A u \in Threads : u # t => thread'[u] = thread[u]
    PROVE  CloseInv'
<1>1. \A u \in Threads : thread'[u].pc \in {"kill", "streams"} => u # t /\ thread'[u] = thread[u]
  OBVIOUS
<1>2. \A u \in Threads : thread[u].pc \in {"kill", "streams"} => u # t /\ thread'[u] = thread[u]
  OBVIOUS
<1>3. \A u \in Threads : At(u, "streams")' => proc' = "reaped"
  BY <1>1 DEF IInv, CloseInv, At
<1>4. closed' => streams' = "closed" \/ \E u \in Threads : thread'[u].pc \in {"kill", "streams"}
  BY <1>2 DEF IInv, CloseInv
<1>5. QED  BY <1>1, <1>3, <1>4 DEF IInv, CloseInv

\* A loss makes no earlier answer a later one.
LEMMA LossKeeps ==
    ASSUME IInv, NoneAfterLoss, NEW t \in Runners, Return(t, Lost)
    PROVE  NoneAfterLoss'
<1>1. Lost \in {Lost} \cup Ids  OBVIOUS
<1>2. \A i \in Ids : outcome'[i] = IF wlock = t /\ i = seq THEN Lost ELSE outcome[i]
  BY <1>1, ReturnFacts
<1>3. SUFFICES ASSUME NEW i \in Ids, NEW j \in Ids, i < j, outcome'[i] = Lost
               PROVE  outcome'[j] <= 0
  BY DEF NoneAfterLoss, IsLost
<1>4. i \in Nat /\ j \in Nat /\ seq \in Nat /\ Lost = -1
  BY Basics
<1>5. CASE wlock = t /\ j = seq
  BY <1>2, <1>4, <1>5
<1>6. CASE wlock = t /\ i = seq
  BY <1>2, <1>3, <1>4, <1>6 DEF IInv, OutcomeInv
<1>7. CASE ~(wlock = t /\ j = seq) /\ ~(wlock = t /\ i = seq)
  BY <1>2, <1>3, <1>7 DEF NoneAfterLoss, IsLost
<1>8. QED  BY <1>5, <1>6, <1>7

\* close() is never followed by another call of the same thread.
LEMMA CloserStays ==
    ASSUME IInv, NoCloser', NEW t \in Threads, thread'[t].pc # "idle" \/ t \in Runners,
           \A u \in Threads : u # t => thread'[u] = thread[u]
    PROVE  NoCloser /\ SoleInv /\ t \in Runners
<1>1. t \in Runners
  BY Basics DEF NoCloser, At
<1>2. NoCloser
  BY <1>1, Basics DEF NoCloser, At
<1>3. QED  BY <1>1, <1>2 DEF IInv

\* A step of a runner that neither waits for a line nor closes the worker.
LEMMA SoleSame ==
    ASSUME IInv, SoleInv, NEW t \in Threads,
           UNCHANGED <<lines, requests, serving, streams, readers, outcome>>,
           proc' = proc \/ proc' # "up",
           thread[t].pc \notin {"read"} \cup Closing, thread'[t].pc # "read",
           \A u \in Threads : u # t => thread'[u] = thread[u]
    PROVE  SoleInv'
<1>1. \A u \in Runners : At(u, "read")' => At(u, "read") /\ thread'[u] = thread[u]
  BY Basics DEF At
<1>2. \A u \in Runners : At(u, "read") \/ thread[u].pc \in Closing => thread'[u] = thread[u]
  BY Basics DEF At, Closing
<1>3. SoleReader'
  BY <1>2 DEF SoleInv, SoleReader, At
<1>4. AnswerDue'
  BY <1>1 DEF SoleInv, AnswerDue, Outstanding, InLines, InRequests
<1>5. LossShows'
  BY <1>2 DEF SoleInv, LossShows, SomeLost, IsLost, Outstanding, InLines, InRequests
<1>6. LostFirst'
  BY <1>1 DEF SoleInv, LostFirst, SomeLost, IsLost, InLines
<1>7. NoneAfterLoss'
  BY DEF SoleInv, NoneAfterLoss, IsLost
<1>8. QED  BY <1>3, <1>4, <1>5, <1>6, <1>7 DEF SoleInv

----------------------------------------------------------------------------
(* The steps of run().                                                     *)

LEMMA BeginKeeps ==
    ASSUME IInv, NEW t \in Runners, Begin(t)
    PROVE  IInv'
<1>1. t \in Threads /\ t \notin Closers /\ At(t, "idle") /\ wlock # t /\ t # NoThread
  BY Basics, Numbers DEF Begin, At, Busy, Closing
<1>2. /\ UNCHANGED <<route, kid, requests, serving, lines, seq, closed, streams, readers>>
      /\ counts.calls < MaxCalls /\ counts' = [counts EXCEPT !.calls = @ + 1]
      /\ t = Starter \/ phase = "published"
  BY DEF Begin
<1>3. /\ counts' \in [calls : 0 .. MaxCalls, junk : 0 .. MaxJunk, faults : 0 .. MaxFaults]
      /\ counts'.calls = counts.calls + 1 /\ counts.calls \in Nat
  <2>1. counts \in [calls : 0 .. MaxCalls, junk : 0 .. MaxJunk, faults : 0 .. MaxFaults]
    BY DEF IInv, TypeOK
  <2>2. counts.calls + 1 \in 0 .. MaxCalls
    BY <1>2, <2>1, Basics
  <2>3. QED  BY <1>2, <2>1, <2>2
<1>4. /\ thread' \in [Threads -> ThreadState]
      /\ \A u \in Threads : u # t => thread'[u] = thread[u]
      /\ thread'[t].id = 0 /\ thread'[t].pc \in {"idle", "lock", "claim"}
      /\ thread'[t].pc = "claim" => t = Starter
      /\ UNCHANGED <<outcome, wlock, phase>>
      /\ proc' = proc \/ (proc # "up" /\ proc' = "reaped")
  <2>1. thread[t].id = 0  BY <1>1, Numbers
  <2>2. CASE proc = "up" /\ Goto(t, "lock") /\ UNCHANGED <<phase, proc, wlock, outcome>>
    <3>1. "lock" \in Pcs  BY DEF Pcs
    <3>2. QED  BY <1>1, <2>1, <2>2, <3>1, GotoFacts
  <2>3. CASE proc # "up" /\ proc' = "reaped" /\ Return(t, Lost)
    <3>1. Lost \in {Lost} \cup Ids  OBVIOUS
    <3>2. outcome' = outcome  BY <2>1, <2>3 DEF Return
    <3>3. QED  BY <1>1, <2>3, <3>1, <3>2, ReturnFacts
  <2>4. QED  BY <2>2, <2>3 DEF Begin
<1>5. TypeOK'
  BY <1>2, <1>3, <1>4 DEF IInv, TypeOK, ThreadState
<1>6. LockInv'
  <2>1. \A u \in Runners : thread'[u].pc \in Busy =>
            wlock' = u \/ (u = Starter /\ thread'[u].pc \in Closing)
    BY <1>1, <1>4, Basics DEF IInv, LockInv, Busy, Closing
  <2>2. wlock' # NoThread => thread'[wlock'].pc \in Busy /\ thread'[wlock'].id = seq' /\ seq' # 0
    BY <1>1, <1>2, <1>4, Basics DEF IInv, LockInv
  <2>3. \A u \in Threads : wlock' # u => thread'[u].id = 0
    BY <1>4 DEF IInv, LockInv
  <2>4. \A u \in Closers : thread'[u].pc \in {"idle", "over"} \cup Closing
    BY <1>1, <1>4, Basics DEF IInv, LockInv
  <2>5. \A u \in Threads : u # Starter /\ phase' # "published" => At(u, "idle")'
    BY <1>2, <1>4 DEF IInv, LockInv, At
  <2>6. phase' = "starting" <=> ~At(Starter, "over")'
    BY <1>1, <1>4, Basics DEF IInv, LockInv, At
  <2>7. QED  BY <2>1, <2>2, <2>3, <2>4, <2>5, <2>6 DEF LockInv
<1>7. CloseInv'
  BY <1>1, <1>2, <1>4, CloseSame DEF At
<1>8. OutcomeInv'
  BY <1>2, <1>4, OutcomeSame
<1>9. CountInv'
  <2>1. IsFiniteSet(Locking) /\ seq + Cardinality(Locking) <= counts.calls
    BY DEF IInv, CountInv
  <2>2. Locking' \subseteq Locking \cup {t}
    BY <1>4, Basics DEF Locking, At
  <2>3. IsFiniteSet(Locking \cup {t}) /\ Cardinality(Locking \cup {t}) <= Cardinality(Locking) + 1
    <3>1. /\ IsFiniteSet(Locking \cup {t})
          /\ Cardinality(Locking \cup {t}) = IF t \in Locking THEN Cardinality(Locking)
                                             ELSE Cardinality(Locking) + 1
      BY <2>1, FS_AddElement, Zenon
    <3>2. Cardinality(Locking) \in Nat  BY <2>1, FS_CardinalityType
    <3>3. QED  BY <3>1, <3>2
  <2>4. IsFiniteSet(Locking') /\ Cardinality(Locking') <= Cardinality(Locking \cup {t})
    BY <2>2, <2>3, FS_Subset, Zenon
  <2>5. /\ Cardinality(Locking) \in Nat /\ Cardinality(Locking') \in Nat
        /\ Cardinality(Locking \cup {t}) \in Nat
    BY <2>1, <2>3, <2>4, FS_CardinalityType
  <2>6. seq' + Cardinality(Locking') <= counts'.calls
    BY <1>2, <1>3, <2>1, <2>3, <2>4, <2>5, Basics
  <2>7. QED  BY <2>4, <2>6 DEF CountInv
<1>10. OrderInv'
  <2>1. \A u \in Runners : Sending(u)' => Sending(u)
    BY <1>1, <1>4, Basics DEF At
  <2>2. QED  BY <1>2, <2>1, OrderSame
<1>11. ASSUME NoCloser'  PROVE SoleInv'
  <2>1. SoleInv  BY <1>1, <1>4, <1>11, CloserStays
  <2>2. thread[t].pc \notin {"read"} \cup Closing
    BY <1>1 DEF At, Closing
  <2>3. QED  BY <1>1, <1>2, <1>4, <2>1, <2>2, SoleSame
<1>12. QED  BY <1>5, <1>6, <1>7, <1>8, <1>9, <1>10, <1>11 DEF IInv

LEMMA LockKeeps ==
    ASSUME IInv, NEW t \in Runners, Lock(t)
    PROVE  IInv'
<1>1. t \in Threads /\ t \notin Closers /\ thread[t].pc = "lock" /\ t # NoThread
  BY Basics DEF Lock, At
<1>2. /\ UNCHANGED <<route, phase, proc, kid, requests, serving, lines, closed, streams,
                     readers, outcome, counts>>
      /\ wlock = NoThread /\ wlock' = t /\ seq' = seq + 1
  BY DEF Lock, worker
<1>3. /\ IsFiniteSet(Locking) /\ seq + Cardinality(Locking) <= counts.calls
      /\ counts.calls \in Nat /\ counts.calls <= MaxCalls
  BY Basics DEF IInv, CountInv, TypeOK
<1>4. /\ IsFiniteSet(Locking \ {t}) /\ Cardinality(Locking) \in Nat
      /\ Cardinality(Locking \ {t}) = Cardinality(Locking) - 1
      /\ Cardinality(Locking \ {t}) \in Nat
  <2>1. t \in Locking
    BY <1>1 DEF Locking, At
  <2>2. /\ IsFiniteSet(Locking \ {t})
        /\ Cardinality(Locking \ {t}) = IF t \in Locking THEN Cardinality(Locking) - 1
                                        ELSE Cardinality(Locking)
    BY <1>3, FS_RemoveElement, Zenon
  <2>3. QED  BY <1>3, <2>1, <2>2, FS_CardinalityType
<1>5. seq + 1 \in Ids /\ seq' \in Nat /\ seq' = seq + 1
  BY <1>2, <1>3, <1>4, Basics DEF Ids
<1>6. /\ thread' \in [Threads -> ThreadState]
      /\ \A u \in Threads : u # t => thread'[u] = thread[u]
      /\ thread'[t].pc \in {"write", "push"} /\ thread'[t].id = seq'
  <2> PICK pc \in {"write", "push"} : thread' = [thread EXCEPT ![t] = [pc |-> pc, id |-> seq + 1]]
    BY DEF Lock
  <2> DEFINE x == [pc |-> pc, id |-> seq + 1]
  <2>1. x \in ThreadState
    BY <1>5 DEF ThreadState, Pcs, Ids
  <2>2. x.pc \in {"write", "push"} /\ x.id = seq'
    BY <1>2
  <2>3. thread' = [thread EXCEPT ![t] = x]
    OBVIOUS
  <2> HIDE DEF x
  <2>4. QED  BY <1>1, <2>1, <2>2, <2>3, Basics
<1>7. TypeOK'
  BY <1>1, <1>2, <1>5, <1>6 DEF IInv, TypeOK, ThreadState, Ids
<1>8. \A u \in Runners : thread[u].pc \in Busy => u = Starter /\ thread[u].pc \in Closing
  BY <1>2, Basics DEF IInv, LockInv
<1>9. LockInv'
  <2>1. \A u \in Runners : thread'[u].pc \in Busy =>
            wlock' = u \/ (u = Starter /\ thread'[u].pc \in Closing)
    BY <1>2, <1>6, <1>8, Basics
  <2>2. wlock' # NoThread => thread'[wlock'].pc \in Busy /\ thread'[wlock'].id = seq' /\ seq' # 0
    BY <1>2, <1>5, <1>6, Basics DEF Busy
  <2>3. \A u \in Threads : wlock' # u => thread'[u].id = 0
    BY <1>1, <1>2, <1>6, Basics DEF IInv, LockInv
  <2>4. \A u \in Closers : thread'[u].pc \in {"idle", "over"} \cup Closing
    BY <1>1, <1>6, Basics DEF IInv, LockInv
  <2>5. \A u \in Threads : u # Starter /\ phase' # "published" => At(u, "idle")'
    BY <1>1, <1>2, <1>6 DEF IInv, LockInv, At
  <2>6. phase' = "starting" <=> ~At(Starter, "over")'
    BY <1>1, <1>2, <1>6, Basics DEF IInv, LockInv, At
  <2>7. QED  BY <2>1, <2>2, <2>3, <2>4, <2>5, <2>6 DEF LockInv
<1>10. CloseInv'
  BY <1>1, <1>2, <1>6, CloseSame
<1>11. OutcomeInv'
  BY <1>2, <1>5, Basics DEF IInv, OutcomeInv, AnswersOwn
<1>12. CountInv'
  <2>1. Locking' = Locking \ {t}
    BY <1>1, <1>6, Basics DEF Locking, At
  <2>2. seq + 1 + Cardinality(Locking \ {t}) <= counts.calls
    BY <1>3, <1>4, Basics
  <2>3. seq' + Cardinality(Locking') <= counts'.calls
    BY <1>2, <2>1, <2>2
  <2>4. QED  BY <1>4, <2>1, <2>3 DEF CountInv
<1>13. OrderInv'
  <2>1. \A k \in Ids : Outstanding(k)' <=> Outstanding(k)
    BY <1>2 DEF Outstanding, InLines, InRequests
  <2>2. \A k \in Ids : Outstanding(k) => k < seq'
    BY <1>5, Basics DEF IInv, OrderInv
  <2>3. /\ \A k \in Ids : Outstanding(k)' => k <= seq'
        /\ \A u \in Runners : Sending(u)' => \A k \in Ids : Outstanding(k)' => k < seq'
    BY <1>5, <2>1, <2>2, Basics
  <2>4. QED  BY <1>2, <2>3 DEF IInv, OrderInv, InLines, InRequests
<1>14. ASSUME NoCloser'  PROVE SoleInv'
  <2>1. SoleInv  BY <1>1, <1>6, <1>14, CloserStays
  <2>2. thread[t].pc \notin {"read"} \cup Closing
    BY <1>1 DEF Closing
  <2>3. QED  BY <1>1, <1>2, <1>6, <2>1, <2>2, SoleSame
<1>15. QED  BY <1>7, <1>9, <1>10, <1>11, <1>12, <1>13, <1>14 DEF IInv

\* A written request is the last one, and is answered last.
LEMMA RequestAppended ==
    ASSUME IInv, NEW t \in Runners, Sending(t), requests' = Append(requests, seq),
           UNCHANGED <<lines, serving, seq>>, thread'[t].pc \notin {"write", "push"},
           \A u \in Threads : u # t => thread'[u] = thread[u]
    PROVE  /\ requests' \in Seq(Ids)
           /\ OrderInv'
           /\ \A k \in Ids : Outstanding(k)' <=> Outstanding(k) \/ k = seq
           /\ \A k \in Ids : InLines(k)' <=> InLines(k)
<1>1. seq \in Ids /\ seq \in Nat
  BY Numbers, Basics DEF At
<1>2. requests \in Seq(Ids) /\ Len(requests) \in Nat
  BY DEF IInv, TypeOK
<1>3. /\ requests' \in Seq(Ids) /\ Len(requests') = Len(requests) + 1
      /\ \A p \in 1 .. Len(requests) : requests'[p] = requests[p]
      /\ requests'[Len(requests) + 1] = seq
  BY <1>1, <1>2
<1>4. \A k \in Ids : InRequests(k)' <=> InRequests(k) \/ k = seq
  <2>1. SUFFICES ASSUME NEW k \in Ids
                 PROVE  /\ InRequests(k)' => InRequests(k) \/ k = seq
                        /\ InRequests(k) => InRequests(k)'
                        /\ InRequests(seq)'
    OBVIOUS
  <2>2. InRequests(k)' => InRequests(k) \/ k = seq
    BY <1>2, <1>3 DEF InRequests
  <2>3. InRequests(k) => InRequests(k)'
    BY <1>2, <1>3 DEF InRequests
  <2>4. Len(requests) + 1 \in 1 .. Len(requests')
    BY <1>2, <1>3
  <2>5. \E p \in 1 .. Len(requests') : requests'[p] = seq'
    BY <1>3, <2>4
  <2>6. QED  BY <2>2, <2>3, <2>5 DEF InRequests
<1>5. \A k \in Ids : InLines(k)' <=> InLines(k)
  BY DEF InLines
<1>6. \A k \in Ids : Outstanding(k)' <=> Outstanding(k) \/ k = seq
  BY <1>4, <1>5 DEF Outstanding
<1>7. \A k \in Ids : Outstanding(k) => k < seq
  BY DEF IInv, OrderInv
<1>8. \A p, q \in 1 .. Len(requests') : p < q => requests'[p] < requests'[q]
  <2>1. SUFFICES ASSUME NEW p \in 1 .. Len(requests'), NEW q \in 1 .. Len(requests'), p < q
                 PROVE  requests'[p] < requests'[q]
    OBVIOUS
  <2>2. p \in 1 .. Len(requests) /\ requests'[p] = requests[p]
    BY <1>2, <1>3, <2>1
  <2>3. CASE q = Len(requests) + 1
    <3>1. requests[p] \in Ids /\ InRequests(requests[p])
      BY <1>2, <2>2 DEF InRequests
    <3>2. QED  BY <1>3, <1>7, <2>2, <2>3, <3>1 DEF Outstanding
  <2>4. CASE q # Len(requests) + 1
    <3>1. q \in 1 .. Len(requests) /\ requests'[q] = requests[q]
      BY <1>2, <1>3, <2>4
    <3>2. QED  BY <2>1, <2>2, <3>1 DEF IInv, OrderInv
  <2>5. QED  BY <2>3, <2>4
<1>9. \A j, k \in Ids : InLines(j)' /\ (serving' = k \/ InRequests(k)') => j < k
  BY <1>4, <1>5, <1>7 DEF IInv, OrderInv, Outstanding
<1>10. \A k \in Ids : serving' # 0 /\ InRequests(k)' => serving' < k
  <2>1. serving # 0 => serving \in Ids
    BY Basics DEF IInv, TypeOK, Ids
  <2>2. serving # 0 => serving < seq
    BY <1>7, <2>1 DEF Outstanding
  <2>3. QED  BY <1>4, <2>2 DEF IInv, OrderInv
<1>11. \A k \in Ids : Outstanding(k)' => k <= seq'
  BY <1>1, <1>6, <1>7, Basics
<1>12. \A u \in Runners : ~Sending(u)'
  BY OneBusy, Basics DEF At, Busy
<1>13. QED  BY <1>3, <1>5, <1>6, <1>8, <1>9, <1>10, <1>11, <1>12 DEF IInv, OrderInv

LEMMA WriteKeeps ==
    ASSUME IInv, NEW t \in Runners, Write(t)
    PROVE  IInv'
<1>1. /\ t \in Threads /\ t \notin Closers /\ thread[t].pc \in {"write", "push"} /\ wlock = t
      /\ thread[t].id = seq /\ seq \in Ids
  BY Basics, Numbers DEF Write, At
<1>2. /\ UNCHANGED <<route, phase, proc, kid, serving, lines, seq, wlock, closed, streams,
                     outcome, counts>>
      /\ requests' = Append(requests, seq) /\ readers' = readers \cup {seq}
      /\ streams = "open"
  BY <1>1 DEF Write
<1>3. /\ thread' \in [Threads -> ThreadState]
      /\ thread'[t].pc = "read" /\ thread'[t].id = seq
      /\ \A u \in Threads : u # t => thread'[u] = thread[u]
  <2>1. "read" \in Pcs /\ Goto(t, "read")  BY DEF Pcs, Write
  <2>2. QED  BY <1>1, <2>1, GotoFacts
<1>4. /\ requests' \in Seq(Ids)
      /\ OrderInv'
      /\ \A k \in Ids : Outstanding(k)' <=> Outstanding(k) \/ k = seq
      /\ \A k \in Ids : InLines(k)' <=> InLines(k)
  <2>1. Sending(t)  BY <1>1 DEF At
  <2>2. thread'[t].pc \notin {"write", "push"}  BY <1>3
  <2>3. QED  BY <1>2, <1>3, <2>1, <2>2, RequestAppended
<1>5. TypeOK'
  BY <1>1, <1>2, <1>3, <1>4 DEF IInv, TypeOK, ThreadState
<1>6. LockInv'
  <2>1. thread[t].pc \in Busy /\ thread'[t].pc \in Busy
    BY <1>1, <1>3 DEF Busy
  <2>2. QED  BY <1>1, <1>2, <1>3, <2>1, LockMoves
<1>7. CloseInv'
  BY <1>1, <1>2, <1>3, CloseSame
<1>8. OutcomeInv'
  BY <1>2, OutcomeSame
<1>9. CountInv'
  <2>1. Locking' \subseteq Locking
    BY <1>3, Basics DEF Locking, At
  <2>2. counts'.calls \in Nat /\ counts'.calls >= counts.calls
    BY <1>2, Basics DEF IInv, TypeOK
  <2>3. QED  BY <1>2, <2>1, <2>2, CountSame
<1>10. ASSUME NoCloser'  PROVE SoleInv'
  <2>1. SoleInv  BY <1>1, <1>3, <1>10, CloserStays
  <2>2. \A u \in Runners : u # t => ~At(u, "read") /\ thread[u].pc \notin Closing
    BY <1>1, OneBusy DEF At, Busy
  <2>3. \A u \in Runners : At(u, "read")' => u = t
    BY <1>3, <2>2, Basics DEF At
  <2>4. SoleReader'
    <3>1. readers = {}
      BY <1>1, <1>2, <2>1, <2>2 DEF SoleInv, SoleReader, At, Closing
    <3>2. At(t, "read")' /\ readers' \subseteq {thread'[t].id}
      BY <1>2, <1>3, <3>1 DEF At
    <3>3. QED  BY <3>2 DEF SoleReader
  <2>5. AnswerDue'
    <3>1. Outstanding(seq)'
      <4>1. \E p \in 1 .. Len(requests') : requests'[p] = seq
        <5>1. requests \in Seq(Ids)  BY DEF IInv, TypeOK
        <5>2. Len(requests) + 1 \in 1 .. Len(requests') /\ requests'[Len(requests) + 1] = seq
          BY <1>1, <1>2, <5>1
        <5>3. QED  BY <5>2
      <4>2. QED  BY <1>2, <4>1 DEF Outstanding, InRequests
    <3>2. QED  BY <1>2, <1>3, <2>3, <3>1 DEF AnswerDue, Outstanding, InRequests, InLines
  <2>6. LossShows'
    <3>1. \A k \in Ids : IsLost(k)' <=> IsLost(k)  BY <1>2 DEF IsLost
    <3>2. \A u \in Runners : thread[u].pc \notin Closing
      BY <1>1, <2>2 DEF Closing
    <3>3. QED  BY <1>2, <1>4, <2>1, <3>1, <3>2 DEF SoleInv, LossShows, SomeLost
  <2>7. LostFirst'
    <3>1. ~InLines(seq)
      BY <1>1, Basics DEF IInv, OrderInv, At, Outstanding
    <3>2. QED  BY <1>2, <1>3, <2>3, <3>1 DEF LostFirst, InLines
  <2>8. NoneAfterLoss'
    BY <1>2, <2>1 DEF SoleInv, NoneAfterLoss, IsLost
  <2>9. QED  BY <2>4, <2>5, <2>6, <2>7, <2>8 DEF SoleInv
<1>11. QED  BY <1>4, <1>5, <1>6, <1>7, <1>8, <1>9, <1>10 DEF IInv

LEMMA NoReaderKeeps ==
    ASSUME IInv, NEW t \in Runners, NoReader(t)
    PROVE  IInv'
<1>1. /\ t \in Threads /\ t \notin Closers /\ thread[t].pc \in {"write", "push"} /\ wlock = t
      /\ thread[t].id = seq /\ seq \in Ids /\ Lost \in {Lost} \cup Ids /\ Lost \in {Lost, seq}
  BY Basics, Numbers DEF NoReader, At
<1>2. /\ UNCHANGED <<route, proc, kid, serving, lines, seq, closed, streams, readers>>
      /\ requests' = Append(requests, seq) /\ Return(t, Lost)
      /\ streams = "open" /\ counts.faults < MaxFaults
      /\ counts' = [counts EXCEPT !.faults = @ + 1]
  BY <1>1 DEF NoReader
<1>3. /\ counts' \in [calls : 0 .. MaxCalls, junk : 0 .. MaxJunk, faults : 0 .. MaxFaults]
      /\ counts'.calls = counts.calls /\ counts.calls \in Nat
  <2>1. counts \in [calls : 0 .. MaxCalls, junk : 0 .. MaxJunk, faults : 0 .. MaxFaults]
    BY DEF IInv, TypeOK
  <2>2. counts.faults + 1 \in 0 .. MaxFaults
    BY <1>2, <2>1, WorkerProtocolAssumption
  <2>3. counts'.calls = counts.calls /\ counts.calls \in Nat
    BY <1>2, <2>1, Basics
  <2>4. QED  BY <1>2, <2>1, <2>2, <2>3
<1>4. /\ thread' \in [Threads -> ThreadState]
      /\ \A u \in Threads : u # t => thread'[u] = thread[u]
      /\ thread'[t].pc \in {"idle", "claim"}
      /\ wlock' \in Runners \cup {NoThread}
      /\ outcome' \in [Ids -> {Lost, 0} \cup Ids] /\ outcome'[seq] = Lost
      /\ \A i \in Ids : i # seq => outcome'[i] = outcome[i]
      /\ phase' = phase
  BY <1>1, <1>2, ReturnFacts
<1>5. /\ requests' \in Seq(Ids)
      /\ OrderInv'
      /\ \A k \in Ids : Outstanding(k)' <=> Outstanding(k) \/ k = seq
  <2>1. Sending(t)  BY <1>1 DEF At
  <2>2. thread'[t].pc \notin {"write", "push"}  BY <1>4
  <2>3. QED  BY <1>2, <1>4, <2>1, <2>2, RequestAppended
<1>6. TypeOK'
  BY <1>2, <1>3, <1>4, <1>5 DEF IInv, TypeOK, ThreadState
<1>7. LockInv'
  <2>1. t = Starter \/ phase = "published"
    BY <1>1 DEF IInv, LockInv, At
  <2>2. QED  BY <1>1, <1>2, <2>1, LockReturns
<1>8. CloseInv'
  BY <1>1, <1>2, <1>4, CloseSame
<1>9. OutcomeInv'
  BY <1>1, <1>2, OutcomeReturns
<1>10. CountInv'
  <2>1. Locking' \subseteq Locking
    BY <1>4, Basics DEF Locking, At
  <2>2. counts'.calls >= counts.calls
    BY <1>3
  <2>3. QED  BY <1>2, <1>3, <2>1, <2>2, CountSame
<1>11. ASSUME NoCloser'  PROVE SoleInv'
  <2>1. SoleInv  BY <1>1, <1>4, <1>11, CloserStays
  <2>2. \A u \in Runners : u # t => ~At(u, "read") /\ thread[u].pc \notin Closing
    BY <1>1, OneBusy DEF At, Busy
  <2>3. \A u \in Runners : ~At(u, "read")'
    BY <1>4, <2>2, Basics DEF At
  <2>4. SoleReader'
    BY <1>1, <1>2, <2>1, <2>2 DEF SoleInv, SoleReader, At, Closing
  <2>5. LossShows'
    <3>1. IsLost(seq)' /\ Outstanding(seq)'
      <4>1. \E p \in 1 .. Len(requests') : requests'[p] = seq'
        <5>1. requests \in Seq(Ids)  BY DEF IInv, TypeOK
        <5>2. Len(requests) + 1 \in 1 .. Len(requests') /\ requests'[Len(requests) + 1] = seq'
          BY <1>1, <1>2, <5>1
        <5>3. QED  BY <5>2
      <4>2. QED  BY <1>2, <1>4, <4>1 DEF Outstanding, InRequests, IsLost
    <3>2. seq' \in Ids  BY <1>1, <1>2
    <3>3. QED  BY <3>1, <3>2 DEF LossShows
  <2>6. NoneAfterLoss'
    BY <1>2, <2>1, LossKeeps DEF SoleInv
  <2>7. QED  BY <2>3, <2>4, <2>5, <2>6 DEF SoleInv, AnswerDue, LostFirst
<1>12. QED  BY <1>5, <1>6, <1>7, <1>8, <1>9, <1>10, <1>11 DEF IInv

\* The call of t goes on to close() and has not got its answer.
LEMMA GivesUp ==
    ASSUME IInv, NEW t \in Runners, thread[t].pc \in {"write", "push", "read"}, Goto(t, "claim"),
           UNCHANGED <<route, phase, worker, lines, parent, outcome, counts>>
    PROVE  IInv'
<1>1. t \in Threads /\ t \notin Closers /\ wlock = t /\ "claim" \in Pcs
  BY Basics, Numbers DEF Pcs
<1>2. UNCHANGED <<route, phase, proc, kid, requests, serving, lines, seq, wlock, closed,
                  streams, readers, outcome, counts>>
  BY DEF worker, parent
<1>3. /\ thread' \in [Threads -> ThreadState]
      /\ thread'[t].pc = "claim" /\ thread'[t].id = thread[t].id
      /\ \A u \in Threads : u # t => thread'[u] = thread[u]
  BY <1>1, GotoFacts
<1>4. TypeOK'
  BY <1>2, <1>3 DEF IInv, TypeOK, ThreadState
<1>5. LockInv'
  <2>1. thread[t].pc \in Busy /\ thread'[t].pc \in Busy
    BY <1>3 DEF Busy, Closing
  <2>2. QED  BY <1>1, <1>2, <1>3, <2>1, LockMoves
<1>6. CloseInv'
  BY <1>1, <1>2, <1>3, CloseSame
<1>7. OutcomeInv'
  BY <1>2, OutcomeSame
<1>8. CountInv'
  <2>1. Locking' \subseteq Locking
    BY <1>3, Basics DEF Locking, At
  <2>2. counts'.calls \in Nat /\ counts'.calls >= counts.calls
    BY <1>2, Basics DEF IInv, TypeOK
  <2>3. QED  BY <1>2, <2>1, <2>2, CountSame
<1>9. OrderInv'
  <2>1. \A u \in Runners : Sending(u)' => Sending(u)
    BY <1>3, Basics DEF At
  <2>2. QED  BY <1>2, <2>1, OrderSame
<1>10. ASSUME NoCloser'  PROVE SoleInv'
  <2>1. SoleInv  BY <1>1, <1>3, <1>10, CloserStays
  <2>2. \A u \in Runners : u # t => ~At(u, "read")
    BY OneBusy DEF At, Busy
  <2>3. \A u \in Runners : ~At(u, "read")'
    BY <1>3, <2>2, Basics DEF At
  <2>4. thread'[t].pc \in Closing  BY <1>3 DEF Closing
  <2>5. NoneAfterLoss'
    BY <1>2, <2>1 DEF SoleInv, NoneAfterLoss, IsLost
  <2>6. QED  BY <2>3, <2>4, <2>5 DEF SoleInv, SoleReader, AnswerDue, LossShows, LostFirst
<1>11. QED  BY <1>4, <1>5, <1>6, <1>7, <1>8, <1>9, <1>10 DEF IInv

----------------------------------------------------------------------------
(* The reader threads.                                                     *)

LEMMA WaitingFacts ==
    ASSUME IInv, NEW i \in Ids, NEW t \in Waiting(i)
    PROVE  /\ t \in Runners /\ t \in Threads /\ thread[t].pc = "read" /\ At(t, "read")
           /\ wlock = t /\ thread[t].id = seq /\ i = seq /\ seq \in Ids
           /\ \A u \in Runners : u # t => thread[u].pc \notin Busy
           /\ t = Starter \/ phase = "published"
<1>1. t \in Runners /\ t \in Threads /\ thread[t].pc = "read" /\ At(t, "read") /\ thread[t].id = i
  BY Basics DEF Waiting, At
<1>2. wlock = t /\ thread[t].id = seq /\ seq \in Ids
  BY <1>1, Numbers
<1>3. \A u \in Runners : u # t => thread[u].pc \notin Busy
  BY <1>1, OneBusy DEF Busy
<1>4. t = Starter \/ phase = "published"
  BY <1>1 DEF IInv, LockInv, At
<1>5. QED  BY <1>1, <1>2, <1>3, <1>4

\* A line is taken out of the channel.
LEMMA LineRead ==
    ASSUME IInv, lines # <<>>, lines' = Tail(lines), UNCHANGED <<requests, serving, seq>>,
           \A u \in Runners : Sending(u)' => Sending(u)
    PROVE  /\ lines' \in Seq(Lines) /\ Head(lines) \in Lines
           /\ OrderInv'
           /\ \A k \in Ids : InLines(k)' => InLines(k)
           /\ \A k \in Ids : InLines(k) =>
                  InLines(k)' \/ (Head(lines).kind = "answer" /\ Head(lines).id = k)
           /\ Head(lines).kind = "answer" =>
                  /\ Head(lines).id \in Ids /\ InLines(Head(lines).id)
                  /\ \A k \in Ids : InLines(k) => Head(lines).id <= k
<1>1. lines \in Seq(Lines) /\ Len(lines) \in Nat /\ Len(lines) >= 1
  BY DEF IInv, TypeOK
<1>2. /\ lines' \in Seq(Lines) /\ Len(lines') = Len(lines) - 1
      /\ \A p \in 1 .. Len(lines') : lines'[p] = lines[p + 1]
      /\ Head(lines) = lines[1] /\ Head(lines) \in Lines
  BY <1>1
<1>3. \A p \in 1 .. Len(lines') : p + 1 \in 1 .. Len(lines)
  BY <1>1, <1>2
<1>4. \A k \in Ids : InLines(k)' => InLines(k)
  BY <1>2, <1>3 DEF InLines
<1>5. \A k \in Ids : InLines(k) =>
          InLines(k)' \/ (Head(lines).kind = "answer" /\ Head(lines).id = k)
  <2>1. SUFFICES ASSUME NEW k \in Ids, NEW p \in 1 .. Len(lines),
                        lines[p].kind = "answer", lines[p].id = k, p # 1
                 PROVE  InLines(k)'
    BY <1>2 DEF InLines
  <2>2. p - 1 \in 1 .. Len(lines') /\ lines'[p - 1] = lines[p]
    BY <1>1, <1>2, <2>1
  <2>3. QED  BY <2>1, <2>2 DEF InLines
<1>6. Head(lines).kind = "answer" =>
          /\ Head(lines).id \in Ids /\ InLines(Head(lines).id)
          /\ \A k \in Ids : InLines(k) => Head(lines).id <= k
  <2>1. SUFFICES ASSUME lines[1].kind = "answer"
                 PROVE  /\ lines[1].id \in Ids /\ InLines(lines[1].id)
                        /\ \A k \in Ids : InLines(k) => lines[1].id <= k
    BY <1>2
  <2>2. 1 \in 1 .. Len(lines)  BY <1>1
  <2>3. lines[1].id \in Ids /\ InLines(lines[1].id)
    BY <2>1, <2>2 DEF IInv, OrderInv, InLines
  <2>4. ASSUME NEW k \in Ids, NEW p \in 1 .. Len(lines),
               lines[p].kind = "answer", lines[p].id = k
        PROVE  lines[1].id <= k
    <3>1. CASE p = 1  BY <2>3, <2>4, <3>1, Basics
    <3>2. CASE p # 1
      <4>1. 1 < p  BY <3>2
      <4>2. lines[1].id < lines[p].id
        BY <2>1, <2>2, <2>4, <4>1 DEF IInv, OrderInv
      <4>3. QED  BY <2>3, <2>4, <4>2, Basics
    <3>3. QED  BY <3>1, <3>2
  <2>5. QED  BY <2>3, <2>4 DEF InLines
<1>7. OrderInv'
  <2>1. \A p, q \in 1 .. Len(lines') :
            p < q /\ lines'[p].kind = "answer" /\ lines'[q].kind = "answer"
              => lines'[p].id < lines'[q].id
    <3>1. SUFFICES ASSUME NEW p \in 1 .. Len(lines'), NEW q \in 1 .. Len(lines'), p < q,
                          lines'[p].kind = "answer", lines'[q].kind = "answer"
                   PROVE  lines'[p].id < lines'[q].id
      OBVIOUS
    <3>2. p + 1 \in 1 .. Len(lines) /\ q + 1 \in 1 .. Len(lines) /\ p + 1 < q + 1
      BY <1>3, <3>1
    <3>3. lines'[p] = lines[p + 1] /\ lines'[q] = lines[q + 1]
      BY <1>2
    <3>4. QED  BY <3>1, <3>2, <3>3 DEF IInv, OrderInv
  <2>2. \A p \in 1 .. Len(lines') : lines'[p].kind = "answer" => lines'[p].id \in Ids
    BY <1>2, <1>3 DEF IInv, OrderInv
  <2>3. \A k \in Ids : InRequests(k)' <=> InRequests(k)
    BY DEF InRequests
  <2>4. \A k \in Ids : Outstanding(k)' => Outstanding(k)
    BY <1>4, <2>3 DEF Outstanding
  <2>5. \A j, k \in Ids : InLines(j)' /\ (serving' = k \/ InRequests(k)') => j < k
    BY <1>4, <2>3 DEF IInv, OrderInv
  <2>6. QED  BY <2>1, <2>2, <2>3, <2>4, <2>5 DEF IInv, OrderInv
<1>8. QED  BY <1>2, <1>4, <1>5, <1>6, <1>7

\* The call that waits for reader i returns.
LEMMA WaiterReturns ==
    ASSUME IInv, NEW i \in Ids, NEW t \in Waiting(i), NEW result \in {Lost} \cup Ids,
           Return(t, result), result \in {Lost, seq},
           UNCHANGED <<route, kid, requests, serving, seq, closed, streams, counts>>,
           proc' = proc \/ (proc # "up" /\ proc' = "reaped"),
           lines' \in Seq(Lines), readers' \subseteq readers
    PROVE  /\ TypeOK' /\ LockInv' /\ CloseInv' /\ OutcomeInv' /\ CountInv'
           /\ \A u \in Runners : ~Sending(u)' /\ ~At(u, "read")'
<1>1. /\ t \in Runners /\ t \in Threads /\ thread[t].pc = "read"
      /\ \A u \in Runners : u # t => thread[u].pc \notin Busy
      /\ t = Starter \/ phase = "published"
  BY WaitingFacts
<1>2. /\ thread' \in [Threads -> ThreadState]
      /\ \A u \in Threads : u # t => thread'[u] = thread[u]
      /\ thread'[t].pc \in {"idle", "claim", "over"}
      /\ wlock' \in Runners \cup {NoThread}
      /\ outcome' \in [Ids -> {Lost, 0} \cup Ids]
      /\ phase' \in {phase, "published"}
  BY <1>1, ReturnFacts
<1>3. TypeOK'
  BY <1>2 DEF IInv, TypeOK, ThreadState
<1>4. LockInv'
  BY <1>1, LockReturns
<1>5. CloseInv'
  BY <1>1, <1>2, CloseSame
<1>6. OutcomeInv'
  BY <1>1, OutcomeReturns
<1>7. CountInv'
  <2>1. Locking' \subseteq Locking
    BY <1>2, Basics DEF Locking, At
  <2>2. counts'.calls \in Nat /\ counts'.calls >= counts.calls
    BY Basics DEF IInv, TypeOK
  <2>3. QED  BY <2>1, <2>2, CountSame
<1>8. \A u \in Runners : ~Sending(u)' /\ ~At(u, "read")'
  BY <1>1, <1>2, Basics DEF At, Busy
<1>9. QED  BY <1>3, <1>4, <1>5, <1>6, <1>7, <1>8

\* A reader nobody waits for ends.
LEMMA ParkedReads ==
    ASSUME IInv, NEW i \in Ids, UNCHANGED <<phase, thread, wlock, outcome>>,
           UNCHANGED <<route, kid, requests, serving, seq, closed, streams, counts>>,
           proc' = proc \/ (proc # "up" /\ proc' = "reaped"),
           lines' \in Seq(Lines), readers' \subseteq readers
    PROVE  TypeOK' /\ LockInv' /\ CloseInv' /\ OutcomeInv' /\ CountInv'
<1>1. TypeOK'
  BY DEF IInv, TypeOK
<1>2. LockInv'
  BY DEF IInv, LockInv, At
<1>3. CloseInv'
  BY DEF IInv, CloseInv, At
<1>4. OutcomeInv'
  BY OutcomeSame
<1>5. CountInv'
  BY DEF IInv, CountInv, Locking, At
<1>6. QED  BY <1>1, <1>2, <1>3, <1>4, <1>5

\* A line that is no answer to the call of t makes it close the worker.
LEMMA WaiterGivesUp ==
    ASSUME IInv, NEW i \in Ids, NEW t \in Waiting(i), Goto(t, "claim"),
           UNCHANGED <<phase, wlock, outcome>>,
           UNCHANGED <<route, proc, kid, requests, serving, seq, closed, streams, counts>>,
           lines' \in Seq(Lines), readers' \subseteq readers
    PROVE  /\ TypeOK' /\ LockInv' /\ CloseInv' /\ OutcomeInv' /\ CountInv'
           /\ \A u \in Runners : ~Sending(u)' /\ ~At(u, "read")'
           /\ thread'[t].pc \in Closing
           /\ \A u \in Threads : u # t => thread'[u] = thread[u]
<1>1. /\ t \in Runners /\ t \in Threads /\ thread[t].pc = "read" /\ wlock = t
      /\ \A u \in Runners : u # t => thread[u].pc \notin Busy
      /\ "claim" \in Pcs /\ t \notin Closers
  BY WaitingFacts, Basics DEF Pcs
<1>2. /\ thread' \in [Threads -> ThreadState]
      /\ thread'[t].pc = "claim" /\ thread'[t].id = thread[t].id
      /\ \A u \in Threads : u # t => thread'[u] = thread[u]
  BY <1>1, GotoFacts
<1>3. TypeOK'
  BY <1>2 DEF IInv, TypeOK, ThreadState
<1>4. LockInv'
  <2>1. thread[t].pc \in Busy /\ thread'[t].pc \in Busy
    BY <1>1, <1>2 DEF Busy, Closing
  <2>2. QED  BY <1>1, <1>2, <2>1, LockMoves
<1>5. CloseInv'
  BY <1>1, <1>2, CloseSame
<1>6. OutcomeInv'
  BY OutcomeSame
<1>7. CountInv'
  <2>1. Locking' \subseteq Locking
    BY <1>2, Basics DEF Locking, At
  <2>2. counts'.calls \in Nat /\ counts'.calls >= counts.calls
    BY Basics DEF IInv, TypeOK
  <2>3. QED  BY <2>1, <2>2, CountSame
<1>8. \A u \in Runners : ~Sending(u)' /\ ~At(u, "read")'
  BY <1>1, <1>2, Basics DEF At, Busy
<1>9. QED  BY <1>2, <1>3, <1>4, <1>5, <1>6, <1>7, <1>8 DEF Closing

\* With the sole reader gone there is none.
LEMMA LastReader ==
    ASSUME IInv, SoleReader, NEW i \in Ids, NEW t \in Waiting(i), readers' = readers \ {i},
           streams' = streams
    PROVE  SoleReader'
<1>1. /\ t \in Runners /\ thread[t].pc = "read" /\ thread[t].id = i
      /\ \A u \in Runners : u # t => thread[u].pc \notin Busy
  BY WaitingFacts
<1>2. readers' = {} \/ streams' = "closed"
  BY <1>1 DEF SoleReader, At, Busy, Closing
<1>3. QED  BY <1>2 DEF SoleReader

LEMMA ReadLineKeeps ==
    ASSUME IInv, NEW i \in Ids, ReadLine(i)
    PROVE  IInv'
<1>1. /\ UNCHANGED <<route, proc, kid, requests, serving, seq, closed, streams, counts>>
      /\ i \in readers /\ lines # <<>> /\ lines' = Tail(lines) /\ readers' = readers \ {i}
      /\ streams = "open"
  BY DEF ReadLine, worker
<1>2. readers' \subseteq readers
  BY <1>1
<1> DEFINE line == Head(lines)
<1>3. lines' \in Seq(Lines)
  <2>1. lines \in Seq(Lines)  BY DEF IInv, TypeOK
  <2>2. QED  BY <1>1, <2>1
<1>4. ASSUME NEW t \in Waiting(i), Takes(t, line)
      PROVE  IInv'
  <2>1. /\ t \in Runners /\ t \in Threads /\ thread[t].pc = "read" /\ At(t, "read")
        /\ thread[t].id = seq /\ i = seq /\ seq \in Ids /\ wlock = t
        /\ \A u \in Runners : u # t => thread[u].pc \notin Busy
        /\ Lost \in {Lost} \cup Ids /\ Lost \in {Lost, seq} /\ Lost = -1 /\ Lost \notin Ids
    BY <1>4, WaitingFacts, Basics
  <2>2. outcome[seq] = 0
    BY <2>1, Basics DEF IInv, OutcomeInv
  <2>3. CASE line.kind = "answer" /\ line.id = thread[t].id /\ Return(t, line.id)
    <3>1. line.id = seq /\ seq \in {Lost} \cup Ids /\ seq \in {Lost, seq} /\ Return(t, seq)
      BY <2>1, <2>3
    <3>2. /\ TypeOK' /\ LockInv' /\ CloseInv' /\ OutcomeInv' /\ CountInv'
          /\ \A u \in Runners : ~Sending(u)' /\ ~At(u, "read")'
      BY <1>1, <1>2, <1>3, <1>4, <3>1, WaiterReturns
    <3>3. OrderInv' /\ InLines(seq) /\ \A k \in Ids : InLines(k) => seq <= k
      <4>1. \A u \in Runners : Sending(u)' => Sending(u)  BY <3>2
      <4>2. QED  BY <1>1, <2>3, <3>1, <4>1, LineRead
    <3>4. ASSUME NoCloser'  PROVE SoleInv'
      <4>1. /\ \A u \in Threads : u # t => thread'[u] = thread[u]
            /\ \A k \in Ids : outcome'[k] = IF k = seq THEN seq ELSE outcome[k]
        BY <2>1, <3>1, ReturnFacts
      <4>2. SoleInv  BY <2>1, <3>4, <4>1, CloserStays
      <4>3. ~SomeLost
        <5>1. SUFFICES ASSUME SomeLost  PROVE FALSE
          OBVIOUS
        <5>2. PICK k \in Ids : IsLost(k) /\ InLines(k)
          BY <2>1, <3>3, <4>2, <5>1 DEF SoleInv, LostFirst
        <5>3. k # seq  BY <2>1, <2>2, <5>2 DEF IsLost
        <5>4. seq <= k  BY <3>3, <5>2
        <5>5. k <= seq  BY <5>2 DEF IInv, OrderInv, Outstanding
        <5>6. QED  BY <5>3, <5>4, <5>5, Basics
      <4>4. ~SomeLost'
        BY <2>1, <4>1, <4>3 DEF SomeLost, IsLost
      <4>5. NoneAfterLoss'
        BY <4>4 DEF NoneAfterLoss, SomeLost
      <4>6. SoleReader'
        BY <1>1, <1>4, <4>2, LastReader DEF SoleInv
      <4>7. QED  BY <3>2, <4>4, <4>5, <4>6 DEF SoleInv, AnswerDue, LossShows, LostFirst
    <3>5. QED  BY <3>2, <3>3, <3>4 DEF IInv
  <2>4. CASE line.kind \in {"blank", "value"} /\ Return(t, Lost)
    <3>1. /\ TypeOK' /\ LockInv' /\ CloseInv' /\ OutcomeInv' /\ CountInv'
          /\ \A u \in Runners : ~Sending(u)' /\ ~At(u, "read")'
      BY <1>1, <1>2, <1>3, <1>4, <2>1, <2>4, WaiterReturns
    <3>2. OrderInv' /\ \A k \in Ids : InLines(k) => InLines(k)'
      <4>1. \A u \in Runners : Sending(u)' => Sending(u)  BY <3>1
      <4>2. line.kind # "answer"  BY <2>4
      <4>3. QED  BY <1>1, <4>1, <4>2, LineRead
    <3>3. ASSUME NoCloser'  PROVE SoleInv'
      <4>1. /\ \A u \in Threads : u # t => thread'[u] = thread[u]
            /\ \A k \in Ids : outcome'[k] = IF k = seq THEN Lost ELSE outcome[k]
        BY <2>1, <2>4, ReturnFacts
      <4>2. SoleInv  BY <2>1, <3>3, <4>1, CloserStays
      <4>3. SoleReader'
        BY <1>1, <1>4, <4>2, LastReader DEF SoleInv
      <4>4. LossShows'
        <5>1. SUFFICES ASSUME proc = "up"  PROVE \E k \in Ids : IsLost(k)' /\ Outstanding(k)'
          BY <1>1 DEF LossShows
        <5>2. Outstanding(seq)  BY <2>1, <4>2, <5>1 DEF SoleInv, AnswerDue
        <5>3. \A k \in Ids : Outstanding(k) => Outstanding(k)'
          BY <1>1, <3>2 DEF Outstanding, InRequests
        <5>4. \A k \in Ids : k = seq => IsLost(k)'  BY <4>1 DEF IsLost
        <5>5. QED  BY <2>1, <5>2, <5>3, <5>4
      <4>5. NoneAfterLoss'
        BY <2>1, <2>4, <4>2, LossKeeps DEF SoleInv
      <4>6. QED  BY <3>1, <4>3, <4>4, <4>5 DEF SoleInv, AnswerDue, LostFirst
    <3>4. QED  BY <3>1, <3>2, <3>3 DEF IInv
  <2>5. CASE Goto(t, "claim") /\ UNCHANGED <<phase, wlock, outcome>>
    <3>1. /\ TypeOK' /\ LockInv' /\ CloseInv' /\ OutcomeInv' /\ CountInv'
          /\ \A u \in Runners : ~Sending(u)' /\ ~At(u, "read")'
          /\ thread'[t].pc \in Closing
          /\ \A u \in Threads : u # t => thread'[u] = thread[u]
      BY <1>1, <1>2, <1>3, <1>4, <2>5, WaiterGivesUp
    <3>2. OrderInv'
      <4>1. \A u \in Runners : Sending(u)' => Sending(u)  BY <3>1
      <4>2. QED  BY <1>1, <4>1, LineRead
    <3>3. ASSUME NoCloser'  PROVE SoleInv'
      <4>1. SoleInv  BY <2>1, <3>1, <3>3, CloserStays
      <4>2. SoleReader' /\ LossShows'
        BY <2>1, <3>1 DEF SoleReader, LossShows
      <4>3. NoneAfterLoss'
        BY <2>5, <4>1 DEF SoleInv, NoneAfterLoss, IsLost
      <4>4. QED  BY <3>1, <4>2, <4>3 DEF SoleInv, AnswerDue, LostFirst
    <3>4. QED  BY <3>1, <3>2, <3>3 DEF IInv
  <2>6. QED  BY <1>4, <2>3, <2>4, <2>5 DEF Takes
<1>5. ASSUME Waiting(i) = {}, UNCHANGED <<phase, thread, wlock, outcome>>
      PROVE  IInv'
  <2>1. TypeOK' /\ LockInv' /\ CloseInv' /\ OutcomeInv' /\ CountInv'
    BY <1>1, <1>2, <1>3, <1>5, ParkedReads
  <2>2. OrderInv'
    <3>1. \A u \in Runners : Sending(u)' => Sending(u)  BY <1>5 DEF At
    <3>2. QED  BY <1>1, <3>1, LineRead
  <2>3. ASSUME NoCloser'  PROVE SoleInv'
    <3>1. SoleInv  BY <1>5, <2>3 DEF IInv, NoCloser, At
    <3>2. PICK u \in Runners : thread[u].pc \in Closing
      BY <1>1, <1>5, <3>1 DEF SoleInv, SoleReader, Waiting
    <3>3. \A v \in Runners : ~At(v, "read")
      BY <3>2, OneBusy DEF At, Busy, Closing
    <3>4. SoleReader' /\ LossShows' /\ AnswerDue' /\ LostFirst'
      BY <1>5, <3>2, <3>3 DEF SoleReader, LossShows, AnswerDue, LostFirst, At
    <3>5. NoneAfterLoss'
      BY <1>5, <3>1 DEF SoleInv, NoneAfterLoss, IsLost
    <3>6. QED  BY <3>4, <3>5 DEF SoleInv
  <2>4. QED  BY <2>1, <2>2, <2>3 DEF IInv
<1>6. QED  BY <1>4, <1>5 DEF ReadLine

LEMMA EndOfFileKeeps ==
    ASSUME IInv, NEW i \in Ids, EndOfFile(i)
    PROVE  IInv'
<1>1. /\ UNCHANGED <<route, kid, requests, serving, lines, seq, closed, streams, counts>>
      /\ i \in readers /\ readers' = readers \ {i} /\ readers' \subseteq readers
      /\ proc' # "up"
      /\ proc' = proc \/ (proc # "up" /\ proc' = "reaped")
      /\ lines' \in Seq(Lines)
  BY DEF EndOfFile, Held, IInv, TypeOK
<1>2. ASSUME NEW t \in Waiting(i), Return(t, Lost)
      PROVE  IInv'
  <2>1. /\ t \in Runners /\ t \in Threads /\ wlock = t /\ seq \in Ids
        /\ Lost \in {Lost} \cup Ids /\ Lost \in {Lost, seq}
    BY <1>2, WaitingFacts
  <2>2. /\ TypeOK' /\ LockInv' /\ CloseInv' /\ OutcomeInv' /\ CountInv'
        /\ \A u \in Runners : ~Sending(u)' /\ ~At(u, "read")'
    BY <1>1, <1>2, <2>1, WaiterReturns
  <2>3. OrderInv'
    <3>1. \A u \in Runners : Sending(u)' => Sending(u)  BY <2>2
    <3>2. QED  BY <1>1, <3>1, OrderSame
  <2>4. ASSUME NoCloser'  PROVE SoleInv'
    <3>1. \A u \in Threads : u # t => thread'[u] = thread[u]
      BY <1>2, <2>1, ReturnFacts
    <3>2. SoleInv  BY <2>1, <2>4, <3>1, CloserStays
    <3>3. SoleReader'
      BY <1>1, <1>2, <3>2, LastReader DEF SoleInv
    <3>4. NoneAfterLoss'
      BY <1>2, <2>1, <3>2, LossKeeps DEF SoleInv
    <3>5. QED  BY <1>1, <2>2, <3>3, <3>4 DEF SoleInv, AnswerDue, LossShows, LostFirst
  <2>5. QED  BY <2>2, <2>3, <2>4 DEF IInv
<1>3. ASSUME UNCHANGED <<phase, thread, wlock, outcome>>
      PROVE  IInv'
  <2>1. TypeOK' /\ LockInv' /\ CloseInv' /\ OutcomeInv' /\ CountInv'
    BY <1>1, <1>3, ParkedReads
  <2>2. OrderInv'
    <3>1. \A u \in Runners : Sending(u)' => Sending(u)  BY <1>3 DEF At
    <3>2. QED  BY <1>1, <3>1, OrderSame
  <2>3. ASSUME NoCloser'  PROVE SoleInv'
    <3>1. SoleInv  BY <1>3, <2>3 DEF IInv, NoCloser, At
    <3>2. SoleReader'
      BY <1>1, <1>3, <3>1 DEF SoleInv, SoleReader, At
    <3>3. LostFirst'
      BY <1>1, <1>3, <3>1 DEF SoleInv, LostFirst, SomeLost, IsLost, InLines, At
    <3>4. NoneAfterLoss'
      BY <1>3, <3>1 DEF SoleInv, NoneAfterLoss, IsLost
    <3>5. QED  BY <1>1, <3>2, <3>3, <3>4 DEF SoleInv, AnswerDue, LossShows
  <2>4. QED  BY <2>1, <2>2, <2>3 DEF IInv
<1>4. QED  BY <1>2, <1>3 DEF EndOfFile

----------------------------------------------------------------------------
(* The steps of close().                                                   *)

LEMMA CloseBeginsKeeps ==
    ASSUME IInv, NEW t \in Closers, CloseBegins(t)
    PROVE  IInv'
<1>1. t \in Threads /\ t \notin Runners /\ "claim" \in Pcs /\ thread[t].pc = "idle"
  BY Basics DEF Pcs, CloseBegins, At
<1>2. /\ UNCHANGED <<route, phase, proc, kid, requests, serving, lines, seq, wlock, closed,
                     streams, readers, outcome, counts>>
      /\ phase = "published" /\ Goto(t, "claim")
  BY DEF CloseBegins, worker, parent
<1>3. /\ thread' \in [Threads -> ThreadState]
      /\ thread'[t].pc = "claim" /\ thread'[t].id = thread[t].id
      /\ \A u \in Threads : u # t => thread'[u] = thread[u]
  BY <1>1, <1>2, GotoFacts
<1>4. TypeOK'
  BY <1>2, <1>3 DEF IInv, TypeOK, ThreadState
<1>5. LockInv'
  <2>1. thread'[t].pc \in {"over"} \cup Closing
    BY <1>3 DEF Closing
  <2>2. QED  BY <1>1, <1>2, <1>3, <2>1, LockMoves
<1>6. CloseInv'
  BY <1>1, <1>2, <1>3, CloseSame
<1>7. OutcomeInv'
  BY <1>2, OutcomeSame
<1>8. CountInv'
  <2>1. Locking' \subseteq Locking
    BY <1>3, Basics DEF Locking, At
  <2>2. counts'.calls \in Nat /\ counts'.calls >= counts.calls
    BY <1>2, Basics DEF IInv, TypeOK
  <2>3. QED  BY <1>2, <2>1, <2>2, CountSame
<1>9. OrderInv'
  <2>1. \A u \in Runners : Sending(u)' => Sending(u)
    BY <1>1, <1>3, Basics DEF At
  <2>2. QED  BY <1>2, <2>1, OrderSame
<1>10. ~NoCloser'
  BY <1>3 DEF NoCloser, At
<1>11. QED  BY <1>4, <1>5, <1>6, <1>7, <1>8, <1>9, <1>10 DEF IInv

\* A thread goes on within close(), or close() returns.
LEMMA ClosingFrame ==
    ASSUME IInv, NEW t \in Threads, thread[t].pc \in Closing,
           thread' \in [Threads -> ThreadState], thread'[t].pc \notin {"lock", "write", "push", "read"},
           \A u \in Threads : u # t => thread'[u] = thread[u],
           UNCHANGED <<lines, requests, seq, counts>>, serving' = serving \/ serving' = 0
    PROVE  /\ CountInv' /\ OrderInv'
           /\ t \in Runners => \A u \in Runners : ~At(u, "read")'
<1>1. CountInv'
  <2>1. Locking' \subseteq Locking
    BY Basics DEF Locking, At
  <2>2. counts'.calls \in Nat /\ counts'.calls >= counts.calls
    BY Basics DEF IInv, TypeOK
  <2>3. QED  BY <2>1, <2>2, CountSame
<1>2. OrderInv'
  <2>1. \A u \in Runners : Sending(u)' => Sending(u)
    BY Basics DEF At
  <2>2. CASE serving' = serving
    BY <2>1, <2>2, OrderSame
  <2>3. CASE serving' = 0
    <3>1. \A k \in Ids : (InLines(k)' <=> InLines(k)) /\ (InRequests(k)' <=> InRequests(k))
      BY DEF InLines, InRequests
    <3>2. \A k \in Ids : serving' # k
      BY <2>3, Basics
    <3>3. \A k \in Ids : Outstanding(k)' => Outstanding(k)
      BY <3>1, <3>2 DEF Outstanding
    <3>4. QED  BY <2>1, <2>3, <3>1, <3>2, <3>3 DEF IInv, OrderInv
  <2>4. QED  BY <2>2, <2>3
<1>3. t \in Runners => \A u \in Runners : ~At(u, "read")'
  BY OneBusy, Basics DEF At, Busy
<1>4. QED  BY <1>1, <1>2, <1>3

\* close() returns to its caller.
LEMMA Finishes ==
    ASSUME IInv, NEW t \in Threads, thread[t].pc \in Closing, Finish(t), seq' = seq
    PROVE  /\ thread' \in [Threads -> ThreadState]
           /\ \A u \in Threads : u # t => thread'[u] = thread[u]
           /\ thread'[t].pc \in {"idle", "over", "claim"}
           /\ thread'[t].pc # "idle" \/ t \in Runners
           /\ wlock' \in Runners \cup {NoThread}
           /\ outcome' \in [Ids -> {Lost, 0} \cup Ids]
           /\ phase' = phase \/ (phase' = "refused" /\ phase = "starting" /\ t = Starter)
           /\ LockInv' /\ OutcomeInv'
           /\ NoneAfterLoss => NoneAfterLoss'
<1>1. "over" \in Pcs /\ Lost \in {Lost} \cup Ids /\ Lost \in {Lost, seq}
  BY DEF Pcs
<1>2. t # Starter => phase = "published"
  BY DEF IInv, LockInv, At, Closing
<1>3. CASE t \in Closers
  <2>1. Goto(t, "over") /\ UNCHANGED <<phase, wlock, outcome>>
    BY <1>3, Basics DEF Finish
  <2>2. /\ thread' \in [Threads -> ThreadState]
        /\ thread'[t].pc = "over" /\ thread'[t].id = thread[t].id
        /\ \A u \in Threads : u # t => thread'[u] = thread[u]
    BY <1>1, <2>1, GotoFacts
  <2>3. t \notin Runners /\ t # Starter  BY <1>3, Basics
  <2>4. LockInv'
    BY <1>2, <1>3, <2>1, <2>2, <2>3, LockMoves
  <2>5. OutcomeInv' /\ (NoneAfterLoss => NoneAfterLoss')
    BY <2>1, OutcomeSame DEF NoneAfterLoss, IsLost
  <2>6. QED  BY <2>1, <2>2, <2>4, <2>5 DEF IInv, TypeOK
<1>4. CASE t \notin Closers /\ t = Starter /\ wlock # t
  <2>1. Goto(t, "over") /\ phase' = "refused" /\ UNCHANGED <<wlock, outcome>>
    BY <1>4 DEF Finish
  <2>2. /\ thread' \in [Threads -> ThreadState]
        /\ thread'[t].pc = "over" /\ thread'[t].id = thread[t].id
        /\ \A u \in Threads : u # t => thread'[u] = thread[u]
    BY <1>1, <2>1, GotoFacts
  <2>3. phase = "starting" /\ \A u \in Threads : u # t => thread[u].pc = "idle"
    BY <1>4, Basics DEF IInv, LockInv, At, Closing
  <2>4. wlock = NoThread
    BY <1>4, <2>3, Basics DEF IInv, LockInv, Busy, Closing
  <2>5. LockInv'
    <3>1. \A u \in Runners : thread'[u].pc \notin Busy
      BY <2>2, <2>3, Basics DEF Busy, Closing
    <3>2. \A u \in Threads : wlock' # u => thread'[u].id = 0
      BY <1>4, <2>1, <2>2 DEF IInv, LockInv
    <3>3. \A u \in Closers : thread'[u].pc \in {"idle", "over"} \cup Closing
      BY <2>2, <2>3, Basics
    <3>4. \A u \in Threads : u # Starter /\ phase' # "published" => At(u, "idle")'
      BY <1>4, <2>2, <2>3 DEF At
    <3>5. phase' = "starting" <=> ~At(Starter, "over")'
      BY <1>4, <2>1, <2>2 DEF At
    <3>6. QED  BY <2>1, <2>4, <3>1, <3>2, <3>3, <3>4, <3>5 DEF LockInv
  <2>6. OutcomeInv' /\ (NoneAfterLoss => NoneAfterLoss')
    BY <2>1, OutcomeSame DEF NoneAfterLoss, IsLost
  <2>7. QED  BY <1>4, <2>1, <2>2, <2>3, <2>5, <2>6 DEF IInv, TypeOK
<1>5. CASE t \notin Closers /\ ~(t = Starter /\ wlock # t)
  <2>1. Return(t, Lost)
    BY <1>5 DEF Finish
  <2>2. t \in Runners  BY <1>5, Basics
  <2>3. /\ thread' \in [Threads -> ThreadState]
        /\ \A u \in Threads : u # t => thread'[u] = thread[u]
        /\ thread'[t].pc \in {"idle", "over", "claim"}
        /\ wlock' \in Runners \cup {NoThread}
        /\ outcome' \in [Ids -> {Lost, 0} \cup Ids]
        /\ phase' = phase
    BY <1>1, <2>1, <2>2, ReturnFacts
  <2>4. thread[t].pc # "over"  BY DEF Closing
  <2>5. LockInv' /\ OutcomeInv'
    BY <1>1, <1>2, <2>1, <2>2, <2>4, LockReturns, OutcomeReturns
  <2>6. NoneAfterLoss => NoneAfterLoss'
    BY <2>1, <2>2, LossKeeps
  <2>7. QED  BY <2>2, <2>3, <2>5, <2>6
<1>6. QED  BY <1>3, <1>4, <1>5

\* When a call of run() leaves close(), the pipes are closed.
LEMMA SoleAfterClose ==
    ASSUME IInv, NEW t \in Runners, NoneAfterLoss', streams' = "closed", proc' # "up",
           \A u \in Runners : ~At(u, "read")'
    PROVE  SoleInv'
BY DEF SoleInv, SoleReader, AnswerDue, LossShows, LostFirst

LEMMA ClaimKeeps ==
    ASSUME IInv, NEW t \in Threads, Claim(t)
    PROVE  IInv'
<1>1. /\ UNCHANGED <<route, proc, kid, requests, serving, lines, seq, streams, readers, counts>>
      /\ thread[t].pc = "claim" /\ thread[t].pc \in Closing
  BY DEF Claim, At, worker, Closing
<1>2. CASE closed
  <2>1. Finish(t) /\ closed' = closed
    BY <1>2 DEF Claim
  <2>2. /\ thread' \in [Threads -> ThreadState]
        /\ \A u \in Threads : u # t => thread'[u] = thread[u]
        /\ thread'[t].pc \in {"idle", "over", "claim"}
        /\ thread'[t].pc # "idle" \/ t \in Runners
        /\ wlock' \in Runners \cup {NoThread}
        /\ outcome' \in [Ids -> {Lost, 0} \cup Ids]
        /\ phase' = phase \/ (phase' = "refused" /\ phase = "starting" /\ t = Starter)
        /\ LockInv' /\ OutcomeInv'
        /\ NoneAfterLoss => NoneAfterLoss'
    BY <1>1, <2>1, Finishes
  <2>3. TypeOK'
    BY <1>1, <2>1, <2>2 DEF IInv, TypeOK, ThreadState
  <2>4. CloseInv'
    <3>1. phase' = "refused" => phase = "refused" \/ streams = "closed"
      <4>1. ASSUME phase = "starting", t = Starter  PROVE streams = "closed"
        <5>1. \A u \in Threads : thread[u].pc \notin {"kill", "streams"}
          BY <1>1, <4>1 DEF IInv, LockInv, At
        <5>2. QED  BY <1>2, <5>1 DEF IInv, CloseInv
      <4>2. QED  BY <2>2, <4>1
    <3>2. QED  BY <1>1, <2>1, <2>2, <3>1, CloseSame
  <2>5. /\ CountInv' /\ OrderInv'
        /\ t \in Runners => \A u \in Runners : ~At(u, "read")'
    BY <1>1, <2>2, ClosingFrame
  <2>6. ASSUME NoCloser'  PROVE SoleInv'
    <3>1. NoCloser /\ SoleInv /\ t \in Runners
      BY <2>2, <2>6, CloserStays
    <3>2. \A u \in Threads : thread[u].pc \notin {"kill", "streams"}
      <4>1. \A u \in Runners : thread[u].pc \in {"kill", "streams"} => u = t
        BY <1>1, <3>1, OneBusy DEF Busy, Closing
      <4>2. QED  BY <1>1, <3>1, <4>1, Basics DEF NoCloser, At
    <3>3. streams = "closed" /\ proc = "reaped"
      BY <1>2, <3>2 DEF IInv, CloseInv
    <3>4. QED  BY <1>1, <2>2, <2>5, <3>1, <3>3, SoleAfterClose DEF SoleInv
  <2>7. QED  BY <2>2, <2>3, <2>4, <2>5, <2>6 DEF IInv
<1>3. CASE ~closed
  <2>1. closed' = TRUE /\ Goto(t, "kill") /\ UNCHANGED <<phase, wlock, outcome>>
    BY <1>3 DEF Claim
  <2>2. /\ thread' \in [Threads -> ThreadState]
        /\ thread'[t].pc = "kill" /\ thread'[t].id = thread[t].id
        /\ \A u \in Threads : u # t => thread'[u] = thread[u]
    <3>1. "kill" \in Pcs  BY DEF Pcs
    <3>2. QED  BY <2>1, <3>1, GotoFacts
  <2>3. TypeOK'
    BY <1>1, <2>1, <2>2 DEF IInv, TypeOK, ThreadState
  <2>4. LockInv'
    <3>1. thread[t].pc \in Busy /\ thread'[t].pc \in Busy /\ thread'[t].pc \in Closing
      BY <1>1, <2>2 DEF Busy, Closing
    <3>2. t \in Closers => phase = "published"
      BY <1>1, Basics DEF IInv, LockInv, At
    <3>3. QED  BY <1>1, <2>1, <2>2, <3>1, <3>2, LockMoves
  <2>5. CloseInv'
    <3>1. \A u \in Threads : thread[u].pc \notin {"kill", "streams"}
      BY <1>3 DEF IInv, CloseInv
    <3>2. streams = "open"
      BY <1>3 DEF IInv, CloseInv, TypeOK
    <3>3. \A u \in Threads : thread'[u].pc \in {"kill", "streams"} => u = t
      BY <2>2, <3>1
    <3>4. QED  BY <1>1, <2>1, <2>2, <3>2, <3>3 DEF IInv, CloseInv, At
  <2>6. OutcomeInv'
    BY <1>1, <2>1, OutcomeSame
  <2>7. /\ CountInv' /\ OrderInv'
        /\ t \in Runners => \A u \in Runners : ~At(u, "read")'
    <3>1. thread'[t].pc \notin {"lock", "write", "push", "read"}  BY <2>2
    <3>2. QED  BY <1>1, <2>2, <3>1, ClosingFrame
  <2>8. ASSUME NoCloser'  PROVE SoleInv'
    <3>1. NoCloser /\ SoleInv /\ t \in Runners
      BY <2>2, <2>8, CloserStays
    <3>2. thread'[t].pc \in Closing  BY <2>2 DEF Closing
    <3>3. NoneAfterLoss'
      BY <2>1, <3>1 DEF SoleInv, NoneAfterLoss, IsLost
    <3>4. QED  BY <2>7, <3>1, <3>2, <3>3 DEF SoleInv, SoleReader, AnswerDue, LossShows, LostFirst
  <2>9. QED  BY <2>3, <2>4, <2>5, <2>6, <2>7, <2>8 DEF IInv
<1>4. QED  BY <1>2, <1>3

LEMMA KillKeeps ==
    ASSUME IInv, NEW t \in Threads, Kill(t)
    PROVE  IInv'
<1>1. /\ UNCHANGED <<route, phase, requests, lines, seq, wlock, closed, streams, readers,
                     outcome, counts>>
      /\ thread[t].pc = "kill" /\ thread[t].pc \in Closing
      /\ kid' \in Survivors /\ proc' = "reaped" /\ serving' = 0
  BY DEF Kill, At, parent, Closing
<1>2. /\ thread' \in [Threads -> ThreadState]
      /\ thread'[t].pc = "streams" /\ thread'[t].id = thread[t].id
      /\ \A u \in Threads : u # t => thread'[u] = thread[u]
  <2>1. "streams" \in Pcs /\ Goto(t, "streams")  BY DEF Pcs, Kill
  <2>2. QED  BY <2>1, GotoFacts
<1>3. TypeOK'
  <2>1. kid' \in {"none", "plain", "stubborn"}
    BY <1>1 DEF Survivors
  <2>2. serving' \in 0 .. MaxCalls
    BY <1>1, Basics
  <2>3. QED  BY <1>1, <1>2, <2>1, <2>2 DEF IInv, TypeOK, ThreadState
<1>4. LockInv'
  <2>1. thread[t].pc \in Busy /\ thread'[t].pc \in Busy /\ thread'[t].pc \in Closing
    BY <1>1, <1>2 DEF Busy, Closing
  <2>2. t \in Closers => phase = "published"
    BY <1>1, Basics DEF IInv, LockInv, At
  <2>3. QED  BY <1>1, <1>2, <2>1, <2>2, LockMoves
<1>5. CloseInv'
  <2>1. \A u \in Threads : thread'[u].pc \in {"kill", "streams"} => u = t
    BY <1>1, <1>2 DEF IInv, CloseInv
  <2>2. closed /\ streams = "open"
    BY <1>1 DEF IInv, CloseInv
  <2>3. QED  BY <1>1, <1>2, <2>1, <2>2 DEF IInv, CloseInv, At
<1>6. OutcomeInv'
  BY <1>1, OutcomeSame
<1>7. /\ CountInv' /\ OrderInv'
      /\ t \in Runners => \A u \in Runners : ~At(u, "read")'
  <2>1. thread'[t].pc \notin {"lock", "write", "push", "read"}  BY <1>2
  <2>2. QED  BY <1>1, <1>2, <2>1, ClosingFrame
<1>8. ASSUME NoCloser'  PROVE SoleInv'
  <2>1. NoCloser /\ SoleInv /\ t \in Runners
    BY <1>2, <1>8, CloserStays
  <2>2. thread'[t].pc \in Closing  BY <1>2 DEF Closing
  <2>3. NoneAfterLoss'
    BY <1>1, <2>1 DEF SoleInv, NoneAfterLoss, IsLost
  <2>4. QED  BY <1>7, <2>1, <2>2, <2>3 DEF SoleInv, SoleReader, AnswerDue, LossShows, LostFirst
<1>9. QED  BY <1>3, <1>4, <1>5, <1>6, <1>7, <1>8 DEF IInv

LEMMA CloseStreamsKeeps ==
    ASSUME IInv, NEW t \in Threads, CloseStreams(t)
    PROVE  IInv'
<1>1. /\ UNCHANGED <<route, proc, kid, requests, serving, lines, seq, closed, readers, counts>>
      /\ thread[t].pc = "streams" /\ thread[t].pc \in Closing
      /\ ~Held /\ streams' = "closed" /\ Finish(t)
  BY DEF CloseStreams, At, worker, Closing
<1>2. /\ thread' \in [Threads -> ThreadState]
      /\ \A u \in Threads : u # t => thread'[u] = thread[u]
      /\ thread'[t].pc \in {"idle", "over", "claim"}
      /\ thread'[t].pc # "idle" \/ t \in Runners
      /\ wlock' \in Runners \cup {NoThread}
      /\ outcome' \in [Ids -> {Lost, 0} \cup Ids]
      /\ phase' = phase \/ (phase' = "refused" /\ phase = "starting" /\ t = Starter)
      /\ LockInv' /\ OutcomeInv'
      /\ NoneAfterLoss => NoneAfterLoss'
  BY <1>1, Finishes
<1>3. TypeOK'
  BY <1>1, <1>2 DEF IInv, TypeOK, ThreadState
<1>4. closed /\ proc = "reaped" /\ kid = "none"
  BY <1>1 DEF IInv, CloseInv, At, Held
<1>5. CloseInv'
  <2>1. \A u \in Threads : thread'[u].pc \notin {"kill", "streams"}
    BY <1>1, <1>2 DEF IInv, CloseInv
  <2>2. QED  BY <1>1, <1>4, <2>1 DEF IInv, CloseInv, At
<1>6. /\ CountInv' /\ OrderInv'
      /\ t \in Runners => \A u \in Runners : ~At(u, "read")'
  BY <1>1, <1>2, ClosingFrame
<1>7. ASSUME NoCloser'  PROVE SoleInv'
  <2>1. SoleInv /\ t \in Runners
    BY <1>2, <1>7, CloserStays
  <2>2. proc' # "up" /\ NoneAfterLoss'
    BY <1>1, <1>2, <1>4, <2>1 DEF SoleInv
  <2>3. QED  BY <1>1, <1>6, <2>1, <2>2, SoleAfterClose
<1>8. QED  BY <1>2, <1>3, <1>5, <1>6, <1>7 DEF IInv

----------------------------------------------------------------------------
(* The worker and what runs in it.                                         *)

\* A step of the worker leaves the threads alone.
LEMMA WorkerFrame ==
    ASSUME IInv, UNCHANGED <<phase, parent, thread, outcome>>, counts'.calls = counts.calls
    PROVE  /\ LockInv' /\ OutcomeInv' /\ CountInv'
           /\ NoCloser' => SoleInv
           /\ SoleReader => SoleReader'
           /\ NoneAfterLoss => NoneAfterLoss'
           /\ \A u \in Runners : At(u, "read")' <=> At(u, "read")
           /\ \A k \in Ids : IsLost(k)' <=> IsLost(k)
<1>1. UNCHANGED <<phase, seq, wlock, closed, streams, readers, thread, outcome>>
  BY DEF parent
<1>2. LockInv'
  BY <1>1 DEF IInv, LockInv, At
<1>3. OutcomeInv'
  BY <1>1, OutcomeSame
<1>4. CountInv'
  BY <1>1 DEF IInv, CountInv, Locking, At
<1>5. NoCloser' => SoleInv
  BY <1>1 DEF IInv, NoCloser, At
<1>6. SoleReader => SoleReader'
  BY <1>1 DEF SoleReader, At
<1>7. NoneAfterLoss => NoneAfterLoss'
  BY <1>1 DEF NoneAfterLoss, IsLost
<1>8. QED  BY <1>1, <1>2, <1>3, <1>4, <1>5, <1>6, <1>7 DEF At, IsLost

LEMMA AcceptKeeps ==
    ASSUME IInv, Accept
    PROVE  IInv'
<1>1. /\ UNCHANGED <<route, phase, proc, kid, lines, parent, thread, outcome, counts>>
      /\ UNCHANGED <<seq, wlock, closed, streams, readers>>
      /\ proc = "up" /\ serving = 0 /\ requests # <<>>
      /\ serving' = Head(requests) /\ requests' = Tail(requests)
  BY DEF Accept, parent
<1>2. requests \in Seq(Ids) /\ Len(requests) \in Nat /\ Len(requests) >= 1
  BY <1>1 DEF IInv, TypeOK
<1>3. /\ requests' \in Seq(Ids) /\ Len(requests') = Len(requests) - 1
      /\ \A p \in 1 .. Len(requests') : requests'[p] = requests[p + 1]
      /\ serving' = requests[1] /\ requests[1] \in Ids /\ serving' \in Ids
  BY <1>1, <1>2
<1>4. \A p \in 1 .. Len(requests') : p + 1 \in 1 .. Len(requests) /\ 1 < p + 1
  BY <1>2, <1>3
<1>5. 1 \in 1 .. Len(requests)
  BY <1>2
<1>6. \A k \in Ids : serving' = k \/ InRequests(k)' <=> InRequests(k)
  <2>1. SUFFICES ASSUME NEW k \in Ids
                 PROVE  serving' = k \/ InRequests(k)' <=> InRequests(k)
    OBVIOUS
  <2>2. serving' = k => InRequests(k)
    BY <1>3, <1>5 DEF InRequests
  <2>3. InRequests(k)' => InRequests(k)
    BY <1>3, <1>4 DEF InRequests
  <2>4. ASSUME NEW p \in 1 .. Len(requests), requests[p] = k, p # 1
        PROVE  InRequests(k)'
    <3>1. p - 1 \in 1 .. Len(requests') /\ requests'[p - 1] = requests[p]
      BY <1>2, <1>3, <2>4
    <3>2. QED  BY <2>4, <3>1 DEF InRequests
  <2>5. QED  BY <1>3, <2>2, <2>3, <2>4 DEF InRequests
<1>7. \A k \in Ids : InLines(k)' <=> InLines(k)
  BY <1>1 DEF InLines
<1>8. \A k \in Ids : Outstanding(k)' <=> Outstanding(k)
  BY <1>1, <1>6, <1>7, Basics DEF Outstanding
<1>9. TypeOK'
  <2>1. serving' \in 0 .. MaxCalls
    BY <1>3 DEF Ids
  <2>2. QED  BY <1>1, <1>3, <2>1 DEF IInv, TypeOK
<1>10. CloseInv'
  BY <1>1 DEF IInv, CloseInv, At
<1>11. OrderInv'
  <2>1. \A p, q \in 1 .. Len(requests') : p < q => requests'[p] < requests'[q]
    <3>1. SUFFICES ASSUME NEW p \in 1 .. Len(requests'), NEW q \in 1 .. Len(requests'), p < q
                   PROVE  requests[p + 1] < requests[q + 1]
      BY <1>3
    <3>2. p + 1 \in 1 .. Len(requests) /\ q + 1 \in 1 .. Len(requests) /\ p + 1 < q + 1
      BY <1>4, <3>1
    <3>3. QED  BY <3>2 DEF IInv, OrderInv
  <2>2. \A k \in Ids : serving' # 0 /\ InRequests(k)' => serving' < k
    <3>1. SUFFICES ASSUME NEW p \in 1 .. Len(requests')
                   PROVE  serving' < requests'[p]
      BY DEF InRequests
    <3>2. p + 1 \in 1 .. Len(requests) /\ 1 < p + 1
      BY <1>4
    <3>3. requests[1] < requests[p + 1]
      BY <1>5, <3>2 DEF IInv, OrderInv
    <3>4. QED  BY <1>3, <3>3
  <2>3. \A j, k \in Ids : InLines(j)' /\ (serving' = k \/ InRequests(k)') => j < k
    BY <1>6, <1>7 DEF IInv, OrderInv
  <2>4. QED  BY <1>1, <1>8, <2>1, <2>2, <2>3 DEF IInv, OrderInv, At
<1>12. /\ LockInv' /\ OutcomeInv' /\ CountInv'
       /\ NoCloser' => SoleInv
       /\ SoleReader => SoleReader'
       /\ NoneAfterLoss => NoneAfterLoss'
       /\ \A k \in Ids : IsLost(k)' <=> IsLost(k)
  BY <1>1, WorkerFrame
<1>13. ASSUME NoCloser'  PROVE SoleInv'
  <2>1. SoleInv  BY <1>12, <1>13
  <2>2. AnswerDue'
    <3>1. \A u \in Runners : At(u, "read") => thread[u].id \in Ids
      BY Numbers DEF At
    <3>2. \A u \in Runners : At(u, "read") => (Outstanding(thread[u].id)' <=> Outstanding(thread[u].id))
      BY <1>1, <1>8, <3>1 DEF Outstanding, InLines, InRequests
    <3>3. QED  BY <1>1, <2>1, <3>2 DEF SoleInv, AnswerDue, At
  <2>3. LossShows'
    BY <1>1, <1>8, <1>12, <2>1 DEF SoleInv, LossShows, SomeLost
  <2>4. LostFirst'
    BY <1>1, <2>1 DEF SoleInv, LostFirst, SomeLost, IsLost, InLines, At
  <2>5. QED  BY <1>12, <2>1, <2>2, <2>3, <2>4 DEF SoleInv
<1>14. QED  BY <1>9, <1>10, <1>11, <1>12, <1>13 DEF IInv

\* A line is put into the channel.
LEMMA LineWritten ==
    ASSUME IInv, NEW line \in Lines, lines' = Append(lines, line)
    PROVE  /\ lines' \in Seq(Lines) /\ Len(lines') = Len(lines) + 1 /\ Len(lines) \in Nat
           /\ \A p \in 1 .. Len(lines) : lines'[p] = lines[p]
           /\ lines'[Len(lines) + 1] = line
           /\ \A p \in 1 .. Len(lines') : p \in 1 .. Len(lines) \/ p = Len(lines) + 1
           /\ \A k \in Ids : InLines(k)' <=> InLines(k) \/ (line.kind = "answer" /\ line.id = k)
<1>1. lines \in Seq(Lines) /\ Len(lines) \in Nat
  BY DEF IInv, TypeOK
<1>2. /\ lines' \in Seq(Lines) /\ Len(lines') = Len(lines) + 1
      /\ \A p \in 1 .. Len(lines) : lines'[p] = lines[p]
      /\ lines'[Len(lines) + 1] = line
  BY <1>1
<1>3. \A p \in 1 .. Len(lines') : p \in 1 .. Len(lines) \/ p = Len(lines) + 1
  BY <1>1, <1>2
<1>4. /\ \A p \in 1 .. Len(lines) : p \in 1 .. Len(lines')
      /\ Len(lines) + 1 \in 1 .. Len(lines')
  BY <1>1, <1>2
<1>5. \A k \in Ids : InLines(k)' <=> InLines(k) \/ (line.kind = "answer" /\ line.id = k)
  BY <1>2, <1>3, <1>4 DEF InLines
<1>6. QED  BY <1>1, <1>2, <1>3, <1>5

LEMMA AnswerKeeps ==
    ASSUME IInv, Answer
    PROVE  IInv'
<1>1. /\ UNCHANGED <<route, phase, proc, kid, requests, parent, thread, outcome, counts>>
      /\ UNCHANGED <<seq, wlock, closed, streams, readers>>
      /\ serving # 0 /\ serving' = 0 /\ lines' = Append(lines, Line("answer", serving))
  BY DEF Answer, parent
<1>2. serving \in Ids /\ proc = "up" /\ 0 \in 0 .. MaxCalls
  BY <1>1, Basics DEF IInv, TypeOK, CloseInv, Ids
<1> DEFINE line == Line("answer", serving)
<1>3. line \in Lines /\ line.kind = "answer" /\ line.id = serving
  BY <1>2 DEF Line, Lines, Ids
<1>4. lines' = Append(lines, line)
  BY <1>1
<1> HIDE DEF line
<1>5. /\ lines' \in Seq(Lines) /\ Len(lines') = Len(lines) + 1 /\ Len(lines) \in Nat
      /\ \A p \in 1 .. Len(lines) : lines'[p] = lines[p]
      /\ lines'[Len(lines) + 1] = line
      /\ \A p \in 1 .. Len(lines') : p \in 1 .. Len(lines) \/ p = Len(lines) + 1
      /\ \A k \in Ids : InLines(k)' <=> InLines(k) \/ (line.kind = "answer" /\ line.id = k)
  BY <1>3, <1>4, LineWritten
<1>6. \A k \in Ids : InLines(k)' <=> InLines(k) \/ serving = k
  BY <1>3, <1>5
<1>7. \A k \in Ids : InRequests(k)' <=> InRequests(k)
  BY <1>1 DEF InRequests
<1>8. \A k \in Ids : Outstanding(k)' <=> Outstanding(k)
  BY <1>1, <1>6, <1>7, Basics DEF Outstanding
<1>9. TypeOK'
  BY <1>1, <1>2, <1>5 DEF IInv, TypeOK
<1>10. CloseInv'
  BY <1>1 DEF IInv, CloseInv, At
<1>11. OrderInv'
  <2>1. \A p, q \in 1 .. Len(lines') :
            p < q /\ lines'[p].kind = "answer" /\ lines'[q].kind = "answer"
              => lines'[p].id < lines'[q].id
    <3>1. SUFFICES ASSUME NEW p \in 1 .. Len(lines'), NEW q \in 1 .. Len(lines'), p < q,
                          lines'[p].kind = "answer", lines'[q].kind = "answer"
                   PROVE  lines'[p].id < lines'[q].id
      OBVIOUS
    <3>2. p \in 1 .. Len(lines) /\ lines'[p] = lines[p]
      BY <1>5, <3>1
    <3>3. CASE q = Len(lines) + 1
      <4>1. lines[p].id \in Ids /\ InLines(lines[p].id)
        BY <3>1, <3>2 DEF IInv, OrderInv, InLines
      <4>2. lines[p].id < serving
        BY <1>2, <4>1 DEF IInv, OrderInv
      <4>3. QED  BY <1>3, <1>5, <3>2, <3>3, <4>2
    <3>4. CASE q # Len(lines) + 1
      <4>1. q \in 1 .. Len(lines) /\ lines'[q] = lines[q]
        BY <1>5, <3>4
      <4>2. QED  BY <3>1, <3>2, <4>1 DEF IInv, OrderInv
    <3>5. QED  BY <3>3, <3>4
  <2>2. \A p \in 1 .. Len(lines') : lines'[p].kind = "answer" => lines'[p].id \in Ids
    BY <1>2, <1>3, <1>5 DEF IInv, OrderInv
  <2>3. \A j, k \in Ids : InLines(j)' /\ (serving' = k \/ InRequests(k)') => j < k
    BY <1>1, <1>2, <1>6, <1>7, Basics DEF IInv, OrderInv
  <2>4. QED  BY <1>1, <1>8, <2>1, <2>2, <2>3 DEF IInv, OrderInv, At
<1>12. /\ LockInv' /\ OutcomeInv' /\ CountInv'
       /\ NoCloser' => SoleInv
       /\ SoleReader => SoleReader'
       /\ NoneAfterLoss => NoneAfterLoss'
       /\ \A k \in Ids : IsLost(k)' <=> IsLost(k)
  BY <1>1, WorkerFrame
<1>13. ASSUME NoCloser'  PROVE SoleInv'
  <2>1. SoleInv  BY <1>12, <1>13
  <2>2. \A u \in Runners : At(u, "read") => thread[u].id \in Ids /\ thread[u].id = seq /\ wlock = u
    BY Numbers DEF At
  <2>3. AnswerDue'
    <3>1. \A u \in Runners : At(u, "read") => (Outstanding(thread[u].id)' <=> Outstanding(thread[u].id))
      BY <1>1, <1>8, <2>2 DEF Outstanding, InLines, InRequests
    <3>2. QED  BY <1>1, <2>1, <3>1 DEF SoleInv, AnswerDue, At
  <2>4. LossShows'
    BY <1>1, <1>8, <1>12, <2>1 DEF SoleInv, LossShows, SomeLost
  <2>5. LostFirst'
    <3>1. SUFFICES ASSUME NEW u \in Runners, At(u, "read"), InLines(seq)', SomeLost
                   PROVE  \E k \in Ids : IsLost(k) /\ InLines(k)'
      BY <1>1, <1>12, <2>2 DEF LostFirst, SomeLost, At, InLines
    <3>2. CASE InLines(seq)
      BY <1>6, <2>1, <2>2, <3>1, <3>2 DEF SoleInv, LostFirst
    <3>3. CASE serving = seq
      <4>1. \A v \in Runners : thread[v].pc \notin Closing
        <5>1. \A v \in Runners : thread[v].pc \in Busy => v = u
          BY <3>1, OneBusy DEF At, Busy
        <5>2. QED  BY <3>1, <5>1 DEF At, Busy, Closing
      <4>2. PICK k \in Ids : IsLost(k) /\ Outstanding(k)
        BY <1>2, <2>1, <3>1, <4>1 DEF SoleInv, LossShows
      <4>3. k # seq
        <5>1. outcome[seq] = 0
          BY <2>2, <3>1, Basics DEF IInv, OutcomeInv
        <5>2. QED  BY <4>2, <5>1, Basics DEF IsLost
      <4>4. k <= seq  BY <4>2 DEF IInv, OrderInv
      <4>5. ~InRequests(k)
        BY <1>2, <3>3, <4>3, <4>4, Basics DEF IInv, OrderInv
      <4>6. InLines(k)'
        BY <1>6, <3>3, <4>2, <4>3, <4>5 DEF Outstanding
      <4>7. QED  BY <4>2, <4>6
    <3>4. InLines(seq) \/ serving = seq
      <4>1. seq' = seq /\ seq \in Ids  BY <1>1, <2>2, <3>1
      <4>2. QED  BY <1>6, <3>1, <4>1 DEF InLines
    <3>5. QED  BY <3>2, <3>3, <3>4
  <2>6. QED  BY <1>12, <2>1, <2>3, <2>4, <2>5 DEF SoleInv
<1>14. QED  BY <1>9, <1>10, <1>11, <1>12, <1>13 DEF IInv

LEMMA WriteJunkKeeps ==
    ASSUME IInv, NEW kind \in Junk, WriteJunk(kind)
    PROVE  IInv'
<1>1. /\ UNCHANGED <<route, phase, proc, kid, requests, serving, parent, thread, outcome>>
      /\ UNCHANGED <<seq, wlock, closed, streams, readers>>
      /\ counts.junk < MaxJunk /\ counts' = [counts EXCEPT !.junk = @ + 1]
      /\ lines' = Append(lines, Line(kind, 0))
  BY DEF WriteJunk, parent, worker
<1>2. /\ counts' \in [calls : 0 .. MaxCalls, junk : 0 .. MaxJunk, faults : 0 .. MaxFaults]
      /\ counts'.calls = counts.calls
  <2>1. counts \in [calls : 0 .. MaxCalls, junk : 0 .. MaxJunk, faults : 0 .. MaxFaults]
    BY DEF IInv, TypeOK
  <2>2. counts.junk + 1 \in 0 .. MaxJunk
    BY <1>1, <2>1, WorkerProtocolAssumption
  <2>3. QED  BY <1>1, <2>1, <2>2
<1> DEFINE line == Line(kind, 0)
<1>3. line \in Lines /\ line.kind # "answer"
  BY WorkerProtocolAssumption DEF Line, Lines
<1>4. lines' = Append(lines, line)
  BY <1>1
<1> HIDE DEF line
<1>5. /\ lines' \in Seq(Lines) /\ Len(lines') = Len(lines) + 1 /\ Len(lines) \in Nat
      /\ \A p \in 1 .. Len(lines) : lines'[p] = lines[p]
      /\ lines'[Len(lines) + 1] = line
      /\ \A p \in 1 .. Len(lines') : p \in 1 .. Len(lines) \/ p = Len(lines) + 1
      /\ \A k \in Ids : InLines(k)' <=> InLines(k) \/ (line.kind = "answer" /\ line.id = k)
  BY <1>3, <1>4, LineWritten
<1>6. \A k \in Ids : /\ InLines(k)' <=> InLines(k)
                     /\ InRequests(k)' <=> InRequests(k)
                     /\ Outstanding(k)' <=> Outstanding(k)
  BY <1>1, <1>3, <1>5 DEF InRequests, Outstanding
<1>7. TypeOK'
  BY <1>1, <1>2, <1>5 DEF IInv, TypeOK
<1>8. CloseInv'
  BY <1>1 DEF IInv, CloseInv, At
<1>9. OrderInv'
  <2>1. \A p \in 1 .. Len(lines') : lines'[p].kind = "answer" =>
            p \in 1 .. Len(lines) /\ lines'[p] = lines[p]
    BY <1>3, <1>5
  <2>2. QED  BY <1>1, <1>6, <2>1 DEF IInv, OrderInv, At
<1>10. /\ LockInv' /\ OutcomeInv' /\ CountInv'
       /\ NoCloser' => SoleInv
       /\ SoleReader => SoleReader'
       /\ NoneAfterLoss => NoneAfterLoss'
       /\ \A k \in Ids : IsLost(k)' <=> IsLost(k)
  BY <1>1, <1>2, WorkerFrame
<1>11. ASSUME NoCloser'  PROVE SoleInv'
  <2>1. SoleInv  BY <1>10, <1>11
  <2>2. \A u \in Runners : At(u, "read") =>
            /\ Outstanding(thread[u].id)' <=> Outstanding(thread[u].id)
            /\ InLines(thread[u].id)' <=> InLines(thread[u].id)
    <3>1. \A u \in Runners : At(u, "read") => thread[u].id \in Ids
      BY Numbers DEF At
    <3>2. QED  BY <1>1, <1>6, <3>1 DEF Outstanding, InLines, InRequests
  <2>3. AnswerDue'
    BY <1>1, <2>1, <2>2 DEF SoleInv, AnswerDue, At
  <2>4. LossShows'
    BY <1>1, <1>6, <1>10, <2>1 DEF SoleInv, LossShows, SomeLost
  <2>5. LostFirst'
    BY <1>1, <1>6, <1>10, <2>1, <2>2 DEF SoleInv, LostFirst, SomeLost, At
  <2>6. QED  BY <1>10, <2>1, <2>3, <2>4, <2>5 DEF SoleInv
<1>12. QED  BY <1>7, <1>8, <1>9, <1>10, <1>11 DEF IInv

\* The worker exits, or a forked process comes or goes: nothing is answered.
LEMMA ProcessStepKeeps ==
    ASSUME IInv, UNCHANGED <<route, phase, requests, lines, parent, thread, outcome, counts>>,
           \/ proc' = proc /\ serving' = serving
           \/ proc = "up" /\ proc' = "zombie" /\ serving' = 0,
           kid' \in {"none", "plain", "stubborn"},
           streams = "closed" => kid' = "none"
    PROVE  IInv'
<1>1. UNCHANGED <<seq, wlock, closed, streams, readers>>
  BY DEF parent
<1>2. \A k \in Ids : /\ InLines(k)' <=> InLines(k)
                     /\ InRequests(k)' <=> InRequests(k)
                     /\ Outstanding(k)' => Outstanding(k)
                     /\ serving' = k => serving = k
                     /\ proc' = "up" => (Outstanding(k)' <=> Outstanding(k))
  <2>1. \A k \in Ids : (InLines(k)' <=> InLines(k)) /\ (InRequests(k)' <=> InRequests(k))
    BY DEF InLines, InRequests
  <2>2. \A k \in Ids : /\ serving' = k => serving = k
                       /\ proc' = "up" => serving' = serving
    BY Basics
  <2>3. QED  BY <2>1, <2>2 DEF Outstanding
<1>3. TypeOK'
  BY <1>1, Basics DEF IInv, TypeOK
<1>4. CloseInv'
  BY <1>1 DEF IInv, CloseInv, At
<1>5. OrderInv'
  BY <1>1, <1>2 DEF IInv, OrderInv, At
<1>6. /\ LockInv' /\ OutcomeInv' /\ CountInv'
      /\ NoCloser' => SoleInv
      /\ SoleReader => SoleReader'
      /\ NoneAfterLoss => NoneAfterLoss'
      /\ \A k \in Ids : IsLost(k)' <=> IsLost(k)
  BY WorkerFrame
<1>7. ASSUME NoCloser'  PROVE SoleInv'
  <2>1. SoleInv  BY <1>6, <1>7
  <2>2. AnswerDue'
    <3>1. proc' = "up" => proc = "up" /\ serving' = serving
      OBVIOUS
    <3>2. QED  BY <2>1, <3>1 DEF SoleInv, AnswerDue, At, Outstanding, InLines, InRequests
  <2>3. LossShows'
    BY <1>2, <1>6, <2>1 DEF SoleInv, LossShows, SomeLost
  <2>4. LostFirst'
    BY <2>1 DEF SoleInv, LostFirst, SomeLost, IsLost, InLines, At
  <2>5. QED  BY <1>6, <2>1, <2>2, <2>3, <2>4 DEF SoleInv
<1>8. QED  BY <1>3, <1>4, <1>5, <1>6, <1>7 DEF IInv

----------------------------------------------------------------------------
(* The invariant and what follows from it.                                 *)

LEMMA NextKeeps ==
    ASSUME IInv, [Next]_vars
    PROVE  IInv'
<1>1. ASSUME NEW t \in Runners, Begin(t) \/ RunStep(t)
      PROVE  IInv'
  <2>1. CASE WriteFails(t)
    <3>1. thread[t].pc \in {"write", "push", "read"}  BY <2>1 DEF WriteFails, At
    <3>2. QED  BY <2>1, <3>1, GivesUp DEF WriteFails
  <2>2. CASE TimeOut(t)
    <3>1. thread[t].pc \in {"write", "push", "read"}  BY <2>2 DEF TimeOut, At
    <3>2. QED  BY <2>2, <3>1, GivesUp DEF TimeOut
  <2>3. QED  BY <1>1, <2>1, <2>2, BeginKeeps, LockKeeps, WriteKeeps, NoReaderKeeps DEF RunStep
<1>2. ASSUME NEW t \in Closers, CloseBegins(t)
      PROVE  IInv'
  BY <1>2, CloseBeginsKeeps
<1>3. ASSUME NEW t \in Threads, CloseStep(t)
      PROVE  IInv'
  BY <1>3, ClaimKeeps, KillKeeps, CloseStreamsKeeps DEF CloseStep
<1>4. ASSUME NEW i \in Ids, ReaderStep(i)
      PROVE  IInv'
  BY <1>4, ReadLineKeeps, EndOfFileKeeps DEF ReaderStep
<1>5. CASE Accept
  BY <1>5, AcceptKeeps
<1>6. CASE SessionCode
  <2>1. ASSUME NEW kind \in Kids, Fork(kind)  PROVE IInv'
    <3>1. kind \in {"none", "plain", "stubborn"} /\ kid' = kind
      BY <2>1, WorkerProtocolAssumption DEF Fork
    <3>2. streams # "closed"
      <4>1. serving # 0  BY <2>1, Basics DEF Fork, IInv, TypeOK
      <4>2. QED  BY <4>1 DEF IInv, CloseInv
    <3>3. QED  BY <2>1, <3>1, <3>2, ProcessStepKeeps DEF Fork
  <2>2. CASE KidExits
    BY <2>2, ProcessStepKeeps DEF KidExits
  <2>3. CASE WorkerExits
    <3>1. kid' = kid /\ kid \in {"none", "plain", "stubborn"} /\ (streams = "closed" => kid = "none")
      BY <2>3 DEF WorkerExits, IInv, TypeOK, CloseInv
    <3>2. QED  BY <2>3, <3>1, ProcessStepKeeps DEF WorkerExits
  <2>4. QED  BY <1>6, <2>1, <2>2, <2>3, AnswerKeeps, WriteJunkKeeps DEF SessionCode
<1>7. CASE UNCHANGED vars
  <2>1. /\ UNCHANGED <<route, phase, requests, lines, parent, thread, outcome, counts>>
        /\ UNCHANGED <<proc, serving, kid>>
    BY <1>7 DEF vars, worker
  <2>2. kid \in {"none", "plain", "stubborn"} /\ (streams = "closed" => kid = "none")
    BY DEF IInv, TypeOK, CloseInv
  <2>3. QED  BY <2>1, <2>2, ProcessStepKeeps
<1>8. QED  BY <1>1, <1>2, <1>3, <1>4, <1>5, <1>6, <1>7 DEF Next

LEMMA InitKeeps ==
    ASSUME Init
    PROVE  IInv
<1>1. /\ MaxCalls \in Nat /\ MaxJunk \in Nat /\ MaxFaults \in Nat
      /\ Starter \in Threads /\ NoThread \notin Threads /\ 0 \notin Ids
      /\ Runners \subseteq Threads /\ Closers \subseteq Threads
      /\ \A i \in Ids : i \in Nat
  BY WorkerProtocolAssumption DEF Threads, Runners, Ids
<1>2. \A t \in Threads : thread[t].pc = "idle" /\ thread[t].id = 0
  BY DEF Init
<1>3. TypeOK
  <2>1. thread \in [Threads -> [pc : Pcs, id : 0 .. MaxCalls]]
    BY <1>1 DEF Init, Pcs
  <2>2. counts \in [calls : 0 .. MaxCalls, junk : 0 .. MaxJunk, faults : 0 .. MaxFaults]
    BY <1>1 DEF Init
  <2>3. outcome \in [Ids -> {Lost, 0} \cup Ids]
    BY DEF Init
  <2>4. requests \in Seq(Ids) /\ lines \in Seq(Lines)
    BY DEF Init
  <2>5. QED  BY <1>1, <2>1, <2>2, <2>3, <2>4 DEF Init, TypeOK
<1>4. LockInv
  BY <1>1, <1>2 DEF Init, LockInv, Busy, Closing, At
<1>5. CloseInv
  BY <1>2 DEF Init, CloseInv, At
<1>6. OutcomeInv
  BY DEF Init, OutcomeInv, AnswersOwn
<1>7. CountInv
  <2>1. Locking = {}
    BY <1>1, <1>2 DEF Locking, At
  <2>2. IsFiniteSet(Locking) /\ Cardinality(Locking) = 0
    BY <2>1, FS_EmptySet
  <2>3. QED  BY <2>2 DEF Init, CountInv
<1>8. Len(lines) = 0 /\ Len(requests) = 0
  BY DEF Init
<1>9. \A k \in Ids : ~InLines(k) /\ ~InRequests(k) /\ ~Outstanding(k)
  BY <1>1, <1>8 DEF Init, InLines, InRequests, Outstanding
<1>10. OrderInv
  BY <1>1, <1>8, <1>9 DEF Init, OrderInv
<1>11. SoleInv
  <2>1. \A i \in Ids : ~IsLost(i)
    BY DEF Init, IsLost, Lost
  <2>2. \A t \in Runners : ~At(t, "read")
    BY <1>1, <1>2 DEF At
  <2>3. QED  BY <2>1, <2>2 DEF Init, SoleInv, SoleReader, AnswerDue, LossShows, LostFirst,
                                NoneAfterLoss, SomeLost
<1>12. QED  BY <1>3, <1>4, <1>5, <1>6, <1>7, <1>10, <1>11 DEF IInv

\* The inductive invariant holds in every state of the worker protocol: who
\* holds _wlock, how close() proceeds, the order of the answers in the channel,
\* and what a lost answer leaves behind.
THEOREM Invariance == Spec => []IInv
<1>1. Init => IInv
  BY InitKeeps
<1>2. IInv /\ [Next]_vars => IInv'
  BY NextKeeps
<1>3. QED  BY <1>1, <1>2, PTL DEF Spec

\* The variables of Worker keep their types; in particular _seq stays within
\* the number of calls, since every call counted takes one number at most.
THEOREM TypeCorrect == Spec => []TypeOK
<1>1. IInv => TypeOK
  BY DEF IInv
<1>2. QED  BY <1>1, Invariance, PTL

\* Every call that run() answers is answered with its own number.
THEOREM OwnAnswers == Spec => []AnswersOwn
<1>1. IInv => AnswersOwn
  BY DEF IInv, OutcomeInv
<1>2. QED  BY <1>1, Invariance, PTL

\* After a lost answer no later call of run() gets one, unless a thread of
\* stop(), the reap or a restore is in close().
THEOREM LossIsFinal == Spec => []LostMeansOver
<1>1. ASSUME IInv  PROVE LostMeansOver
  <2>1. SUFFICES ASSUME NEW i \in Ids, NEW j \in Ids, i < j, outcome[i] = Lost, outcome[j] > 0,
                        \A t \in Closers : At(t, "idle")
                 PROVE  FALSE
    BY DEF LostMeansOver
  <2>2. NoneAfterLoss
    BY <1>1, <2>1 DEF IInv, NoCloser, SoleInv
  <2>3. outcome[j] <= 0
    BY <2>1, <2>2 DEF NoneAfterLoss, IsLost
  <2>4. outcome[j] \in Int
    <3>1. outcome[j] \in {Lost, 0} \cup Ids
      BY <1>1 DEF IInv, TypeOK
    <3>2. Lost \in Int /\ \A k \in Ids : k \in Int
      BY <1>1, Basics
    <3>3. QED  BY <3>1, <3>2
  <2>5. QED  BY <2>1, <2>3, <2>4
<1>2. QED  BY <1>1, Invariance, PTL

----------------------------------------------------------------------------
(* The process group.                                                      *)

KidInv ==
    \A t \in Threads : At(t, "streams") => kid \in {"none", "stubborn"}

\* Whatever session code forks, close() leaves nothing of the worker's process
\* group behind when it goes on to the pipes but a process that ignores SIGTERM,
\* and a worker that _spawn_worker refuses leaves no process and no open pipe.
THEOREM NothingSurvives == Spec => []GroupGone
<1>1. Init => KidInv
  <2>1. ASSUME Init  PROVE \A t \in Threads : thread[t].pc = "idle"
    BY <2>1 DEF Init
  <2>2. QED  BY <2>1 DEF Init, KidInv, At
<1>2. ASSUME IInv, KidInv, [Next]_vars  PROVE KidInv'
  <2>2. ASSUME kid' = kid \/ kid' = "none",
               \A t \in Threads : At(t, "streams")' => At(t, "streams") \/ kid' \in {"none", "stubborn"}
        PROVE  KidInv'
    BY <1>2, <2>2 DEF KidInv
  <2>3. ASSUME NEW t \in Threads, NEW pc \in Pcs, Goto(t, pc), pc # "streams", kid' = kid
        PROVE  KidInv'
    <3>1. /\ thread'[t].pc # "streams"
          /\ \A u \in Threads : u # t => thread'[u] = thread[u]
      BY <1>2, <2>3, GotoFacts
    <3>2. QED  BY <2>2, <2>3, <3>1 DEF At
  <2>4. ASSUME NEW t \in Runners, NEW result \in {Lost} \cup Ids, Return(t, result), kid' = kid
        PROVE  KidInv'
    <3>1. /\ thread'[t].pc # "streams"
          /\ \A u \in Threads : u # t => thread'[u] = thread[u]
      BY <1>2, <2>4, ReturnFacts
    <3>2. QED  BY <2>2, <2>4, <3>1 DEF At
  <2>5. ASSUME thread' = thread, kid' = kid \/ kid' = "none"
        PROVE  KidInv'
    BY <2>2, <2>5 DEF At
  <2>6. {"idle", "lock", "claim", "kill", "over", "read"} \subseteq Pcs /\ Lost \in {Lost} \cup Ids
    BY DEF Pcs
  <2>7. ASSUME NEW t \in Runners, Begin(t) \/ RunStep(t)
        PROVE  KidInv'
    <3>1. t \in Threads  BY DEF Threads
    <3>2. CASE Begin(t)
      BY <2>3, <2>4, <2>6, <3>1, <3>2 DEF Begin
    <3>3. CASE Lock(t)
      <4>1. /\ kid' = kid /\ thread'[t].pc # "streams"
            /\ \A u \in Threads : u # t => thread'[u] = thread[u]
        BY <1>2, <3>1, <3>3, Basics DEF Lock, worker
      <4>2. QED  BY <2>2, <4>1 DEF At
    <3>4. CASE Write(t)
      BY <2>3, <2>6, <3>1, <3>4 DEF Write
    <3>5. CASE NoReader(t)
      BY <2>4, <2>6, <3>5 DEF NoReader
    <3>6. CASE WriteFails(t) \/ TimeOut(t)
      BY <2>3, <2>6, <3>1, <3>6 DEF WriteFails, TimeOut, worker
    <3>7. QED  BY <2>7, <3>2, <3>3, <3>4, <3>5, <3>6 DEF RunStep
  <2>8. ASSUME NEW t \in Closers, CloseBegins(t)
        PROVE  KidInv'
    <3>1. t \in Threads  BY DEF Threads
    <3>2. QED  BY <2>3, <2>6, <2>8, <3>1 DEF CloseBegins, worker
  <2>9. ASSUME NEW t \in Threads, CloseStep(t)
        PROVE  KidInv'
    <3>1. CASE Kill(t)
      <4>1. kid' \in {"none", "stubborn"}
        BY <3>1 DEF Kill, Survivors
      <4>2. QED  BY <4>1 DEF KidInv
    <3>2. ASSUME Finish(t), kid' = kid  PROVE KidInv'
      <4>1. t \notin Closers => t \in Runners  BY DEF Threads
      <4>2. QED  BY <2>3, <2>4, <2>6, <3>2, <4>1 DEF Finish
    <3>3. CASE Claim(t)
      BY <2>3, <2>6, <3>2, <3>3 DEF Claim, worker
    <3>4. CASE CloseStreams(t)
      BY <3>2, <3>4 DEF CloseStreams, worker
    <3>5. QED  BY <2>9, <3>1, <3>3, <3>4 DEF CloseStep
  <2>10. ASSUME NEW i \in Ids, ReaderStep(i)
         PROVE  KidInv'
    <3>1. kid' = kid
      BY <2>10 DEF ReaderStep, ReadLine, EndOfFile, worker
    <3>2. ASSUME NEW t \in Waiting(i), Takes(t, Head(lines)) \/ Return(t, Lost)  PROVE KidInv'
      <4>1. t \in Runners /\ t \in Threads /\ thread[t].id \in Ids
        BY <1>2, <3>2, WaitingFacts
      <4>2. QED  BY <2>3, <2>4, <2>6, <3>1, <3>2, <4>1 DEF Takes
    <3>3. QED  BY <2>5, <2>10, <3>1, <3>2 DEF ReaderStep, ReadLine, EndOfFile
  <2>11. CASE Accept
    BY <2>5, <2>11 DEF Accept
  <2>12. CASE SessionCode
    <3>1. ASSUME NEW kind \in Kids, Fork(kind)  PROVE KidInv'
      <4>1. \A t \in Threads : ~At(t, "streams")
        <5>1. serving # 0  BY <1>2, <3>1, Basics DEF Fork, IInv, TypeOK
        <5>2. QED  BY <1>2, <5>1 DEF IInv, CloseInv
      <4>2. QED  BY <3>1, <4>1 DEF Fork, KidInv, At
    <3>2. CASE Answer \/ KidExits \/ WorkerExits \/ \E kind \in Junk : WriteJunk(kind)
      BY <2>5, <3>2 DEF Answer, KidExits, WorkerExits, WriteJunk, worker
    <3>3. QED  BY <2>12, <3>1, <3>2 DEF SessionCode
  <2>13. CASE UNCHANGED vars
    BY <2>5, <2>13 DEF vars, worker
  <2>14. QED  BY <1>2, <2>7, <2>8, <2>9, <2>10, <2>11, <2>12, <2>13 DEF Next
<1>3. IInv /\ KidInv => GroupGone
  BY DEF IInv, CloseInv, KidInv, GroupGone, Held, At
<1>4. QED  BY <1>1, <1>2, <1>3, Invariance, PTL DEF Spec

=============================================================================
