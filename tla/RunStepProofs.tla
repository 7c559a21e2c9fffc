---------------------------- MODULE RunStepProofs ----------------------------
(***************************************************************************)
(* Proofs about RunStep, for every output cap, chunk and pipe size and any *)
(* amount of output.                                                       *)
(***************************************************************************)
EXTENDS RunStep, TLAPS

----------------------------------------------------------------------------
(* What the split of the budget guarantees.                                *)

\* What both streams keep fills the cap and no more when output is cut, is all
\* there is when it is not, and is never less than a stream's share.
LEMMA SplitFacts ==
    ASSUME NEW cap \in Nat, NEW o \in Nat, NEW e \in Nat
    PROVE  /\ OutKeep(cap, o, e) \in 0 .. o /\ ErrKeep(cap, o, e) \in 0 .. e
           /\ OutKeep(cap, o, e) + ErrKeep(cap, o, e) <= cap
           /\ Truncated(cap, o, e) => OutKeep(cap, o, e) + ErrKeep(cap, o, e) = cap
           /\ ~Truncated(cap, o, e) => OutKeep(cap, o, e) = o /\ ErrKeep(cap, o, e) = e
           /\ OutKeep(cap, o, e) >= Least(o, cap \div 2)
           /\ ErrKeep(cap, o, e) >= Least(e, cap \div 2)
BY DEF OutKeep, ErrKeep, Share, Least, Truncated

\* The split of the capped buffers of two drains is that of the full streams.
LEMMA SplitOfRetained ==
    ASSUME NEW cap \in Nat, NEW o \in Nat, NEW e \in Nat
    PROVE  /\ Truncated(cap, Retained(cap, o), Retained(cap, e)) <=> Truncated(cap, o, e)
           /\ OutKeep(cap, Retained(cap, o), Retained(cap, e)) = OutKeep(cap, o, e)
           /\ ErrKeep(cap, Retained(cap, o), Retained(cap, e)) = ErrKeep(cap, o, e)
           /\ ~Truncated(cap, o, e) => Retained(cap, o) = o /\ Retained(cap, e) = e
           /\ Least(Retained(cap, o), cap \div 2) = Least(o, cap \div 2)
BY DEF OutKeep, ErrKeep, Share, Least, Truncated, Retained

\* Retaining chunk by chunk is retaining from the whole.
LEMMA RetainedGrows ==
    ASSUME NEW cap \in Nat, NEW n \in Nat, NEW k \in Nat
    PROVE  /\ Retained(cap, Retained(cap, n) + k) = Retained(cap, n + k)
           /\ Retained(cap, n) \in 0 .. cap + 1
           /\ Retained(cap, n) <= n
BY DEF Retained, Least

\* A cut keeps at most the budget and is at most back bytes short of it.
LEMMA CutFacts ==
    ASSUME NEW n \in Nat, NEW keep \in Nat, NEW back \in Nat,
           NEW k \in CutUtf8(n, keep, back)
    PROVE  /\ k \in 0 .. n
           /\ k <= keep
           /\ k >= Least(n, keep) - back
           /\ n <= keep => k = n
BY DEF CutUtf8, Least

----------------------------------------------------------------------------
(* The inductive invariant.                                                *)

Settled == {"join_out", "join_err", "collect", "cleanup", "remove", "done"}
Returning == {"cleanup", "remove", "done"}

\* Where the caller's thread is says what of the program may still live.
ProcInv ==
    /\ pc = "spawn" => main = "none"
    /\ pc \in {"poll", "kill"} => main # "none"
    /\ pc \in {"reap", "join_out", "join_err", "collect"} => main = "exited"
    /\ pc \in Settled => main # "running" /\ left # "group"
    /\ main = "none" => left = "none"

\* No byte is lost between the program and the drain, and the buffer is what
\* the cap leaves of the bytes counted.
DrainInv(s) ==
    /\ written[s] = pipe[s] + held[s] + seen[s]
    /\ buf[s] = Retained(Cap, seen[s])
    /\ drain[s] = "none" <=> main = "none"
    /\ drain[s] = "ended" => ~Live /\ pipe[s] = 0 /\ held[s] = 0

\* A drain that has been joined has ended, or a process outside the group
\* keeps it.
JoinInv ==
    /\ pc \in {"join_err", "collect"} => (Grouped => drain["out"] # "reading")
    /\ pc = "collect" => (Grouped => drain["err"] # "reading")

\* What a result says stays true of the step it is about.
ResultInv ==
    /\ pc \notin Returning => result = NoResult
    /\ \A s \in Streams :
           result.bytes[s] # -1 => drain[s] = "ended" /\ result.bytes[s] = seen[s]
    /\ result.ok => result.kind = "run"
    /\ result.ok /\ Grouped => /\ \A s \in Streams : drain[s] = "ended"
                               /\ OutputIsWhole
                               /\ BudgetIsShared

WorkdirInv ==
    /\ pc = "remove" => place = "own"
    /\ pc # "done" => removed = "none"
    /\ OnlyOwnRemoved

IInv ==
    /\ TypeOK
    /\ ProcInv
    /\ \A s \in Streams : DrainInv(s)
    /\ JoinInv
    /\ ResultInv
    /\ WorkdirInv

----------------------------------------------------------------------------
(* Results.                                                                *)

\* Before the call returns there is nothing to say of its result.
LEMMA NothingToReport ==
    ASSUME result' = NoResult
    PROVE  ResultInv'
<1>1. /\ ~result'.ok
      /\ \A s \in Streams : result'.bytes[s] = -1
  BY DEF NoResult, Streams
<1> QED
  BY <1>1 DEF ResultInv

\* A call that ran no step to its end reports no output.
LEMMA NothingRun ==
    ASSUME NEW k \in {"unavailable", "exhausted"}, pc' \in Returning,
           \/ result' = [NoResult EXCEPT !.kind = k]
           \/ result' = [NoResult EXCEPT !.kind = k, !.timed_out = TRUE]
    PROVE  /\ ResultInv'
           /\ result' \in [kind : {"none", "unavailable", "compile", "exhausted", "run"},
                           ok : BOOLEAN, timed_out : BOOLEAN, truncated : BOOLEAN,
                           kept : [Streams -> 0 .. MaxOutput],
                           bytes : [Streams -> -1 .. MaxOutput]]
<1>1. /\ ~result'.ok
      /\ \A s \in Streams : result'.bytes[s] = -1
  BY DEF NoResult, Streams
<1>2. /\ [s \in Streams |-> 0] \in [Streams -> 0 .. MaxOutput]
      /\ [s \in Streams |-> -1] \in [Streams -> -1 .. MaxOutput]
  BY RunStepAssumption
<1>3. PICK b \in BOOLEAN :
          result' = [kind |-> k, ok |-> FALSE, timed_out |-> b, truncated |-> FALSE,
                     kept |-> [s \in Streams |-> 0], bytes |-> [s \in Streams |-> -1]]
  BY DEF NoResult
<1> QED
  BY <1>1, <1>2, <1>3 DEF ResultInv

\* A result stays true while the drains that have ended stay as they are.
LEMMA ResultStays ==
    ASSUME ResultInv, result' = result,
           pc' \notin Returning => pc \notin Returning,
           Grouped' => Grouped,
           \A s \in Streams : drain[s] = "ended" =>
               drain'[s] = "ended" /\ seen'[s] = seen[s] /\ written'[s] = written[s]
    PROVE  ResultInv'
<1>1. \A s \in Streams :
          result'.bytes[s] # -1 => drain'[s] = "ended" /\ result'.bytes[s] = seen'[s]
  BY DEF ResultInv
<1>2. ASSUME result'.ok, Grouped'
      PROVE  /\ \A s \in Streams : drain'[s] = "ended"
             /\ OutputIsWhole'
             /\ BudgetIsShared'
  <2>1. /\ \A s \in Streams : drain[s] = "ended"
        /\ OutputIsWhole
        /\ BudgetIsShared
    BY <1>2 DEF ResultInv
  <2>2. \A s \in Streams : drain'[s] = "ended" /\ written'[s] = written[s]
    BY <2>1
  <2>3. Total' = Total
    BY <2>2 DEF Total, Streams
  <2>4. BudgetIsShared'
    BY <1>2, <2>1, <2>2 DEF BudgetIsShared
  <2>5. OutputIsWhole'
    BY <1>2, <2>1, <2>2, <2>3 DEF OutputIsWhole
  <2> QED
    BY <2>2, <2>4, <2>5
<1> QED
  BY <1>1, <1>2 DEF ResultInv

\* The result of a step is well-formed, counts only what was read to the end,
\* and, when both drains have ended in time, is that of the whole output.
LEMMA ReportFacts ==
    ASSUME TypeOK, \A s \in Streams : DrainInv(s),
           NEW k \in {"compile", "run"}, NEW good \in BOOLEAN, Report(k, good)
    PROVE  /\ result' \in [kind : {"none", "unavailable", "compile", "exhausted", "run"},
                           ok : BOOLEAN, timed_out : BOOLEAN, truncated : BOOLEAN,
                           kept : [Streams -> 0 .. MaxOutput],
                           bytes : [Streams -> -1 .. MaxOutput]]
           /\ result'.kind = k
           /\ result'.ok <=> good
           /\ \A s \in Streams : result'.bytes[s] = Bytes(s)
           /\ ~timed_out /\ (\A s \in Streams : drain[s] = "ended") =>
                  /\ result'.truncated <=> Total > Cap
                  /\ ~result'.truncated =>
                         \A s \in Streams : result'.kept[s] = written[s]
                  /\ result'.kept["out"] + result'.kept["err"] <= Cap
                  /\ \A s \in Streams :
                         result'.kept[s] >= Least(written[s], Cap \div 2) - CutBack
<1> USE RunStepAssumption
<1> DEFINE o == IF timed_out THEN 0 ELSE buf["out"]
           e == IF timed_out THEN 0 ELSE buf["err"]
           ko == OutKeep(Cap, o, e)
           ke == ErrKeep(Cap, o, e)
<1>1. PICK out \in CutUtf8(o, ko, CutBack),
           err \in CutUtf8(e, ke, CutBack) :
          result' = [kind |-> k, ok |-> good, timed_out |-> timed_out,
                     truncated |-> Truncated(Cap, o, e),
                     kept |-> [s \in Streams |-> IF s = "out" THEN out ELSE err],
                     bytes |-> [s \in Streams |-> Bytes(s)]]
  BY DEF Report, Streams
<1>2. /\ \A s \in Streams : buf[s] \in Nat /\ buf[s] <= seen[s] /\ seen[s] <= MaxOutput
      /\ timed_out \in BOOLEAN
  BY RetainedGrows DEF TypeOK, DrainInv
<1>3. /\ o \in 0 .. MaxOutput /\ e \in 0 .. MaxOutput
      /\ ~timed_out => o = buf["out"] /\ e = buf["err"]
  <2>1. /\ buf["out"] \in 0 .. MaxOutput /\ buf["err"] \in 0 .. MaxOutput
        /\ 0 \in 0 .. MaxOutput
    BY <1>2 DEF TypeOK, Streams
  <2> QED
    BY <2>1, Zenon
<1> HIDE DEF o, e
<1>4. /\ ko \in Nat /\ ke \in Nat /\ ko + ke <= Cap
      /\ ko <= o /\ ke <= e
      /\ ~Truncated(Cap, o, e) => ko = o /\ ke = e
      /\ ko >= Least(o, Cap \div 2)
      /\ ke >= Least(e, Cap \div 2)
  <2>1. o \in Nat /\ e \in Nat
    BY <1>3
  <2>2. /\ OutKeep(Cap, o, e) \in 0 .. o /\ ErrKeep(Cap, o, e) \in 0 .. e
        /\ OutKeep(Cap, o, e) + ErrKeep(Cap, o, e) <= Cap
        /\ ~Truncated(Cap, o, e) => OutKeep(Cap, o, e) = o /\ ErrKeep(Cap, o, e) = e
        /\ OutKeep(Cap, o, e) >= Least(o, Cap \div 2)
        /\ ErrKeep(Cap, o, e) >= Least(e, Cap \div 2)
    BY <2>1, SplitFacts, Zenon
  <2> QED
    BY <2>1, <2>2
<1> HIDE DEF ko, ke
<1>5. /\ out \in 0 .. o /\ err \in 0 .. e
      /\ out <= ko /\ err <= ke
      /\ out >= Least(o, ko) - CutBack
      /\ err >= Least(e, ke) - CutBack
      /\ o <= ko => out = o
      /\ e <= ke => err = e
  BY <1>1, <1>3, <1>4, CutFacts
<1>6. /\ result'.kind = k
      /\ result'.ok <=> good
      /\ result'.truncated <=> Truncated(Cap, o, e)
      /\ result'.kept["out"] = out /\ result'.kept["err"] = err
      /\ \A s \in Streams : result'.bytes[s] = Bytes(s)
  BY <1>1 DEF Streams
<1>7. result' \in [kind : {"none", "unavailable", "compile", "exhausted", "run"},
                   ok : BOOLEAN, timed_out : BOOLEAN, truncated : BOOLEAN,
                   kept : [Streams -> 0 .. MaxOutput],
                   bytes : [Streams -> -1 .. MaxOutput]]
  <2>1. [s \in Streams |-> IF s = "out" THEN out ELSE err] \in [Streams -> 0 .. MaxOutput]
    BY <1>3, <1>5
  <2>2. \A s \in Streams : Bytes(s) \in -1 .. MaxOutput
    BY DEF TypeOK, Bytes
  <2>3. [s \in Streams |-> Bytes(s)] \in [Streams -> -1 .. MaxOutput]
    BY <2>2
  <2>4. Truncated(Cap, o, e) \in BOOLEAN
    BY <1>3 DEF Truncated
  <2> QED
    BY <1>1, <1>2, <2>1, <2>3, <2>4
<1>8. ASSUME ~timed_out, \A s \in Streams : drain[s] = "ended"
      PROVE  /\ result'.truncated <=> Total > Cap
             /\ ~result'.truncated => \A s \in Streams : result'.kept[s] = written[s]
             /\ result'.kept["out"] + result'.kept["err"] <= Cap
             /\ \A s \in Streams :
                    result'.kept[s] >= Least(written[s], Cap \div 2) - CutBack
  <2>1. /\ o = Retained(Cap, written["out"])
        /\ e = Retained(Cap, written["err"])
        /\ written["out"] \in Nat /\ written["err"] \in Nat
    BY <1>3, <1>8 DEF DrainInv, TypeOK, Streams
  <2>2. /\ Truncated(Cap, o, e) <=> Total > Cap
        /\ ~Truncated(Cap, o, e) =>
               o = written["out"] /\ e = written["err"]
        /\ Least(o, Cap \div 2) = Least(written["out"], Cap \div 2)
        /\ Least(e, Cap \div 2) = Least(written["err"], Cap \div 2)
    BY <2>1, SplitOfRetained DEF Truncated, Total
  <2>3. out + err <= Cap
    BY <1>3, <1>4, <1>5
  <2>4. /\ out >= Least(o, Cap \div 2) - CutBack
        /\ err >= Least(e, Cap \div 2) - CutBack
    BY <1>3, <1>4, <1>5 DEF Least
  <2>5. ~Truncated(Cap, o, e) =>
            out = written["out"] /\ err = written["err"]
    BY <1>3, <1>4, <1>5, <2>2
  <2>6. /\ result'.truncated <=> Total > Cap
        /\ ~result'.truncated => out = written["out"] /\ err = written["err"]
    BY <1>6, <2>2, <2>5
  <2> QED
    BY <1>6, <2>2, <2>3, <2>4, <2>6 DEF Streams
<1> QED
  BY <1>6, <1>7, <1>8

----------------------------------------------------------------------------
(* Every step keeps the invariant.                                         *)

LEMMA NoResultType ==
    NoResult \in [kind : {"none", "unavailable", "compile", "exhausted", "run"},
                  ok : BOOLEAN, timed_out : BOOLEAN, truncated : BOOLEAN,
                  kept : [Streams -> 0 .. MaxOutput],
                  bytes : [Streams -> -1 .. MaxOutput]]
<1>1. /\ [s \in Streams |-> 0] \in [Streams -> 0 .. MaxOutput]
      /\ [s \in Streams |-> -1] \in [Streams -> -1 .. MaxOutput]
  BY RunStepAssumption
<1> QED
  BY <1>1 DEF NoResult

LEMMA Initially == Init => IInv
<1> SUFFICES ASSUME Init PROVE IInv
  OBVIOUS
<1> USE RunStepAssumption
<1>1. TypeOK
  <2>1. /\ late \in BOOLEAN /\ spent \in BOOLEAN /\ timed_out \in BOOLEAN
        /\ drain \in [Streams -> {"none", "reading", "ended", "failed"}]
    BY DEF Init
  <2>2. /\ Zero \in [Streams -> 0 .. MaxOutput] /\ Zero \in [Streams -> 0 .. PipeSize]
        /\ Zero \in [Streams -> 0 .. Chunk] /\ Zero \in [Streams -> 0 .. Cap + 1]
    BY DEF Zero
  <2> QED
    BY <2>1, <2>2, NoResultType, Zenon DEF Init, TypeOK
<1>2. ProcInv /\ JoinInv /\ WorkdirInv
  BY DEF Init, ProcInv, JoinInv, WorkdirInv, OnlyOwnRemoved, Settled
<1>3. \A s \in Streams : DrainInv(s)
  BY DEF Init, DrainInv, Zero, Retained, Least
<1>4. ResultInv
  BY DEF Init, ResultInv, NoResult, Streams
<1> QED
  BY <1>1, <1>2, <1>3, <1>4 DEF IInv

\* The steps of the program and of what it left behind.
LEMMA ProgramSteps ==
    ASSUME IInv, Program
    PROVE  IInv'
<1> USE RunStepAssumption DEF IInv
<1>1. CASE Fork
  <2> USE <1>1 DEF Fork, caller, clock, drains, workdir
  <2>1. TypeOK'
    BY DEF TypeOK
  <2>2. ProcInv'
    BY DEF ProcInv, TypeOK, Settled
  <2>3. \A s \in Streams : DrainInv(s)'
    BY DEF DrainInv, TypeOK, Live, ProcInv
  <2>4. JoinInv'
    BY DEF JoinInv, Grouped, ProcInv, Live, Streams, Settled, TypeOK
  <2>5. WorkdirInv'
    BY DEF WorkdirInv, OnlyOwnRemoved, Grouped
  <2>6. ResultInv'
    BY ResultStays DEF DrainInv, Grouped, Live
  <2> QED
    BY <2>1, <2>2, <2>3, <2>4, <2>5, <2>6
<1>2. CASE Exit
  <2> USE <1>2 DEF Exit, caller, clock, drains, workdir
  <2>1. TypeOK'
    BY DEF TypeOK
  <2>2. ProcInv'
    BY DEF ProcInv, TypeOK, Settled
  <2>3. \A s \in Streams : DrainInv(s)'
    BY DEF DrainInv, TypeOK, Live, ProcInv
  <2>4. JoinInv'
    BY DEF JoinInv, Grouped, ProcInv, Live, Streams, Settled, TypeOK
  <2>5. WorkdirInv'
    BY DEF WorkdirInv, OnlyOwnRemoved, Grouped
  <2>6. ResultInv'
    BY ResultStays DEF DrainInv, Grouped, Live
  <2> QED
    BY <2>1, <2>2, <2>3, <2>4, <2>5, <2>6
<1>3. CASE LeftExits
  <2> USE <1>3 DEF LeftExits, caller, clock, drains, workdir
  <2>1. TypeOK'
    BY DEF TypeOK
  <2>2. ProcInv'
    BY DEF ProcInv, TypeOK, Settled
  <2>3. \A s \in Streams : DrainInv(s)'
    BY DEF DrainInv, TypeOK, Live, ProcInv
  <2>4. JoinInv'
    BY DEF JoinInv, Grouped, ProcInv, Live, Streams, Settled, TypeOK
  <2>5. WorkdirInv'
    BY DEF WorkdirInv, OnlyOwnRemoved, Grouped
  <2>6. ResultInv'
    BY ResultStays DEF DrainInv, Grouped, Live
  <2> QED
    BY <2>1, <2>2, <2>3, <2>4, <2>5, <2>6
<1>4. CASE \E s \in Streams : Write(s)
  <2> USE <1>4 DEF Write, caller, processes, clock, drains, workdir
  <2>1. TypeOK'
    BY DEF TypeOK
  <2>2. ProcInv'
    BY DEF ProcInv, TypeOK, Settled
  <2>3. \A s \in Streams : DrainInv(s)'
    BY DEF DrainInv, TypeOK, Live, ProcInv
  <2>4. JoinInv'
    BY DEF JoinInv, Grouped, ProcInv, Live, Streams, Settled, TypeOK
  <2>5. WorkdirInv'
    BY DEF WorkdirInv, OnlyOwnRemoved, Grouped
  <2>6. ResultInv'
    BY ResultStays DEF DrainInv, Grouped, Live
  <2> QED
    BY <2>1, <2>2, <2>3, <2>4, <2>5, <2>6
<1> QED
  BY <1>1, <1>2, <1>3, <1>4 DEF Program

\* The steps of the drains.
LEMMA DrainSteps ==
    ASSUME IInv, NEW t \in Streams, DrainStep(t) \/ DrainFails(t)
    PROVE  IInv'
<1> USE RunStepAssumption DEF IInv
<1>1. CASE Pull(t)
  <2> USE <1>1 DEF Pull, caller, processes, clock, workdir
  <2>1. TypeOK'
    BY DEF TypeOK
  <2>2. ProcInv'
    BY DEF ProcInv, TypeOK, Settled
  <2>3. \A s \in Streams : DrainInv(s)'
    BY DEF DrainInv, TypeOK, Live, ProcInv
  <2>4. JoinInv'
    BY DEF JoinInv, Grouped, ProcInv, Live, Streams, Settled, TypeOK
  <2>5. WorkdirInv'
    BY DEF WorkdirInv, OnlyOwnRemoved, Grouped
  <2>6. ResultInv'
    BY ResultStays DEF DrainInv, Grouped, Live
  <2> QED
    BY <2>1, <2>2, <2>3, <2>4, <2>5, <2>6
<1>2. CASE Deliver(t)
  <2> USE <1>2 DEF Deliver, caller, processes, clock, workdir
  <2>a. /\ held[t] \in Nat /\ seen[t] \in Nat /\ pipe[t] \in Nat
        /\ seen[t] + held[t] <= MaxOutput
        /\ buf[t] = Retained(Cap, seen[t])
    BY DEF TypeOK, DrainInv
  <2>b. /\ Retained(Cap, buf[t] + held[t]) = Retained(Cap, seen[t] + held[t])
        /\ Retained(Cap, buf[t] + held[t]) \in 0 .. Cap + 1
    BY <2>a DEF Retained, Least
  <2>1. TypeOK'
    BY <2>a, <2>b DEF TypeOK, Retain
  <2>2. ProcInv'
    BY DEF ProcInv, TypeOK, Settled
  <2>3. \A s \in Streams : DrainInv(s)'
    BY <2>a, <2>b DEF DrainInv, TypeOK, Live, ProcInv, Retain
  <2>4. JoinInv'
    BY DEF JoinInv, Grouped, ProcInv, Live, Streams, Settled, TypeOK
  <2>5. WorkdirInv'
    BY DEF WorkdirInv, OnlyOwnRemoved, Grouped
  <2>6. ResultInv'
    BY ResultStays DEF DrainInv, Grouped, Live
  <2> QED
    BY <2>1, <2>2, <2>3, <2>4, <2>5, <2>6
<1>3. CASE DrainEnds(t)
  <2> USE <1>3 DEF DrainEnds, Eof, caller, processes, clock, workdir
  <2>1. TypeOK'
    BY DEF TypeOK
  <2>2. ProcInv'
    BY DEF ProcInv, TypeOK, Settled
  <2>3. \A s \in Streams : DrainInv(s)'
    BY DEF DrainInv, TypeOK, Live, ProcInv
  <2>4. JoinInv'
    BY DEF JoinInv, Grouped, ProcInv, Live, Streams, Settled, TypeOK
  <2>5. WorkdirInv'
    BY DEF WorkdirInv, OnlyOwnRemoved, Grouped
  <2>6. ResultInv'
    BY ResultStays DEF DrainInv, Grouped, Live
  <2> QED
    BY <2>1, <2>2, <2>3, <2>4, <2>5, <2>6
<1>4. CASE DrainFails(t)
  <2> USE <1>4 DEF DrainFails, caller, processes, clock, workdir
  <2>1. TypeOK'
    BY DEF TypeOK
  <2>2. ProcInv'
    BY DEF ProcInv, TypeOK, Settled
  <2>3. \A s \in Streams : DrainInv(s)'
    BY DEF DrainInv, TypeOK, Live, ProcInv
  <2>4. JoinInv'
    BY DEF JoinInv, Grouped, ProcInv, Live, Streams, Settled, TypeOK
  <2>5. WorkdirInv'
    BY DEF WorkdirInv, OnlyOwnRemoved, Grouped
  <2>6. ResultInv'
    BY ResultStays DEF DrainInv, Grouped, Live
  <2> QED
    BY <2>1, <2>2, <2>3, <2>4, <2>5, <2>6
<1> QED
  BY <1>1, <1>2, <1>3, <1>4 DEF DrainStep

\* The clock.
LEMMA ClockSteps ==
    ASSUME IInv, BudgetRunsOut \/ DeadlinePasses
    PROVE  IInv'
<1> USE RunStepAssumption DEF IInv
<1>1. CASE BudgetRunsOut
  <2> USE <1>1 DEF BudgetRunsOut, caller, processes, drains, workdir
  <2>1. TypeOK'
    BY DEF TypeOK
  <2>2. ProcInv'
    BY DEF ProcInv, TypeOK, Settled
  <2>3. \A s \in Streams : DrainInv(s)'
    BY DEF DrainInv, TypeOK, Live, ProcInv
  <2>4. JoinInv'
    BY DEF JoinInv, Grouped, ProcInv, Live, Streams, Settled, TypeOK
  <2>5. WorkdirInv'
    BY DEF WorkdirInv, OnlyOwnRemoved, Grouped
  <2>6. ResultInv'
    BY ResultStays DEF DrainInv, Grouped, Live
  <2> QED
    BY <2>1, <2>2, <2>3, <2>4, <2>5, <2>6
<1>2. CASE DeadlinePasses
  <2> USE <1>2 DEF DeadlinePasses, caller, processes, drains, workdir
  <2>1. TypeOK'
    BY DEF TypeOK
  <2>2. ProcInv'
    BY DEF ProcInv, TypeOK, Settled
  <2>3. \A s \in Streams : DrainInv(s)'
    BY DEF DrainInv, TypeOK, Live, ProcInv
  <2>4. JoinInv'
    BY DEF JoinInv, Grouped, ProcInv, Live, Streams, Settled, TypeOK
  <2>5. WorkdirInv'
    BY DEF WorkdirInv, OnlyOwnRemoved, Grouped
  <2>6. ResultInv'
    BY ResultStays DEF DrainInv, Grouped, Live
  <2> QED
    BY <2>1, <2>2, <2>3, <2>4, <2>5, <2>6
<1> QED
  BY <1>1, <1>2

\* The caller's thread in a step.
LEMMA StepSteps ==
    ASSUME IInv, Poll \/ Kill \/ Reap \/ JoinOut \/ JoinErr
    PROVE  IInv'
<1> USE RunStepAssumption DEF IInv
<1>1. CASE Poll
  <2> USE <1>1 DEF Poll, processes, clock, drains, workdir
  <2>a. timed_out' \in BOOLEAN /\ pc' \in {"reap", "kill"}
    BY DEF TypeOK
  <2>1. TypeOK'
    BY <2>a DEF TypeOK
  <2>2. ProcInv'
    BY DEF ProcInv, TypeOK, Settled
  <2>3. \A s \in Streams : DrainInv(s)'
    BY DEF DrainInv, TypeOK, Live, ProcInv
  <2>4. JoinInv'
    BY DEF JoinInv, Grouped, ProcInv, Live, Streams, Settled, TypeOK
  <2>5. WorkdirInv'
    BY DEF WorkdirInv, OnlyOwnRemoved, Grouped
  <2>6. ResultInv'
    BY NothingToReport DEF ResultInv, Returning
  <2> QED
    BY <2>1, <2>2, <2>3, <2>4, <2>5, <2>6
<1>2. CASE Kill
  <2> USE <1>2 DEF Kill, clock, drains, workdir
  <2>1. TypeOK'
    BY DEF TypeOK
  <2>2. ProcInv'
    BY DEF ProcInv, TypeOK, Settled
  <2>3. \A s \in Streams : DrainInv(s)'
    BY DEF DrainInv, TypeOK, Live, ProcInv
  <2>4. JoinInv'
    BY DEF JoinInv, Grouped, ProcInv, Live, Streams, Settled, TypeOK
  <2>5. WorkdirInv'
    BY DEF WorkdirInv, OnlyOwnRemoved, Grouped
  <2>6. ResultInv'
    BY NothingToReport DEF ResultInv, Returning
  <2> QED
    BY <2>1, <2>2, <2>3, <2>4, <2>5, <2>6
<1>3. CASE Reap
  <2> USE <1>3 DEF Reap, clock, drains, workdir
  <2>1. TypeOK'
    BY DEF TypeOK
  <2>2. ProcInv'
    BY DEF ProcInv, TypeOK, Settled
  <2>3. \A s \in Streams : DrainInv(s)'
    BY DEF DrainInv, TypeOK, Live, ProcInv
  <2>4. JoinInv'
    BY DEF JoinInv, Grouped, ProcInv, Live, Streams, Settled, TypeOK
  <2>5. WorkdirInv'
    BY DEF WorkdirInv, OnlyOwnRemoved, Grouped
  <2>6. ResultInv'
    BY NothingToReport DEF ResultInv, Returning
  <2> QED
    BY <2>1, <2>2, <2>3, <2>4, <2>5, <2>6
<1>4. CASE JoinOut
  <2> USE <1>4 DEF JoinOut, Join, processes, clock, drains, workdir
  <2>1. TypeOK'
    BY DEF TypeOK
  <2>2. ProcInv'
    BY DEF ProcInv, TypeOK, Settled
  <2>3. \A s \in Streams : DrainInv(s)'
    BY DEF DrainInv, TypeOK, Live, ProcInv
  <2>4. JoinInv'
    BY DEF JoinInv, Grouped, ProcInv, Live, Streams, Settled, TypeOK
  <2>5. WorkdirInv'
    BY DEF WorkdirInv, OnlyOwnRemoved, Grouped
  <2>6. ResultInv'
    BY NothingToReport DEF ResultInv, Returning
  <2> QED
    BY <2>1, <2>2, <2>3, <2>4, <2>5, <2>6
<1>5. CASE JoinErr
  <2> USE <1>5 DEF JoinErr, Join, processes, clock, drains, workdir
  <2>1. TypeOK'
    BY DEF TypeOK
  <2>2. ProcInv'
    BY DEF ProcInv, TypeOK, Settled
  <2>3. \A s \in Streams : DrainInv(s)'
    BY DEF DrainInv, TypeOK, Live, ProcInv
  <2>4. JoinInv'
    BY DEF JoinInv, Grouped, ProcInv, Live, Streams, Settled, TypeOK
  <2>5. WorkdirInv'
    BY DEF WorkdirInv, OnlyOwnRemoved, Grouped
  <2>6. ResultInv'
    BY NothingToReport DEF ResultInv, Returning
  <2> QED
    BY <2>1, <2>2, <2>3, <2>4, <2>5, <2>6
<1> QED
  BY <1>1, <1>2, <1>3, <1>4, <1>5

\* The caller's thread around a step: how it starts, and what it reports.
LEMMA CallSteps ==
    ASSUME IInv, Spawn \/ CompileSucceeds \/ BudgetExhausted \/ CompileFails \/ RunReturns
    PROVE  IInv'
<1> USE RunStepAssumption DEF IInv
<1>1. CASE Spawn
  <2> USE <1>1 DEF Spawn, clock, workdir
  <2>a. \/ /\ pc' = "poll" /\ result' = NoResult
           /\ main' = "running" /\ drain' = [s \in Streams |-> "reading"]
        \/ /\ pc' = "cleanup" /\ result' = [NoResult EXCEPT !.kind = "unavailable"]
           /\ main' = main /\ drain' = drain
    BY DEF ResultInv, Returning
  <2>b. /\ ResultInv'
        /\ result' \in [kind : {"none", "unavailable", "compile", "exhausted", "run"},
                        ok : BOOLEAN, timed_out : BOOLEAN, truncated : BOOLEAN,
                        kept : [Streams -> 0 .. MaxOutput],
                        bytes : [Streams -> -1 .. MaxOutput]]
    BY <2>a, NothingToReport, NothingRun, NoResultType DEF Returning
  <2>c. drain' \in [Streams -> {"none", "reading", "ended", "failed"}]
    BY <2>a DEF TypeOK
  <2>1. TypeOK'
    BY <2>a, <2>b, <2>c DEF TypeOK
  <2>2. ProcInv'
    BY DEF ProcInv, TypeOK, Settled
  <2>3. \A s \in Streams : DrainInv(s)'
    BY DEF DrainInv, TypeOK, Live, ProcInv
  <2>4. JoinInv'
    BY DEF JoinInv, Grouped, ProcInv, Live, Streams
  <2>5. WorkdirInv'
    BY DEF WorkdirInv, OnlyOwnRemoved, Grouped
  <2>6. ResultInv'
    BY <2>b
  <2> QED
    BY <2>1, <2>2, <2>3, <2>4, <2>5, <2>6
<1>2. CASE CompileSucceeds
  <2> USE <1>2 DEF CompileSucceeds, workdir
  <2>a. /\ Zero \in [Streams -> 0 .. MaxOutput] /\ Zero \in [Streams -> 0 .. PipeSize]
        /\ Zero \in [Streams -> 0 .. Chunk] /\ Zero \in [Streams -> 0 .. Cap + 1]
        /\ drain' \in [Streams -> {"none", "reading", "ended", "failed"}]
    BY DEF Zero
  <2>1. TypeOK'
    BY <2>a DEF TypeOK
  <2>2. ProcInv'
    BY DEF ProcInv, TypeOK, Settled
  <2>3. \A s \in Streams : DrainInv(s)'
    BY DEF DrainInv, Zero, Retained, Least
  <2>4. JoinInv'
    BY DEF JoinInv, Grouped, ProcInv, Live, Streams
  <2>5. WorkdirInv'
    BY DEF WorkdirInv, OnlyOwnRemoved, Grouped
  <2>6. ResultInv'
    BY NothingToReport DEF ResultInv, Returning
  <2> QED
    BY <2>1, <2>2, <2>3, <2>4, <2>5, <2>6
<1>3. CASE BudgetExhausted
  <2> USE <1>3 DEF BudgetExhausted, processes, clock, drains, workdir
  <2>a. /\ ResultInv'
        /\ result' \in [kind : {"none", "unavailable", "compile", "exhausted", "run"},
                        ok : BOOLEAN, timed_out : BOOLEAN, truncated : BOOLEAN,
                        kept : [Streams -> 0 .. MaxOutput],
                        bytes : [Streams -> -1 .. MaxOutput]]
    BY NothingRun DEF Returning
  <2>1. TypeOK'
    BY <2>a DEF TypeOK
  <2>2. ProcInv'
    BY DEF ProcInv, TypeOK, Settled
  <2>3. \A s \in Streams : DrainInv(s)'
    BY DEF DrainInv, TypeOK, Live, ProcInv
  <2>4. JoinInv'
    BY DEF JoinInv, Grouped, ProcInv, Live, Streams
  <2>5. WorkdirInv'
    BY DEF WorkdirInv, OnlyOwnRemoved, Grouped
  <2>6. ResultInv'
    BY <2>a
  <2> QED
    BY <2>1, <2>2, <2>3, <2>4, <2>5, <2>6
<1>4. CASE CompileFails
  <2> USE <1>4 DEF CompileFails, processes, clock, drains, workdir
  <2>a. /\ result' \in [kind : {"none", "unavailable", "compile", "exhausted", "run"},
                        ok : BOOLEAN, timed_out : BOOLEAN, truncated : BOOLEAN,
                        kept : [Streams -> 0 .. MaxOutput],
                        bytes : [Streams -> -1 .. MaxOutput]]
        /\ ~result'.ok
        /\ \A s \in Streams : result'.bytes[s] = Bytes(s)
    BY ReportFacts
  <2>1. TypeOK'
    BY <2>a DEF TypeOK
  <2>2. ProcInv'
    BY DEF ProcInv, TypeOK, Settled
  <2>3. \A s \in Streams : DrainInv(s)'
    BY DEF DrainInv, TypeOK, Live, ProcInv
  <2>4. JoinInv'
    BY DEF JoinInv, Grouped, ProcInv, Live, Streams
  <2>5. WorkdirInv'
    BY DEF WorkdirInv, OnlyOwnRemoved, Grouped
  <2>6. ResultInv'
    BY <2>a DEF ResultInv, Returning, Bytes
  <2> QED
    BY <2>1, <2>2, <2>3, <2>4, <2>5, <2>6
<1>5. CASE RunReturns
  <2> USE <1>5 DEF RunReturns, processes, clock, drains, workdir
  <2> DEFINE good == ~timed_out /\ code = 0 /\ \A s \in Streams : drain[s] # "failed"
  <2>a. Report("run", good) /\ good \in BOOLEAN
    OBVIOUS
  <2>b. good => ~timed_out /\ \A s \in Streams : drain[s] # "failed"
    OBVIOUS
  <2> HIDE DEF good
  <2>c. /\ result' \in [kind : {"none", "unavailable", "compile", "exhausted", "run"},
                        ok : BOOLEAN, timed_out : BOOLEAN, truncated : BOOLEAN,
                        kept : [Streams -> 0 .. MaxOutput],
                        bytes : [Streams -> -1 .. MaxOutput]]
        /\ result'.kind = "run"
        /\ result'.ok <=> good
        /\ \A s \in Streams : result'.bytes[s] = Bytes(s)
        /\ ~timed_out /\ (\A s \in Streams : drain[s] = "ended") =>
               /\ result'.truncated <=> Total > Cap
               /\ ~result'.truncated =>
                      \A s \in Streams : result'.kept[s] = written[s]
               /\ result'.kept["out"] + result'.kept["err"] <= Cap
               /\ \A s \in Streams :
                      result'.kept[s] >= Least(written[s], Cap \div 2) - CutBack
    BY <2>a, ReportFacts
  <2>1. TypeOK'
    BY <2>c DEF TypeOK
  <2>2. ProcInv'
    BY DEF ProcInv, TypeOK, Settled
  <2>3. \A s \in Streams : DrainInv(s)'
    BY DEF DrainInv, TypeOK, Live, ProcInv
  <2>4. JoinInv'
    BY DEF JoinInv, Grouped, ProcInv, Live, Streams
  <2>5. WorkdirInv'
    BY DEF WorkdirInv, OnlyOwnRemoved, Grouped
  <2>6. ResultInv'
    <3>1. \A s \in Streams :
              result'.bytes[s] # -1 => drain'[s] = "ended" /\ result'.bytes[s] = seen'[s]
      BY <2>c DEF Bytes
    <3>2. ASSUME result'.ok, Grouped'
          PROVE  /\ \A s \in Streams : drain'[s] = "ended"
                 /\ OutputIsWhole' /\ BudgetIsShared'
      <4>1. ~timed_out /\ \A s \in Streams : drain[s] # "failed"
        BY <2>b, <2>c, <3>2
      <4>2. \A s \in Streams : drain[s] = "ended"
        BY <3>2, <4>1 DEF JoinInv, DrainInv, ProcInv, Grouped, Streams, TypeOK
      <4>3. /\ Total' = Total
            /\ \A s \in Streams : written'[s] = written[s]
        BY DEF Total
      <4>4. OutputIsWhole'
        BY <2>c, <4>1, <4>2, <4>3 DEF OutputIsWhole
      <4>5. BudgetIsShared'
        BY <2>c, <4>1, <4>2, <4>3 DEF BudgetIsShared
      <4> QED
        BY <4>2, <4>4, <4>5
    <3> QED
      BY <2>c, <3>1, <3>2 DEF ResultInv, Returning
  <2> QED
    BY <2>1, <2>2, <2>3, <2>4, <2>5, <2>6
<1> QED
  BY <1>1, <1>2, <1>3, <1>4, <1>5

\* The removal of the workdir.
LEMMA RemoveSteps ==
    ASSUME IInv, Cleanup \/ Remove
    PROVE  IInv'
<1> USE RunStepAssumption DEF IInv
<1>1. CASE Cleanup
  <2> USE <1>1 DEF Cleanup, processes, clock, drains
  <2>1. TypeOK'
    BY DEF TypeOK
  <2>2. ProcInv'
    BY DEF ProcInv, TypeOK, Settled
  <2>3. \A s \in Streams : DrainInv(s)'
    BY DEF DrainInv, TypeOK, Live, ProcInv
  <2>4. JoinInv'
    BY DEF JoinInv, Grouped, ProcInv, Live, Streams
  <2>5. WorkdirInv'
    BY DEF WorkdirInv, OnlyOwnRemoved, Grouped
  <2>6. ResultInv'
    BY ResultStays DEF Returning, Grouped
  <2> QED
    BY <2>1, <2>2, <2>3, <2>4, <2>5, <2>6
<1>2. CASE Remove
  <2> USE <1>2 DEF Remove, processes, clock, drains
  <2>1. TypeOK'
    BY DEF TypeOK
  <2>2. ProcInv'
    BY DEF ProcInv, TypeOK, Settled
  <2>3. \A s \in Streams : DrainInv(s)'
    BY DEF DrainInv, TypeOK, Live, ProcInv
  <2>4. JoinInv'
    BY DEF JoinInv, Grouped, ProcInv, Live, Streams
  <2>5. WorkdirInv'
    BY DEF WorkdirInv, OnlyOwnRemoved, Grouped, Live, ProcInv, Settled
  <2>6. ResultInv'
    BY ResultStays DEF Returning, Grouped
  <2> QED
    BY <2>1, <2>2, <2>3, <2>4, <2>5, <2>6
<1> QED
  BY <1>1, <1>2

LEMMA Invariance == Spec => []IInv
<1>1. IInv /\ [Next]_vars => IInv'
  <2> SUFFICES ASSUME IInv, [Next]_vars PROVE IInv'
    OBVIOUS
  <2>1. CASE UNCHANGED vars
    BY <2>1 DEF IInv, TypeOK, ProcInv, DrainInv, JoinInv, ResultInv, WorkdirInv, vars,
                caller, processes, clock, drains, workdir, Live, Eof, Grouped, Total,
                OutputIsWhole, BudgetIsShared, OnlyOwnRemoved
  <2>2. CASE Next
    BY <2>2, ProgramSteps, DrainSteps, ClockSteps, StepSteps, CallSteps, RemoveSteps
       DEF Next, CallerStep
  <2> QED
    BY <2>1, <2>2
<1> QED
  BY <1>1, Initially, PTL DEF Spec

----------------------------------------------------------------------------
(* The theorems.                                                           *)

\* Every buffer, count and result of _run_step and _execute_python is within
\* its bounds; in particular a drain never retains more than the cap and one byte.
THEOREM TypeCorrect == Spec => []TypeOK
<1>1. IInv => TypeOK
  BY DEF IInv
<1> QED
  BY <1>1, Invariance, PTL

\* A byte count in a result is what the step wrote, or None.
THEOREM ExactCounts == Spec => []CountsAreExact
<1>1. IInv => CountsAreExact
  <2> SUFFICES ASSUME IInv, NEW s \in Streams, result.bytes[s] # -1
               PROVE  result.bytes[s] = written[s]
    BY DEF CountsAreExact
  <2>1. drain[s] = "ended" /\ result.bytes[s] = seen[s]
    BY DEF IInv, ResultInv
  <2> QED
    BY <2>1 DEF IInv, DrainInv, TypeOK
<1> QED
  BY <1>1, Invariance, PTL

\* A successful result holds the whole output or says truncated, and says so
\* exactly when the step wrote more than the cap.
THEOREM WholeOutput == Spec => []OutputIsWhole
<1>1. IInv => OutputIsWhole
  BY DEF IInv, ResultInv, OutputIsWhole
<1> QED
  BY <1>1, Invariance, PTL

\* A successful result keeps within the cap and keeps the share of each stream.
THEOREM SharedBudget == Spec => []BudgetIsShared
<1>1. IInv => BudgetIsShared
  BY DEF IInv, ResultInv, BudgetIsShared
<1> QED
  BY <1>1, Invariance, PTL

\* Nothing of the process group survives a step of _run_step.
THEOREM GroupReaped == Spec => []GroupIsGone
<1>1. IInv => GroupIsGone
  BY DEF IInv, ProcInv, Settled, GroupIsGone
<1> QED
  BY <1>1, Invariance, PTL

\* The finally clause of _execute_python deletes only the directory it made.
THEOREM OwnWorkdirOnly == Spec => []OnlyOwnRemoved
<1>1. IInv => OnlyOwnRemoved
  BY DEF IInv, WorkdirInv
<1> QED
  BY <1>1, Invariance, PTL
=============================================================================
