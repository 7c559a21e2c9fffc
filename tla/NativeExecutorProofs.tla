------------------------ MODULE NativeExecutorProofs ------------------------
(***************************************************************************)
(* Proofs about NativeExecutor, for every timeout, clock rate, output cap  *)
(* and set of stream lengths.                                              *)
(***************************************************************************)
EXTENDS NativeExecutor, TLAPS

\* The deadline of the whole request, in ticks.
Due == Timeout * Ticks

\* Which processes there can be at each place of execute, and what the
\* termination handler finds there.
GroupInv ==
    /\ pc \in {"start", "scratch", "identify", "compare", "erase", "create", "source"} => leader = "none"
    /\ pc \in {"step", "check", "delete", "done", "terminated"} => leader \in {"none", "gone"}
    /\ pc = "spawn" => leader \in {"forked", "armed", "failed", "running", "ended"} /\ masked /\ handler
    /\ pc \in {"wait", "kill"} => leader \in {"running", "ended"}
    /\ pc \in {"reaped", "collect"} => leader = "gone"
    /\ pc = "killed" => leader \in {"forked", "none", "gone", "orphan"}
    /\ pc \in {"wait", "kill", "reaped", "collect"} => published /\ handler
    /\ kids => /\ pc \in {"spawn", "wait", "kill", "reaped", "killed"}
               /\ pc = "spawn" => leader \in {"running", "ended"}

\* A program runs only in its phase, and never where the filter was refused.
StartInv ==
    /\ pc \in {"step", "spawn", "wait", "kill", "reaped", "collect"} => phase # "none"
    /\ leader \in {"running", "ended"} => phase \in started
    /\ pc \in {"wait", "kill", "reaped", "collect"} => phase \in started
    /\ leader = "running" /\ req.noNet => host # "refused"

\* What is about to be removed is what was looked at, or was exchanged where
\* the executor does not see it; only a process outside the group still can.
FilesInv ==
    /\ pc \in {"identify", "compare", "erase"} => scratch # "tainted"
    /\ pc = "identify" => scratch = "plain" \/ "identify" \in raced
    /\ pc = "compare" => ident = "first" \/ "identify" \in raced
    /\ pc = "erase" => scratch = "plain" \/ "identify" \in raced \/ "erase" \in raced
    /\ pc = "delete" => path = "own" \/ ("delete" \in raced /\ stray)

\* The time that is left is what is left of the timeout, rounded up to a second.
TimeInv ==
    /\ pc \in {"start", "scratch", "identify", "compare", "erase", "create", "source"} =>
           clock = 0 /\ limit = Timeout
    /\ pc \in {"step", "spawn"} => clock + limit * Ticks >= Due /\ clock + limit * Ticks < Due + Ticks
    /\ pc \in {"wait", "kill"} => /\ begun + limit * Ticks >= Due /\ begun + limit * Ticks < Due + Ticks
                                  /\ clock <= begun + limit * Ticks
    /\ pc = "wait" /\ polled => clock < begun + limit * Ticks
    /\ pc = "kill" => clock >= begun + limit * Ticks
    /\ timedOut => clock >= Due
    /\ clock < Due + Ticks

\* Only where there is no filter does a program get through to the network.
NetInv == req.noNet /\ netOpen => host \in {"nothing", "shim"}

\* A result is true from the moment it is made.
ResultInv == pc \in {"check", "delete", "done"} => SaysTrue

\* Two parts of the type invariant.
Flags ==
    /\ kids \in BOOLEAN /\ stray \in BOOLEAN /\ netOpen \in BOOLEAN /\ polled \in BOOLEAN /\ timedOut \in BOOLEAN
    /\ published \in BOOLEAN /\ masked \in BOOLEAN /\ handler \in BOOLEAN
Numbers ==
    /\ clock \in Nat /\ begun \in 0 .. clock /\ limit \in 0 .. Timeout
    /\ out \in 0 .. Fsize /\ err \in 0 .. Fsize

IInv ==
    /\ TypeOK /\ GroupInv /\ StartInv /\ FilesInv
    /\ TimeInv /\ NetInv /\ ResultInv

----------------------------------------------------------------------------
(* Arithmetic: the time that is left, and the output budget.               *)

LEMMA Constants ==
    /\ Timeout \in Nat /\ Timeout >= 1 /\ Ticks \in Nat /\ Ticks >= 1 /\ Cap \in Nat /\ Cap >= 1
    /\ Sizes \subseteq Nat /\ Due \in Nat /\ Fsize \in Nat /\ Due >= 1
    /\ (Timeout + 1) * Ticks = Due + Ticks
BY NativeExecutorAssumption DEF Due, Fsize

LEMMA Products ==
    /\ \A n \in Nat : n * Ticks \in Nat
    /\ \A n \in Nat : n > Timeout => n * Ticks >= Due + Ticks
<1>1. Ticks \in Nat /\ Timeout \in Nat
  BY Constants
<1>2. ASSUME NEW n \in Nat, n > Timeout  PROVE n * Ticks >= Due + Ticks
  <2>1. PICK k \in Nat : n = Timeout + 1 + k
    <3>1. n - Timeout - 1 \in Nat  BY <1>1, <1>2
    <3>2. n = Timeout + 1 + (n - Timeout - 1)  BY <1>1
    <3>3. QED  BY <3>1, <3>2
  <2>2. n * Ticks = (Timeout + 1) * Ticks + k * Ticks
    BY <1>1, <2>1
  <2>3. k * Ticks \in Nat  BY <1>1
  <2>4. QED  BY <2>2, <2>3, Constants
<1>3. QED  BY <1>1, <1>2

\* remaining_run_timeout_secs is what is left, rounded up to whole seconds.
LEMMA RemainingRoundsUp ==
    ASSUME NEW elapsed \in Nat, elapsed < Due
    PROVE  /\ Remaining(elapsed) \in 0 .. Timeout
           /\ elapsed + Remaining(elapsed) * Ticks >= Due
           /\ elapsed + Remaining(elapsed) * Ticks < Due + Ticks
<1> DEFINE a == Due - elapsed + Ticks - 1
<1> DEFINE r == a \div Ticks
<1>1. a \in Nat /\ Ticks \in Nat /\ Ticks >= 1 /\ Due \in Nat /\ Timeout \in Nat
  BY Constants
<1>2. Remaining(elapsed) = r
  BY DEF Remaining, Due
<1> HIDE DEF a
<1>3. r \in Nat /\ a = Ticks * r + (a % Ticks) /\ a % Ticks \in 0 .. Ticks - 1
  BY <1>1
<1>4. Ticks * r = r * Ticks /\ r * Ticks \in Nat
  BY <1>1, <1>3
<1> HIDE DEF r
<1>5. elapsed + r * Ticks >= Due /\ elapsed + r * Ticks < Due + Ticks
  BY <1>1, <1>3, <1>4 DEF a
<1>6. r <= Timeout
  BY <1>1, <1>3, <1>4, <1>5, Products
<1>7. QED  BY <1>1, <1>2, <1>3, <1>5, <1>6

\* One byte more than the cap of each stream is enough to tell whether the two
\* are too long together, and less is never too much.
LEMMA CapturedAlike ==
    ASSUME NEW a \in Nat, NEW b \in Nat, NEW unread \in BOOLEAN,
           NEW o \in Captured(a, unread), NEW e \in Captured(b, unread)
    PROVE  /\ Truncated(Cap, o, e) => a + b > Cap
           /\ ~unread => (Truncated(Cap, o, e) <=> a + b > Cap)
BY Constants DEF Captured, Truncated, Retained, Least

----------------------------------------------------------------------------
(* The seccomp filter.                                                     *)

LEMMA Instructions ==
    /\ Len(Filter) = 16
    /\ Filter[1] = Load("arch") /\ Filter[2] = Equal("native", 0, 13)
    /\ Filter[3] = Load("nr") /\ Filter[4] = Equal("x32", 11, 0)
    /\ Filter[5] = Equal("io_uring_setup", 7, 0) /\ Filter[6] = Equal("io_uring_enter", 6, 0)
    /\ Filter[7] = Equal("io_uring_register", 5, 0) /\ Filter[8] = Equal("socket", 0, 6)
    /\ Filter[9] = Load("domain") /\ Filter[10] = Equal("inet", 3, 0)
    /\ Filter[11] = Equal("inet6", 2, 0) /\ Filter[12] = Return("allow")
    /\ Filter[13] = Return("enosys") /\ Filter[14] = Return("eacces")
    /\ Filter[15] = Return("allow") /\ Filter[16] = Return("kill")
BY DEF Filter, FilterWith

\* The answer from instruction i on, with a in the accumulator, written out.
Family(domain) == IF domain \in {"inet", "inet6"} THEN "eacces" ELSE "allow"
SocketOr(nr, domain) == IF nr = "socket" THEN Family(domain) ELSE "allow"
Known(nr, domain) ==
    IF nr \in {"io_uring_setup", "io_uring_enter", "io_uring_register"} THEN "enosys"
    ELSE SocketOr(nr, domain)
Native(nr, domain) == IF nr = "x32" THEN "kill" ELSE Known(nr, domain)
From(call, i, a) ==
    << IF call.arch = "native" THEN Native(call.nr, call.domain) ELSE "kill",
       IF a = "native" THEN Native(call.nr, call.domain) ELSE "kill",
       Native(call.nr, call.domain),
       Native(a, call.domain),
       Known(a, call.domain),
       IF a \in {"io_uring_enter", "io_uring_register"} THEN "enosys" ELSE SocketOr(a, call.domain),
       IF a = "io_uring_register" THEN "enosys" ELSE SocketOr(a, call.domain),
       SocketOr(a, call.domain),
       Family(call.domain),
       Family(a),
       IF a = "inet6" THEN "eacces" ELSE "allow",
       "allow", "enosys", "eacces", "allow", "kill" >>[i]

Values(call) == {"none", call.arch, call.nr, call.domain}

\* One instruction: the answer from i on follows from those further down.
LEMMA OneInstruction ==
    ASSUME NEW call, NEW i \in 1 .. 16, NEW a \in Values(call)
    PROVE  From(call, i, a) =
               IF Filter[i].op = "ret" THEN Filter[i].k
               ELSE IF Filter[i].op = "ld" THEN From(call, i + 1, call[Filter[i].k])
               ELSE From(call, i + 1 + (IF a = Filter[i].k THEN Filter[i].jt ELSE Filter[i].jf), a)
<1>1. i \in 1 .. 16
  OBVIOUS
<1>2. call["arch"] = call.arch /\ call["nr"] = call.nr /\ call["domain"] = call.domain
  OBVIOUS
<1>3. CASE i = 1
  BY <1>1, <1>2, <1>3, Instructions DEF From, Load, Equal, Return, Ins, Native, Known, SocketOr,
     Family
<1>4. CASE i = 2
  BY <1>1, <1>2, <1>4, Instructions DEF From, Load, Equal, Return, Ins, Native, Known, SocketOr,
     Family
<1>5. CASE i = 3
  BY <1>1, <1>2, <1>5, Instructions DEF From, Load, Equal, Return, Ins, Native, Known, SocketOr,
     Family
<1>6. CASE i = 4
  BY <1>1, <1>2, <1>6, Instructions DEF From, Load, Equal, Return, Ins, Native, Known, SocketOr,
     Family
<1>7. CASE i = 5
  BY <1>1, <1>2, <1>7, Instructions DEF From, Load, Equal, Return, Ins, Native, Known, SocketOr,
     Family
<1>8. CASE i = 6
  BY <1>1, <1>2, <1>8, Instructions DEF From, Load, Equal, Return, Ins, Native, Known, SocketOr,
     Family
<1>9. CASE i = 7
  BY <1>1, <1>2, <1>9, Instructions DEF From, Load, Equal, Return, Ins, Native, Known, SocketOr,
     Family
<1>10. CASE i = 8
  BY <1>1, <1>2, <1>10, Instructions DEF From, Load, Equal, Return, Ins, Native, Known, SocketOr,
     Family
<1>11. CASE i = 9
  BY <1>1, <1>2, <1>11, Instructions DEF From, Load, Equal, Return, Ins, Native, Known, SocketOr,
     Family
<1>12. CASE i = 10
  BY <1>1, <1>2, <1>12, Instructions DEF From, Load, Equal, Return, Ins, Native, Known, SocketOr,
     Family
<1>13. CASE i = 11
  BY <1>1, <1>2, <1>13, Instructions DEF From, Load, Equal, Return, Ins, Native, Known, SocketOr,
     Family
<1>14. CASE i = 12
  BY <1>1, <1>2, <1>14, Instructions DEF From, Load, Equal, Return, Ins, Native, Known, SocketOr,
     Family
<1>15. CASE i = 13
  BY <1>1, <1>2, <1>15, Instructions DEF From, Load, Equal, Return, Ins, Native, Known, SocketOr,
     Family
<1>16. CASE i = 14
  BY <1>1, <1>2, <1>16, Instructions DEF From, Load, Equal, Return, Ins, Native, Known, SocketOr,
     Family
<1>17. CASE i = 15
  BY <1>1, <1>2, <1>17, Instructions DEF From, Load, Equal, Return, Ins, Native, Known, SocketOr,
     Family
<1>18. CASE i = 16
  BY <1>1, <1>2, <1>18, Instructions DEF From, Load, Equal, Return, Ins, Native, Known, SocketOr,
     Family
<1>19. QED  BY <1>1, <1>3, <1>4, <1>5, <1>6, <1>7, <1>8, <1>9, <1>10, <1>11, <1>12, <1>13, <1>14,
               <1>15, <1>16, <1>17, <1>18

\* Every jump goes forward and stays inside the program.
LEMMA JumpsForward ==
    ASSUME NEW call, NEW i \in 1 .. 16, NEW a \in Values(call), Filter[i].op # "ret"
    PROVE  /\ i + 1 \in i + 1 .. 16
           /\ Filter[i].op = "ld" => call[Filter[i].k] \in Values(call)
           /\ i + 1 + (IF a = Filter[i].k THEN Filter[i].jt ELSE Filter[i].jf) \in i + 1 .. 16
<1>1. call["arch"] = call.arch /\ call["nr"] = call.nr /\ call["domain"] = call.domain
  OBVIOUS
<1>2. QED  BY <1>1, Instructions DEF Load, Equal, Return, Ins, Values

\* What the interpreter answers is what is written out.
LEMMA Interpreted ==
    ASSUME NEW call
    PROVE  Answer(call) = From(call, 1, "none")
<1> DEFINE values == Values(call)
<1> DEFINE body(f) ==
      [i \in 1 .. Len(Filter) |-> [a \in values |->
            IF Filter[i].op = "ret" THEN Filter[i].k
            ELSE IF Filter[i].op = "ld" THEN f[i + 1][call[Filter[i].k]]
            ELSE f[i + 1 + (IF a = Filter[i].k THEN Filter[i].jt ELSE Filter[i].jf)][a]]]
<1> DEFINE at == CHOOSE f : f = body(f)
<1> DEFINE written == [i \in 1 .. 16 |-> [a \in values |-> From(call, i, a)]]
<1>1. Answer(call) = at[1]["none"]
  BY DEF Answer, Values
<1>2. Len(Filter) = 16
  BY Instructions
<1> HIDE DEF values
<1>3. \A f, i, a : i \in 1 .. 16 /\ a \in values => body(f)[i][a] =
          IF Filter[i].op = "ret" THEN Filter[i].k
          ELSE IF Filter[i].op = "ld" THEN f[i + 1][call[Filter[i].k]]
          ELSE f[i + 1 + (IF a = Filter[i].k THEN Filter[i].jt ELSE Filter[i].jf)][a]
  BY <1>2
<1>4. \A i \in 1 .. 16, a \in values : written[i][a] = From(call, i, a)
  OBVIOUS
<1>5. written = body(written)
  <2>1. ASSUME NEW i \in 1 .. 16  PROVE written[i] = body(written)[i]
    <3>1. ASSUME NEW a \in values  PROVE written[i][a] = body(written)[i][a]
      <4> HIDE DEF written, body
      <4>1. From(call, i, a) =
               IF Filter[i].op = "ret" THEN Filter[i].k
               ELSE IF Filter[i].op = "ld" THEN From(call, i + 1, call[Filter[i].k])
               ELSE From(call, i + 1 + (IF a = Filter[i].k THEN Filter[i].jt ELSE Filter[i].jf), a)
        BY OneInstruction DEF values
      <4>2. Filter[i].op # "ret" =>
               /\ i + 1 \in i + 1 .. 16
               /\ Filter[i].op = "ld" => call[Filter[i].k] \in values
               /\ i + 1 + (IF a = Filter[i].k THEN Filter[i].jt ELSE Filter[i].jf) \in i + 1 .. 16
        BY JumpsForward DEF values
      <4>3. \A j \in i + 1 .. 16 : j \in 1 .. 16  OBVIOUS
      <4>4. written[i][a] = From(call, i, a)  BY <1>4
      <4>5. body(written)[i][a] =
               IF Filter[i].op = "ret" THEN Filter[i].k
               ELSE IF Filter[i].op = "ld" THEN written[i + 1][call[Filter[i].k]]
               ELSE written[i + 1 + (IF a = Filter[i].k THEN Filter[i].jt ELSE Filter[i].jf)][a]
        BY <1>3
      <4>6. CASE Filter[i].op = "ret"
        BY <4>1, <4>4, <4>5, <4>6
      <4>7. CASE Filter[i].op = "ld"
        <5>1. written[i + 1][call[Filter[i].k]] = From(call, i + 1, call[Filter[i].k])
          BY <1>4, <4>2, <4>3, <4>7
        <5>2. QED  BY <4>1, <4>4, <4>5, <4>7, <5>1
      <4>8. CASE Filter[i].op \notin {"ret", "ld"}
        <5> DEFINE j == i + 1 + (IF a = Filter[i].k THEN Filter[i].jt ELSE Filter[i].jf)
        <5>1. j \in i + 1 .. 16  BY <4>2, <4>8
        <5>2. body(written)[i][a] = written[j][a] /\ From(call, i, a) = From(call, j, a)
          BY <4>1, <4>5, <4>8
        <5> HIDE DEF j
        <5>3. QED  BY <1>4, <4>3, <4>4, <5>1, <5>2
      <4>9. QED  BY <4>6, <4>7, <4>8
    <3>2. /\ written[i] = [a \in values |-> written[i][a]]
          /\ body(written)[i] = [a \in values |-> body(written)[i][a]]
      <4>1. written[i] = [a \in values |-> written[i][a]]
        OBVIOUS
      <4>2. ASSUME NEW f  PROVE body(f)[i] = [a \in values |-> body(f)[i][a]]
        BY <1>2
      <4> HIDE DEF written, body
      <4>3. QED  BY <4>1, <4>2
    <3> HIDE DEF written, body
    <3>3. QED  BY <3>1, <3>2
  <2>2. /\ written = [i \in 1 .. 16 |-> written[i]]
        /\ body(written) = [i \in 1 .. 16 |-> body(written)[i]]
    BY <1>2
  <2> HIDE DEF written, body
  <2>3. QED  BY <2>1, <2>2
<1> HIDE DEF body, written
<1>6. at = body(at)
  BY <1>5
<1> HIDE DEF at
<1> DEFINE Done(n) == \A i \in n .. 16, a \in values : at[i][a] = From(call, i, a)
<1>7. ASSUME NEW n \in 1 .. 16, NEW m \in 1 .. 17, m = n + 1, Done(m)  PROVE Done(n)
  <2>1. SUFFICES ASSUME NEW a \in values  PROVE at[n][a] = From(call, n, a)
    <3>1. \A i \in n .. 16 : i = n \/ i \in n + 1 .. 16  OBVIOUS
    <3>2. QED  BY <1>7, <3>1
  <2>2. From(call, n, a) =
               IF Filter[n].op = "ret" THEN Filter[n].k
               ELSE IF Filter[n].op = "ld" THEN From(call, n + 1, call[Filter[n].k])
               ELSE From(call, n + 1 + (IF a = Filter[n].k THEN Filter[n].jt ELSE Filter[n].jf), a)
    BY OneInstruction DEF values
  <2>3. Filter[n].op # "ret" =>
               /\ n + 1 \in n + 1 .. 16
               /\ Filter[n].op = "ld" => call[Filter[n].k] \in values
               /\ n + 1 + (IF a = Filter[n].k THEN Filter[n].jt ELSE Filter[n].jf) \in n + 1 .. 16
    BY JumpsForward DEF values
  <2>4. at[n][a] =
          IF Filter[n].op = "ret" THEN Filter[n].k
          ELSE IF Filter[n].op = "ld" THEN at[n + 1][call[Filter[n].k]]
          ELSE at[n + 1 + (IF a = Filter[n].k THEN Filter[n].jt ELSE Filter[n].jf)][a]
    BY <1>3, <1>6
  <2>5. QED  BY <1>7, <2>2, <2>3, <2>4
<1>8. Done(17)
  OBVIOUS
<1> DEFINE Holds == {n \in 1 .. 17 : Done(n)}
<1>9. 17 \in Holds
  BY <1>8
<1>10. \A m \in Holds : m > 1 => m - 1 \in Holds
  <2>1. SUFFICES ASSUME NEW m \in Holds, m > 1  PROVE m - 1 \in Holds
    OBVIOUS
  <2> HIDE DEF Done
  <2>2. Done(m) /\ m \in 1 .. 17 /\ m - 1 \in 1 .. 16 /\ m = m - 1 + 1  BY <2>1
  <2>3. Done(m - 1)  BY <1>7, <2>2, Zenon
  <2>4. QED  BY <2>2, <2>3
<1> HIDE DEF Holds, Done
<1>11. 15 \in Holds  BY <1>10, <1>9
<1>12. 13 \in Holds  BY <1>10, <1>11
<1>13. 11 \in Holds  BY <1>10, <1>12
<1>14. 9 \in Holds  BY <1>10, <1>13
<1>15. 7 \in Holds  BY <1>10, <1>14
<1>16. 5 \in Holds  BY <1>10, <1>15
<1>17. 3 \in Holds  BY <1>10, <1>16
<1>18. 1 \in Holds  BY <1>10, <1>17
<1>19. QED  BY <1>1, <1>18 DEF Holds, Done, values, Values

\* The seccomp filter of executor/src/platform/unix.rs, interpreted from its
\* first instruction, allows no system call through which a program could
\* reach the network.
THEOREM FilterHolds ==
    ASSUME NEW call \in SystemCalls, Reaches(call)
    PROVE  Answer(call) # "allow"
BY Interpreted DEF From, Native, Known, SocketOr, Family, SystemCalls, Reaches

LEMMA ChooseWorkKeeps == ASSUME IInv, ChooseWork  PROVE IInv'
<1>1. TypeOK'
  BY DEF IInv, TypeOK, ChooseWork, process, signals, time
<1>2. GroupInv'
  BY DEF IInv, GroupInv, ChooseWork, process
<1>3. StartInv'
  BY DEF IInv, StartInv, ChooseWork, process
<1>4. FilesInv'
  BY DEF IInv, FilesInv, ChooseWork, files
<1>5. TimeInv'
  BY DEF IInv, TimeInv, ChooseWork, time
<1>6. NetInv'
  BY DEF IInv, NetInv, ChooseWork, process
<1>7. ResultInv'
  BY DEF IInv, ResultInv, SaysTrue, ChooseWork, Refusal, NoResult, process, time
<1>8. QED  BY <1>1, <1>2, <1>3, <1>4, <1>5, <1>6, <1>7 DEF IInv

LEMMA ScanScratchKeeps == ASSUME IInv, ScanScratch  PROVE IInv'
<1>1. TypeOK'
  <2>1. Flags'
    BY DEF Flags, IInv, TypeOK, ScanScratch, Leave, Finish, process, signals, time, files
  <2>2. Numbers'
    BY DEF Numbers, IInv, TypeOK, ScanScratch, Leave, Finish, process, time
  <2>3. QED
    BY <2>1, <2>2 DEF Flags, Numbers, IInv, TypeOK, ScanScratch, Leave, Finish, Refusal,
       process, signals, files
<1>2. GroupInv'
  BY DEF IInv, GroupInv, ScanScratch, Leave, Finish, process, signals
<1>3. StartInv'
  BY DEF IInv, StartInv, ScanScratch, Leave, Finish, process
<1>4. FilesInv'
  BY DEF IInv, FilesInv, GroupInv, ScanScratch, Untainted, Leave, Finish, files
<1>5. TimeInv'
  BY DEF IInv, TimeInv, ScanScratch, Leave, Finish, time
<1>6. NetInv'
  BY DEF IInv, NetInv, ScanScratch, Leave, Finish, process
<1>7. ResultInv'
  BY DEF IInv, ResultInv, SaysTrue, ScanScratch, Leave, Finish, Refusal, NoResult, process, time
<1>8. QED  BY <1>1, <1>2, <1>3, <1>4, <1>5, <1>6, <1>7 DEF IInv

LEMMA IdentifyScratchKeeps == ASSUME IInv, IdentifyScratch  PROVE IInv'
<1>1. TypeOK'
  BY DEF IInv, TypeOK, IdentifyScratch, Identity, process, signals, time, files
<1>2. GroupInv'
  BY DEF IInv, GroupInv, IdentifyScratch, process, signals
<1>3. StartInv'
  BY DEF IInv, StartInv, IdentifyScratch, process
<1>4. FilesInv'
  BY DEF IInv, FilesInv, GroupInv, IdentifyScratch, Identity, files
<1>5. TimeInv'
  BY DEF IInv, TimeInv, IdentifyScratch, time
<1>6. NetInv'
  BY DEF IInv, NetInv, IdentifyScratch, process
<1>7. ResultInv'
  BY DEF IInv, ResultInv, SaysTrue, IdentifyScratch, process, time
<1>8. QED  BY <1>1, <1>2, <1>3, <1>4, <1>5, <1>6, <1>7 DEF IInv

LEMMA CompareScratchKeeps == ASSUME IInv, CompareScratch  PROVE IInv'
<1>1. TypeOK'
  <2>1. Flags'
    BY DEF Flags, IInv, TypeOK, CompareScratch, Leave, Finish, process, signals, time, files
  <2>2. Numbers'
    BY DEF Numbers, IInv, TypeOK, CompareScratch, Leave, Finish, process, time
  <2>3. QED
    BY <2>1, <2>2 DEF Flags, Numbers, IInv, TypeOK, CompareScratch, Leave, Finish, Refusal,
       process, signals, files
<1>2. GroupInv'
  BY DEF IInv, GroupInv, CompareScratch, Leave, Finish, process, signals
<1>3. StartInv'
  BY DEF IInv, StartInv, CompareScratch, Leave, Finish, process
<1>4. FilesInv'
  BY DEF IInv, FilesInv, GroupInv, CompareScratch, Leave, Finish, Identity, files
<1>5. TimeInv'
  BY DEF IInv, TimeInv, CompareScratch, Leave, Finish, time
<1>6. NetInv'
  BY DEF IInv, NetInv, CompareScratch, Leave, Finish, process
<1>7. ResultInv'
  BY DEF IInv, ResultInv, SaysTrue, CompareScratch, Leave, Finish, Refusal, NoResult, process, time
<1>8. QED  BY <1>1, <1>2, <1>3, <1>4, <1>5, <1>6, <1>7 DEF IInv

LEMMA EraseScratchKeeps == ASSUME IInv, EraseScratch  PROVE IInv'
<1>1. TypeOK'
  <2>1. Flags'
    BY DEF Flags, IInv, TypeOK, EraseScratch, Leave, Finish, process, signals, time, files
  <2>2. Numbers'
    BY DEF Numbers, IInv, TypeOK, EraseScratch, Leave, Finish, process, time
  <2>3. QED
    BY <2>1, <2>2 DEF Flags, Numbers, IInv, TypeOK, EraseScratch, Leave, Finish, Refusal,
       process, signals, files
<1>2. GroupInv'
  BY DEF IInv, GroupInv, EraseScratch, Leave, Finish, process, signals
<1>3. StartInv'
  BY DEF IInv, StartInv, EraseScratch, Leave, Finish, process
<1>4. FilesInv'
  BY DEF IInv, FilesInv, GroupInv, EraseScratch, Leave, Finish, files
<1>5. TimeInv'
  BY DEF IInv, TimeInv, EraseScratch, Leave, Finish, time
<1>6. NetInv'
  BY DEF IInv, NetInv, EraseScratch, Leave, Finish, process
<1>7. ResultInv'
  BY DEF IInv, ResultInv, SaysTrue, EraseScratch, Leave, Finish, Refusal, NoResult, process, time
<1>8. QED  BY <1>1, <1>2, <1>3, <1>4, <1>5, <1>6, <1>7 DEF IInv

LEMMA CreateScratchKeeps == ASSUME IInv, CreateScratch  PROVE IInv'
<1>1. TypeOK'
  <2>1. Flags'
    BY DEF Flags, IInv, TypeOK, CreateScratch, Leave, Finish, process, signals, time, files
  <2>2. Numbers'
    BY DEF Numbers, IInv, TypeOK, CreateScratch, Leave, Finish, process, time
  <2>3. QED
    BY <2>1, <2>2 DEF Flags, Numbers, IInv, TypeOK, CreateScratch, Leave, Finish, Refusal,
       process, signals, files
<1>2. GroupInv'
  BY DEF IInv, GroupInv, CreateScratch, Leave, Finish, process, signals
<1>3. StartInv'
  BY DEF IInv, StartInv, CreateScratch, Leave, Finish, process
<1>4. FilesInv'
  BY DEF IInv, FilesInv, GroupInv, CreateScratch, Leave, Finish, files
<1>5. TimeInv'
  BY DEF IInv, TimeInv, CreateScratch, Leave, Finish, time
<1>6. NetInv'
  BY DEF IInv, NetInv, CreateScratch, Leave, Finish, process
<1>7. ResultInv'
  BY DEF IInv, ResultInv, SaysTrue, CreateScratch, Leave, Finish, Refusal, NoResult, process, time
<1>8. QED  BY <1>1, <1>2, <1>3, <1>4, <1>5, <1>6, <1>7 DEF IInv

LEMMA ExchangeKeeps == ASSUME IInv, NEW with \in {"absent", "other", "swapped"}, Exchange(with)  PROVE IInv'
<1>1. TypeOK'
  BY DEF IInv, TypeOK, Exchange, process, signals, time, files
<1>2. GroupInv'
  BY DEF IInv, GroupInv, Exchange, process, signals
<1>3. StartInv'
  BY DEF IInv, StartInv, Exchange, process
<1>4. FilesInv'
  BY DEF IInv, FilesInv, GroupInv, Exchange, files
<1>5. TimeInv'
  BY DEF IInv, TimeInv, Exchange, time
<1>6. NetInv'
  BY DEF IInv, NetInv, Exchange, process
<1>7. ResultInv'
  BY DEF IInv, ResultInv, SaysTrue, Exchange, process, time
<1>8. QED  BY <1>1, <1>2, <1>3, <1>4, <1>5, <1>6, <1>7 DEF IInv

LEMMA CheckOwnKeeps == ASSUME IInv, CheckOwn  PROVE IInv'
<1>1. TypeOK'
  BY DEF IInv, TypeOK, CheckOwn, process, signals, time, files
<1>2. GroupInv'
  BY DEF IInv, GroupInv, CheckOwn, process, signals
<1>3. StartInv'
  BY DEF IInv, StartInv, CheckOwn, process
<1>4. FilesInv'
  BY DEF IInv, FilesInv, GroupInv, CheckOwn, files
<1>5. TimeInv'
  BY DEF IInv, TimeInv, CheckOwn, time
<1>6. NetInv'
  BY DEF IInv, NetInv, CheckOwn, process
<1>7. ResultInv'
  BY DEF IInv, ResultInv, SaysTrue, CheckOwn, process, time
<1>8. QED  BY <1>1, <1>2, <1>3, <1>4, <1>5, <1>6, <1>7 DEF IInv

LEMMA DeleteOwnKeeps == ASSUME IInv, DeleteOwn  PROVE IInv'
<1>1. TypeOK'
  BY DEF IInv, TypeOK, DeleteOwn, process, signals, time, files
<1>2. GroupInv'
  BY DEF IInv, GroupInv, DeleteOwn, process, signals
<1>3. StartInv'
  BY DEF IInv, StartInv, DeleteOwn, process
<1>4. FilesInv'
  BY DEF IInv, FilesInv, GroupInv, DeleteOwn, files
<1>5. TimeInv'
  BY DEF IInv, TimeInv, DeleteOwn, time
<1>6. NetInv'
  BY DEF IInv, NetInv, DeleteOwn, process
<1>7. ResultInv'
  BY DEF IInv, ResultInv, SaysTrue, DeleteOwn, process, time
<1>8. QED  BY <1>1, <1>2, <1>3, <1>4, <1>5, <1>6, <1>7 DEF IInv

LEMMA LeaveGroupKeeps == ASSUME IInv, LeaveGroup  PROVE IInv'
<1>1. TypeOK'
  BY DEF IInv, TypeOK, LeaveGroup, process, signals, time, files
<1>2. GroupInv'
  BY DEF IInv, GroupInv, LeaveGroup, process, signals
<1>3. StartInv'
  BY DEF IInv, StartInv, LeaveGroup, process
<1>4. FilesInv'
  BY DEF IInv, FilesInv, GroupInv, LeaveGroup, files
<1>5. TimeInv'
  BY DEF IInv, TimeInv, LeaveGroup, time
<1>6. NetInv'
  BY DEF IInv, NetInv, LeaveGroup, process
<1>7. ResultInv'
  BY DEF IInv, ResultInv, SaysTrue, LeaveGroup, process, time
<1>8. QED  BY <1>1, <1>2, <1>3, <1>4, <1>5, <1>6, <1>7 DEF IInv

LEMMA WriteSourceKeeps == ASSUME IInv, WriteSource  PROVE IInv'
<1>1. TypeOK'
  BY DEF IInv, TypeOK, WriteSource, Leave, Finish, Refusal, process, signals, time, files
<1>2. GroupInv'
  BY DEF IInv, GroupInv, WriteSource, Leave, Finish, process
<1>3. StartInv'
  BY DEF IInv, StartInv, GroupInv, WriteSource, Leave, Finish, process
<1>4. FilesInv'
  BY DEF IInv, FilesInv, WriteSource, Leave, Finish, files
<1>5. TimeInv'
  BY Constants DEF IInv, TimeInv, WriteSource, Leave, Finish, time
<1>6. NetInv'
  BY DEF IInv, NetInv, WriteSource, Leave, Finish, process
<1>7. ResultInv'
  BY DEF IInv, ResultInv, SaysTrue, WriteSource, Leave, Finish, Refusal, NoResult, process, time
<1>8. QED  BY <1>1, <1>2, <1>3, <1>4, <1>5, <1>6, <1>7 DEF IInv

LEMMA SpawnKeeps == ASSUME IInv, Spawn  PROVE IInv'
<1>1. TypeOK'
  <2>1. Flags'
    BY DEF Flags, IInv, TypeOK, Spawn, Leave, Finish, BlockSignals, process, signals, time, files
  <2>2. Numbers'
    BY Constants DEF Numbers, IInv, TypeOK, Spawn, Leave, Finish, process, time
  <2>3. QED
    BY <2>1, <2>2 DEF Flags, Numbers, IInv, TypeOK, Spawn, Leave, Finish, Failed, process,
       signals, files
<1>2. GroupInv'
  BY DEF IInv, GroupInv, Spawn, Leave, Finish, BlockSignals, process
<1>3. StartInv'
  BY DEF IInv, StartInv, Spawn, Leave, Finish, process
<1>4. FilesInv'
  BY DEF IInv, FilesInv, Spawn, Leave, Finish, files
<1>5. TimeInv'
  BY DEF IInv, TimeInv, Spawn, Leave, Finish, time
<1>6. NetInv'
  BY DEF IInv, NetInv, Spawn, Leave, Finish, process
<1>7. ResultInv'
  BY DEF IInv, ResultInv, SaysTrue, Spawn, Leave, Finish, Failed, NoResult, process, time
<1>8. QED  BY <1>1, <1>2, <1>3, <1>4, <1>5, <1>6, <1>7 DEF IInv

LEMMA ArmKeeps == ASSUME IInv, Arm  PROVE IInv'
<1>1. TypeOK'
  BY DEF IInv, TypeOK, Arm, signals, time, files
<1>2. GroupInv'
  BY DEF IInv, GroupInv, Arm, signals
<1>3. StartInv'
  BY DEF IInv, StartInv, Arm
<1>4. FilesInv'
  BY DEF IInv, FilesInv, Arm, files
<1>5. TimeInv'
  BY DEF IInv, TimeInv, Arm, time
<1>6. NetInv'
  BY DEF IInv, NetInv, Arm
<1>7. ResultInv'
  BY DEF IInv, ResultInv, SaysTrue, Arm, time, process
<1>8. QED  BY <1>1, <1>2, <1>3, <1>4, <1>5, <1>6, <1>7 DEF IInv

LEMMA ExecKeeps == ASSUME IInv, Exec  PROVE IInv'
<1>1. TypeOK'
  <2>1. Flags' /\ Numbers'
    BY DEF IInv, TypeOK, Exec, Flags, Numbers, signals, time, files
  <2>2. started' \subseteq {"compile", "run"}
    BY DEF IInv, TypeOK, GroupInv, StartInv, Exec
  <2>3. QED  BY <2>1, <2>2 DEF IInv, TypeOK, Flags, Numbers, Exec, signals, files
<1>2. GroupInv'
  BY DEF IInv, GroupInv, Exec, signals
<1>3. StartInv'
  BY DEF IInv, StartInv, Exec
<1>4. FilesInv'
  BY DEF IInv, FilesInv, Exec, files
<1>5. TimeInv'
  BY DEF IInv, TimeInv, Exec, time
<1>6. NetInv'
  BY DEF IInv, NetInv, Exec
<1>7. ResultInv'
  BY DEF IInv, ResultInv, SaysTrue, Exec, time, process
<1>8. QED  BY <1>1, <1>2, <1>3, <1>4, <1>5, <1>6, <1>7 DEF IInv

LEMMA SpawnReturnsKeeps == ASSUME IInv, SpawnReturns  PROVE IInv'
<1>1. TypeOK'
  <2>1. Flags'
    BY DEF Flags, IInv, TypeOK, SpawnReturns, Finish, files
  <2>2. Numbers'
    BY DEF Numbers, IInv, TypeOK, SpawnReturns, Finish
  <2>3. QED
    BY <2>1, <2>2 DEF Flags, Numbers, IInv, TypeOK, SpawnReturns, Finish, Failed, files
<1>2. GroupInv'
  BY DEF IInv, GroupInv, SpawnReturns, Finish
<1>3. StartInv'
  BY DEF IInv, StartInv, SpawnReturns, Finish
<1>4. FilesInv'
  BY DEF IInv, FilesInv, SpawnReturns, Finish, files
<1>5. TimeInv'
  BY Constants DEF IInv, TimeInv, SpawnReturns, Finish, TypeOK
<1>6. NetInv'
  BY DEF IInv, NetInv, SpawnReturns, Finish
<1>7. ResultInv'
  BY DEF IInv, ResultInv, SaysTrue, SpawnReturns, Finish, Failed, NoResult, process, time
<1>8. QED  BY <1>1, <1>2, <1>3, <1>4, <1>5, <1>6, <1>7 DEF IInv

LEMMA EndKeeps == ASSUME IInv, NEW how \in {"zero", "nonzero", "signal", "oom"}, End(how)  PROVE IInv'
<1>1. TypeOK'
  BY DEF IInv, TypeOK, End, signals, time, files
<1>2. GroupInv'
  BY DEF IInv, GroupInv, End, signals
<1>3. StartInv'
  BY DEF IInv, StartInv, End
<1>4. FilesInv'
  BY DEF IInv, FilesInv, End, files
<1>5. TimeInv'
  BY DEF IInv, TimeInv, End, time
<1>6. NetInv'
  BY DEF IInv, NetInv, End
<1>7. ResultInv'
  BY DEF IInv, ResultInv, SaysTrue, GroupInv, End, process, time
<1>8. QED  BY <1>1, <1>2, <1>3, <1>4, <1>5, <1>6, <1>7 DEF IInv

LEMMA ForkKidKeeps == ASSUME IInv, ForkKid  PROVE IInv'
<1>1. TypeOK'
  BY DEF IInv, TypeOK, ForkKid, signals, time, files
<1>2. GroupInv'
  BY DEF IInv, GroupInv, ForkKid, TypeOK, signals
<1>3. StartInv'
  BY DEF IInv, StartInv, ForkKid
<1>4. FilesInv'
  BY DEF IInv, FilesInv, ForkKid, files
<1>5. TimeInv'
  BY DEF IInv, TimeInv, ForkKid, time
<1>6. NetInv'
  BY DEF IInv, NetInv, ForkKid
<1>7. ResultInv'
  BY DEF IInv, ResultInv, SaysTrue, ForkKid, time, process
<1>8. QED  BY <1>1, <1>2, <1>3, <1>4, <1>5, <1>6, <1>7 DEF IInv

LEMMA WriteKeeps == ASSUME IInv, NEW o \in Sizes, NEW e \in Sizes, Write(o, e)  PROVE IInv'
<1>1. TypeOK'
  BY Constants DEF IInv, TypeOK, Write, Least, signals, time, files
<1>2. GroupInv'
  BY DEF IInv, GroupInv, Write, signals
<1>3. StartInv'
  BY DEF IInv, StartInv, Write
<1>4. FilesInv'
  BY DEF IInv, FilesInv, Write, files
<1>5. TimeInv'
  BY DEF IInv, TimeInv, Write, time
<1>6. NetInv'
  BY DEF IInv, NetInv, Write
<1>7. ResultInv'
  BY DEF IInv, ResultInv, SaysTrue, GroupInv, Write, process, time
<1>8. QED  BY <1>1, <1>2, <1>3, <1>4, <1>5, <1>6, <1>7 DEF IInv

LEMMA CallKeeps == ASSUME IInv, NEW call \in SystemCalls, Call(call)  PROVE IInv'
<1>1. TypeOK'
  <2>1. Flags'
    BY DEF IInv, TypeOK, Call, Flags, signals, time, files
  <2>2. Numbers'
    BY DEF IInv, TypeOK, Call, Numbers, time
  <2>3. leader' \in {leader, "ended"} /\ status' \in {status, "signal"}
    BY DEF Call
  <2>4. QED  BY <2>1, <2>2, <2>3 DEF IInv, TypeOK, Flags, Numbers, Call, signals, files
<1>2. GroupInv'
  BY DEF IInv, GroupInv, Call, signals
<1>3. StartInv'
  BY DEF IInv, StartInv, Call
<1>4. FilesInv'
  BY DEF IInv, FilesInv, Call, files
<1>5. TimeInv'
  BY DEF IInv, TimeInv, Call, time
<1>6. NetInv'
  <2>1. CASE Enforced
    BY <2>1, FilterHolds DEF IInv, NetInv, Call
  <2>2. CASE ~Enforced
    BY <2>2 DEF IInv, NetInv, StartInv, Call, Enforced, TypeOK, Hosts
  <2>3. QED  BY <2>1, <2>2
<1>7. ResultInv'
  BY DEF IInv, ResultInv, SaysTrue, GroupInv, Call, process, time
<1>8. QED  BY <1>1, <1>2, <1>3, <1>4, <1>5, <1>6, <1>7 DEF IInv

LEMMA MoveWorkKeeps == ASSUME IInv, MoveWork  PROVE IInv'
<1>1. TypeOK'
  BY DEF IInv, TypeOK, MoveWork, process, signals, time
<1>2. GroupInv'
  BY DEF IInv, GroupInv, MoveWork, process, signals
<1>3. StartInv'
  BY DEF IInv, StartInv, MoveWork, process
<1>4. FilesInv'
  BY DEF IInv, FilesInv, GroupInv, MoveWork
<1>5. TimeInv'
  BY DEF IInv, TimeInv, MoveWork, time
<1>6. NetInv'
  BY DEF IInv, NetInv, MoveWork, process
<1>7. ResultInv'
  BY DEF IInv, ResultInv, SaysTrue, MoveWork, process, time
<1>8. QED  BY <1>1, <1>2, <1>3, <1>4, <1>5, <1>6, <1>7 DEF IInv

LEMMA PollKeeps == ASSUME IInv, Poll  PROVE IInv'
<1>1. TypeOK'
  <2>1. Flags'
    BY DEF Flags, IInv, TypeOK, Poll, signals, files
  <2>2. Numbers'
    BY DEF Numbers, IInv, TypeOK, Poll
  <2>3. QED
    BY <2>1, <2>2 DEF Flags, Numbers, IInv, TypeOK, Poll, signals, files
<1>2. GroupInv'
  BY DEF IInv, GroupInv, Poll, signals
<1>3. StartInv'
  BY DEF IInv, StartInv, Poll
<1>4. FilesInv'
  BY DEF IInv, FilesInv, Poll, files
<1>5. TimeInv'
  BY Constants DEF IInv, TimeInv, Poll, TypeOK
<1>6. NetInv'
  BY DEF IInv, NetInv, Poll
<1>7. ResultInv'
  BY DEF IInv, ResultInv, SaysTrue, Poll, process, time
<1>8. QED  BY <1>1, <1>2, <1>3, <1>4, <1>5, <1>6, <1>7 DEF IInv

LEMMA TickKeeps == ASSUME IInv, Tick  PROVE IInv'
<1>1. TypeOK'
  <2>1. Flags'
    BY DEF Flags, IInv, TypeOK, Tick, process, signals, files
  <2>2. Numbers'
    BY DEF Numbers, IInv, TypeOK, Tick, process
  <2>3. QED
    BY <2>1, <2>2 DEF Flags, Numbers, IInv, TypeOK, Tick, process, signals, files
<1>2. GroupInv'
  BY DEF IInv, GroupInv, Tick, process, signals
<1>3. StartInv'
  BY DEF IInv, StartInv, Tick, process
<1>4. FilesInv'
  BY DEF IInv, FilesInv, Tick, files
<1>5. TimeInv'
  BY Constants DEF IInv, TimeInv, Tick, TypeOK
<1>6. NetInv'
  BY DEF IInv, NetInv, Tick, process
<1>7. ResultInv'
  BY DEF IInv, ResultInv, SaysTrue, Tick, process, time
<1>8. QED  BY <1>1, <1>2, <1>3, <1>4, <1>5, <1>6, <1>7 DEF IInv

LEMMA TimeOutKeeps == ASSUME IInv, TimeOut  PROVE IInv'
<1>1. TypeOK'
  <2>1. Flags'
    BY DEF Flags, IInv, TypeOK, TimeOut, signals, files
  <2>2. Numbers'
    BY DEF Numbers, IInv, TypeOK, TimeOut
  <2>3. QED
    BY <2>1, <2>2 DEF Flags, Numbers, IInv, TypeOK, TimeOut, signals, files
<1>2. GroupInv'
  BY DEF IInv, GroupInv, TimeOut, signals
<1>3. StartInv'
  BY DEF IInv, StartInv, TimeOut
<1>4. FilesInv'
  BY DEF IInv, FilesInv, TimeOut, files
<1>5. TimeInv'
  BY Constants DEF IInv, TimeInv, TimeOut, TypeOK
<1>6. NetInv'
  BY DEF IInv, NetInv, TimeOut
<1>7. ResultInv'
  BY DEF IInv, ResultInv, SaysTrue, TimeOut, process, time
<1>8. QED  BY <1>1, <1>2, <1>3, <1>4, <1>5, <1>6, <1>7 DEF IInv

LEMMA WaitFailsKeeps == ASSUME IInv, WaitFails  PROVE IInv'
<1>1. TypeOK'
  <2>1. Flags'
    BY DEF Flags, IInv, TypeOK, WaitFails, Finish, time, files
  <2>2. Numbers'
    BY DEF Numbers, IInv, TypeOK, WaitFails, Finish, time
  <2>3. QED
    BY <2>1, <2>2 DEF Flags, Numbers, IInv, TypeOK, WaitFails, Finish, files
<1>2. GroupInv'
  BY DEF IInv, GroupInv, WaitFails, Finish
<1>3. StartInv'
  BY DEF IInv, StartInv, WaitFails, Finish
<1>4. FilesInv'
  BY DEF IInv, FilesInv, WaitFails, Finish, files
<1>5. TimeInv'
  BY DEF IInv, TimeInv, WaitFails, Finish, time
<1>6. NetInv'
  BY DEF IInv, NetInv, WaitFails, Finish
<1>7. ResultInv'
  BY DEF IInv, ResultInv, SaysTrue, WaitFails, Finish, Failed, NoResult, process, time
<1>8. QED  BY <1>1, <1>2, <1>3, <1>4, <1>5, <1>6, <1>7 DEF IInv

LEMMA KillGroupKeeps == ASSUME IInv, KillGroup  PROVE IInv'
<1>1. TypeOK'
  <2>1. Flags'
    BY DEF Flags, IInv, TypeOK, KillGroup, signals, time, files
  <2>2. Numbers'
    BY DEF Numbers, IInv, TypeOK, KillGroup, time
  <2>3. QED
    BY <2>1, <2>2 DEF Flags, Numbers, IInv, TypeOK, KillGroup, signals, files
<1>2. GroupInv'
  BY DEF IInv, GroupInv, KillGroup, signals
<1>3. StartInv'
  BY DEF IInv, StartInv, KillGroup
<1>4. FilesInv'
  BY DEF IInv, FilesInv, KillGroup, files
<1>5. TimeInv'
  BY DEF IInv, TimeInv, KillGroup, time
<1>6. NetInv'
  BY DEF IInv, NetInv, KillGroup
<1>7. ResultInv'
  BY DEF IInv, ResultInv, SaysTrue, KillGroup, process, time
<1>8. QED  BY <1>1, <1>2, <1>3, <1>4, <1>5, <1>6, <1>7 DEF IInv

LEMMA CollectKeeps == ASSUME IInv, Collect  PROVE IInv'
<1> DEFINE compiled == phase = "compile" /\ status = "zero" /\ ~timedOut
<1>1. /\ pc = "collect" /\ published' = FALSE
      /\ UNCHANGED <<req, host, leader, kids, status, out, err, netOpen, started, masked, handler,
                     signal, clock, begun, polled, timedOut, path, scratch, ident, stray, raced>>
  BY DEF Collect, process, files
<1>2. leader = "gone" /\ kids = FALSE /\ phase \in started /\ phase \in {"compile", "run"}
  BY <1>1 DEF IInv, TypeOK, GroupInv, StartInv
<1>3. clock \in Nat /\ clock < Due + Ticks /\ (timedOut => clock >= Due)
  BY <1>1 DEF IInv, TypeOK, TimeInv
<1>4. \/ /\ ~compiled /\ UNCHANGED <<phase, limit>>
         /\ \E unread \in BOOLEAN : \E o \in Captured(out, unread), e \in Captured(err, unread) :
                Finish([StepOutcome(o, e, unread) EXCEPT !.ok = @ /\ phase = "run"])
      \/ /\ clock >= Due /\ UNCHANGED <<phase, limit>>
         /\ Finish([NoResult EXCEPT !.verdict = "TLE", !.timedOut = TRUE,
                                    !.phase = "run", !.exit = "null"])
      \/ /\ clock < Due /\ limit' = Remaining(clock) /\ phase' = "run" /\ pc' = "step"
  BY DEF Collect, Due
<1>5. /\ pc' # "step" => phase' = phase /\ limit' = limit
      /\ pc' = "step" => phase' = "run" /\ clock < Due /\ limit' = Remaining(clock)
      /\ pc' \in {"check", "done", "step"}
  BY <1>4 DEF Finish
<1>6. /\ limit' \in 0 .. Timeout
      /\ pc' = "step" => clock + limit' * Ticks >= Due /\ clock + limit' * Ticks < Due + Ticks
  <2>1. CASE pc' # "step"
    BY <1>5, <2>1 DEF IInv, TypeOK
  <2>2. CASE pc' = "step"
    BY <1>3, <1>5, <2>2, RemainingRoundsUp
  <2>3. QED  BY <2>1, <2>2
<1>7. TypeOK'
  <2>1. Flags'
    BY <1>1 DEF IInv, TypeOK, Flags, files
  <2>2. Numbers'
    BY <1>1, <1>6 DEF IInv, TypeOK, Numbers
  <2>3. phase' \in {"none", "compile", "run"}
    BY <1>2, <1>5
  <2>4. QED  BY <1>1, <1>5, <2>1, <2>2, <2>3 DEF IInv, TypeOK, Flags, Numbers
<1>8. GroupInv' /\ StartInv' /\ FilesInv'
  BY <1>1, <1>2, <1>5 DEF GroupInv, StartInv, FilesInv
<1>9. TimeInv'
  BY <1>1, <1>3, <1>5, <1>6 DEF TimeInv
<1>10. NetInv'
  BY <1>1 DEF IInv, NetInv
<1>11. ResultInv'
  <2>1. ASSUME NEW unread \in BOOLEAN, NEW o \in Captured(out, unread), NEW e \in Captured(err, unread),
               result' = [StepOutcome(o, e, unread) EXCEPT !.ok = @ /\ phase = "run"]
        PROVE  SaysTrue'
    <3> DEFINE r == StepOutcome(o, e, unread)
    <3> DEFINE cut == Truncated(Cap, o, e)
    <3>1. /\ result'.phase = phase /\ result'.exit = status /\ result'.timedOut = timedOut
          /\ result'.verdict = Verdict(status, timedOut, cut) /\ result'.truncated = cut
          /\ result'.unread = unread /\ result'.unenforced = NetDisclosure
      BY <2>1 DEF StepOutcome
    <3>2. result'.ok => status = "zero" /\ ~timedOut /\ ~unread /\ phase = "run"
      <4>1. result'.ok = (r.ok /\ phase = "run") /\ r.ok = (status = "zero" /\ ~timedOut /\ ~unread)
        BY <2>1 DEF StepOutcome
      <4>2. QED  BY <4>1
    <3>3. /\ cut => out + err > Cap
          /\ ~unread => (cut <=> out + err > Cap)
      BY CapturedAlike, Constants DEF IInv, TypeOK
    <3> HIDE DEF cut
    <3>4. /\ result'.verdict = "OK" => status = "zero" /\ (out + err <= Cap \/ unread)
          /\ result'.verdict = "OLE" => out + err > Cap
      <4>1. out + err \in Nat /\ Cap \in Nat  BY Constants DEF IInv, TypeOK
      <4>2. QED  BY <3>1, <3>3, <4>1 DEF Verdict
    <3>5. req.noNet /\ netOpen => NetDisclosure # {}
      BY DEF IInv, NetInv, NetDisclosure
    <3>6. result'.timedOut => clock >= Timeout * Ticks
      BY <1>3, <3>1 DEF Due
    <3>7. result'.ok => (result'.truncated <=> out + err > Cap)
      BY <3>1, <3>2, <3>3
    <3>8. QED  BY <1>1, <1>2, <3>1, <3>2, <3>4, <3>5, <3>6, <3>7 DEF SaysTrue
  <2>2. CASE clock >= Due /\ result' = [NoResult EXCEPT !.verdict = "TLE", !.timedOut = TRUE,
                                                        !.phase = "run", !.exit = "null"]
    BY <1>1, <2>2 DEF ResultInv, SaysTrue, NoResult, Due
  <2>3. CASE pc' = "step"
    BY <2>3 DEF ResultInv
  <2>4. QED  BY <1>4, <2>1, <2>2, <2>3 DEF ResultInv, Finish
<1>12. QED  BY <1>7, <1>8, <1>9, <1>10, <1>11 DEF IInv

LEMMA TerminateKeeps == ASSUME IInv, Terminate  PROVE IInv'
<1>1. TypeOK'
  BY DEF IInv, TypeOK, Terminate, process, time, files
<1>2. GroupInv'
  BY DEF IInv, GroupInv, Terminate, process
<1>3. StartInv'
  BY DEF IInv, StartInv, Terminate, process
<1>4. FilesInv'
  BY DEF IInv, FilesInv, Terminate, files
<1>5. TimeInv'
  BY DEF IInv, TimeInv, Terminate, time
<1>6. NetInv'
  BY DEF IInv, NetInv, Terminate, process
<1>7. ResultInv'
  BY DEF IInv, ResultInv, SaysTrue, Terminate, Ended, process, time
<1>8. QED  BY <1>1, <1>2, <1>3, <1>4, <1>5, <1>6, <1>7 DEF IInv

LEMMA HandleKeeps == ASSUME IInv, Handle  PROVE IInv'
<1>1. TypeOK'
  <2>1. Flags'
    BY DEF Flags, IInv, TypeOK, Handle, signals, time, files
  <2>2. Numbers'
    BY DEF Numbers, IInv, TypeOK, Handle, time
  <2>3. QED
    BY <2>1, <2>2 DEF Flags, Numbers, IInv, TypeOK, Handle, signals, files
<1>2. GroupInv'
  BY DEF IInv, GroupInv, Handle, Ended, TypeOK
<1>3. StartInv'
  BY DEF IInv, StartInv, Handle
<1>4. FilesInv'
  BY DEF IInv, FilesInv, Handle, files
<1>5. TimeInv'
  BY DEF IInv, TimeInv, Handle, time
<1>6. NetInv'
  BY DEF IInv, NetInv, Handle
<1>7. ResultInv'
  BY DEF IInv, ResultInv, SaysTrue, Handle, process, time
<1>8. QED  BY <1>1, <1>2, <1>3, <1>4, <1>5, <1>6, <1>7 DEF IInv

LEMMA KillExecutorKeeps == ASSUME IInv, KillExecutor  PROVE IInv'
<1>1. TypeOK'
  BY DEF IInv, TypeOK, KillExecutor, signals, time, files
<1>2. GroupInv'
  BY DEF IInv, GroupInv, KillExecutor
<1>3. StartInv'
  BY DEF IInv, StartInv, KillExecutor
<1>4. FilesInv'
  BY DEF IInv, FilesInv, KillExecutor, files
<1>5. TimeInv'
  BY DEF IInv, TimeInv, KillExecutor, time
<1>6. NetInv'
  BY DEF IInv, NetInv, KillExecutor
<1>7. ResultInv'
  BY DEF IInv, ResultInv, SaysTrue, KillExecutor, process, time
<1>8. QED  BY <1>1, <1>2, <1>3, <1>4, <1>5, <1>6, <1>7 DEF IInv

----------------------------------------------------------------------------
(* Every step.                                                             *)

LEMMA NextKeeps == ASSUME IInv, [Next]_vars  PROVE IInv'
<1>1. CASE Executor
  BY <1>1, ChooseWorkKeeps, ScanScratchKeeps, IdentifyScratchKeeps, CompareScratchKeeps,
     EraseScratchKeeps, CreateScratchKeeps, WriteSourceKeeps, SpawnKeeps, SpawnReturnsKeeps,
     PollKeeps, TickKeeps, TimeOutKeeps, KillGroupKeeps, CollectKeeps, CheckOwnKeeps,
     DeleteOwnKeeps DEF Executor, Reset
<1>2. CASE Program
  BY <1>2, EndKeeps, ForkKidKeeps, LeaveGroupKeeps, MoveWorkKeeps, WriteKeeps, CallKeeps,
     ExchangeKeeps DEF Program
<1>3. CASE Arm \/ Exec \/ WaitFails \/ Terminate \/ Handle \/ KillExecutor
  BY <1>3, ArmKeeps, ExecKeeps, WaitFailsKeeps, TerminateKeeps, HandleKeeps, KillExecutorKeeps
<1>4. CASE UNCHANGED vars
  <2>1. UNCHANGED <<req, host, pc, phase, path, scratch, ident, stray, raced, leader, kids, published, masked,
                    handler, signal, clock, begun, limit, polled, timedOut, status, out, err,
                    netOpen, started, result>>
    BY <1>4 DEF vars, process, signals, time, files
  <2>2. TypeOK' /\ GroupInv' /\ StartInv' /\ FilesInv'
    BY <2>1 DEF IInv, TypeOK, GroupInv, StartInv, FilesInv
  <2>3. TimeInv' /\ NetInv' /\ ResultInv'
    BY <2>1 DEF IInv, TimeInv, NetInv, ResultInv, SaysTrue
  <2>4. QED  BY <2>2, <2>3 DEF IInv
<1>5. QED  BY <1>1, <1>2, <1>3, <1>4 DEF Next

LEMMA InitHolds == Init => IInv
<1>1. SUFFICES ASSUME Init  PROVE IInv
  OBVIOUS
<1>2. TypeOK
  <2>1. Flags
    BY <1>1 DEF Init, Flags
  <2>2. 0 \in 0 .. 0 /\ Timeout \in 0 .. Timeout /\ 0 \in 0 .. Fsize /\ 0 \in Nat
    BY Constants
  <2>3. Numbers
    BY <1>1, <2>2 DEF Init, Numbers
  <2>4. QED  BY <1>1, <2>1, <2>3 DEF Init, Hosts, TypeOK, Flags, Numbers
<1>3. GroupInv /\ StartInv /\ FilesInv
  BY <1>1 DEF Init, GroupInv, StartInv, FilesInv
<1>4. TimeInv /\ NetInv /\ ResultInv
  BY <1>1, Constants DEF Init, TimeInv, NetInv, ResultInv
<1>5. QED  BY <1>2, <1>3, <1>4 DEF IInv

----------------------------------------------------------------------------
(* The theorems.                                                           *)

\* The inductive invariant holds throughout a run of codecalc-exec.
THEOREM Invariance == Spec => []IInv
<1>1. Init => IInv  BY InitHolds
<1>2. IInv /\ [Next]_vars => IInv'  BY NextKeeps
<1>3. QED  BY <1>1, <1>2, PTL DEF Spec

\* Type correctness; that the seconds left for the run are never more than the
\* timeout, and that a stream is never longer than its file may be, are part of it.
THEOREM TypeCorrect == Spec => []TypeOK
<1>1. IInv => TypeOK  BY DEF IInv
<1>2. QED  BY <1>1, Invariance, PTL

\* spawn_and_wait leaves nothing of the process group behind when execute
\* answers or the termination handler ends it, wherever SIGTERM arrives, nor
\* of a compilation when the run begins; a leader that has asked for it dies
\* with a killed executor.
THEOREM NothingLeft == Spec => []GroupGone
<1>1. IInv => GroupGone  BY DEF IInv, GroupInv, GroupGone, Alive
<1>2. QED  BY <1>1, Invariance, PTL

\* remove_own_workdir and remove_dir_checked: what the executor removes is the
\* directory it made or scanned, unless a process outside the group exchanges
\* it in one of the moments in which the executor cannot see that.
THEOREM OwnRemoved == Spec => OnlyOwnRemoved
<1> DEFINE Step == /\ pc = "delete" /\ path' = "nothing" =>
                          path = "own" \/ ("delete" \in raced /\ stray)
                   /\ pc = "erase" /\ pc' = "create" =>
                          scratch = "plain" \/ raced \cap {"identify", "erase"} # {}
<1>1. IInv /\ [Next]_vars => [Step]_vars
  BY DEF IInv, FilesInv
<1>2. QED  BY <1>1, Invariance, PTL DEF Spec, OnlyOwnRemoved

\* What execute prints is true of the program: success, whole output, the
\* timeout, and network access that no filter stopped; a stream that could not
\* be read is named.
THEOREM ResultsTrue == Spec => []ResultIsTrue
<1>1. IInv => ResultIsTrue  BY DEF IInv, ResultInv, SaysTrue, ResultIsTrue
<1>2. QED  BY <1>1, Invariance, PTL

\* A compilation and the run that gets the time remaining_run_timeout_secs
\* leaves it take less than a second more than the timeout, for any clock rate.
THEOREM BudgetHolds == Spec => []BudgetKept
<1>1. IInv => BudgetKept
  BY Constants DEF IInv, TimeInv, BudgetKept
<1>2. QED  BY <1>1, Invariance, PTL

=============================================================================
