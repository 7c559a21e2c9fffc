--------------------------- MODULE ToolCallsProofs ---------------------------
(***************************************************************************)
(* What ToolCalls keeps for every set of calls, requests, policies and     *)
(* hosts, every size of the audit log and any number of replacements of    *)
(* the executor's binary.                                                  *)
(*                                                                         *)
(* The inductive invariant says where in its control a call can hold what: *)
(* a call on the event loop holds the loop wherever it does not wait, a    *)
(* process belongs to a call that waits for it, a directory to one that    *)
(* has yet to close, and from the broker's decision to the result a denial *)
(* that is not enforced is on the receipt or will be in the result.        *)
(***************************************************************************)
EXTENDS ToolCalls, SequenceTheorems, FiniteSetTheorems, FunctionTheorems, TLAPS

Fields == {"pc", "req", "answer", "seen", "decision", "noNet", "granted", "workdir", "running",
           "orphans", "enforced", "unenforced", "outcome"}
Shaped == /\ call = [c \in Calls |-> call[c]]
          /\ \A c \in Calls : DOMAIN call[c] = Fields

\* What every call and the log are made of.
Typed ==
    /\ policy \in Policies /\ native \in BOOLEAN
    /\ binary \in BinaryType /\ cache \in CacheType
    /\ loop \in Calls \cup {Nobody} /\ writable \in BOOLEAN
    /\ \A c \in Calls :
        call[c].pc \in Places /\ call[c].workdir \in Workdirs
Kinds == {"implicit", "rejected", "denied", "approved", "install_denied", "cleanup",
          "granted", "refused", "skipped"}
LogInv ==
    /\ files \in Seq(Seq(Calls \X Kinds)) /\ Len(files) = KeepN + 1
    /\ \A i \in DOMAIN files : Len(files[i]) <= FileMax

\* The places of the two kinds of call, and those at which a call on the loop
\* holds it.
RunPlaces == {"select", "stat", "decide", "depgate", "deps", "run", "await", "cancelled", "killed"}
InstallPlaces == {"gate", "elicit", "install", "installing", "notify"}
Held == Places \ {"idle", "elicit", "await", "killed", "notify", "done"}

\* Those at which a call may end early, and those before its first directory.
Early == {"gate", "elicit", "select", "stat", "decide", "depgate", "deps", "run", "install"}
Before == {"select", "stat", "decide", "depgate"}

StageInv(c) ==
    /\ call[c].pc = "idle" => call[c] = Idle
    /\ call[c].pc # "idle" => call[c].req \in RequestType
    /\ call[c].pc \in RunPlaces => call[c].req.tool # "install"
    /\ call[c].pc \in InstallPlaces => call[c].req.tool = "install"
    /\ call[c].pc \in {"cancelled", "killed"} => call[c].req.tool = "stream"
    /\ call[c].running => call[c].pc \in {"await", "cancelled", "installing"}
    /\ call[c].pc \in Before => call[c].workdir = "none"
    /\ call[c].pc \in {"deps", "run"} => call[c].workdir \in {"none", "made"}
    /\ call[c].workdir = "made"
        => call[c].pc \in {"deps", "run", "await", "cancelled", "killed", "close"}
    /\ call[c].workdir = "owned" => call[c].pc \in {"await", "cancelled", "killed"}
    /\ call[c].orphans
        => call[c].outcome = "cancelled" /\ call[c].pc \in {"killed", "close", "answer", "done"}
    /\ native /\ call[c].req.tool = "stream" /\ call[c].running
        => call[c].workdir \in {"made", "owned"}
LoopInv(c) == OnLoop(c) /\ call[c].pc \in Held => loop = c
ConsentInv(c) ==
    /\ call[c].pc \in {"gate", "elicit", "install", "installing"} => call[c].answer = "none"
    /\ call[c].pc \in {"install", "installing"} => call[c].granted # "no"
SeenInv(c) == call[c].seen \in binary.past

\* A denial between the decision and the run, during it, and in its result.  What
\* the broker denies is effective exactly where the provider cannot enforce it.
Settled(c) == \/ call[c].pc \in {"depgate", "deps", "run", "await"}
              \/ call[c].outcome \in {"ended", "broken"}
DenialInv(c) ==
    /\ Settled(c) /\ Network \in call[c].decision.denied
        => (Network \in call[c].decision.effective <=> Network \notin call[c].decision.supported)
    /\ call[c].pc \in {"depgate", "deps", "run"} /\ Network \in call[c].decision.denied
        => Network \in call[c].decision.effective \/ call[c].noNet
    /\ call[c].pc = "await" /\ Network \in call[c].decision.denied /\ ~call[c].enforced
        => \/ Network \in call[c].decision.effective \/ call[c].req.provider = "strict"
           \/ call[c].noNet /\ call[c].req.provider = "local"
    /\ call[c].outcome \in {"ended", "broken"} => call[c].pc \in {"close", "answer", "done"}
    /\ call[c].outcome = "ended" /\ Network \in call[c].decision.denied /\ ~call[c].enforced
        => Network \in call[c].decision.effective \/ call[c].unenforced

CallInv(c) == StageInv(c) /\ LoopInv(c) /\ ConsentInv(c) /\ SeenInv(c) /\ DenialInv(c)

\* Every identity that is in use was on disk, and unless it lapsed, an answer that
\* waits for its identity is that of the executor on disk.
CacheInv ==
    /\ {0, cache.id, binary.id} \subseteq binary.past
    /\ cache.step = "identify" /\ cache.kernel /\ ~binary.lapsed => binary.kernel
    /\ CacheHonest

IInv == Typed /\ LogInv /\ Shaped /\ CacheInv /\ \A c \in Calls : CallInv(c)

-----------------------------------------------------------------------------
(* Lemmas about the operators.                                             *)

\* A call's record keeps its fields, and an update changes only those named.
LEMMA UpdateFacts ==
    ASSUME Shaped, NEW c \in Calls, NEW new, Update(c, new)
    PROVE  /\ Shaped'
           /\ \A d \in Calls \ {c} : call'[d] = call[d]
           /\ \A f \in Fields : call'[c][f] = IF f \in DOMAIN new THEN new[f] ELSE call[c][f]
BY DEF Shaped, Update, With

\* The broker never lets a denial pass in silence: what it denies and the
\* provider cannot enforce, and only that, it reports as effective.
LEMMA BrokerDiscloses ==
    ASSUME NEW noNet \in BOOLEAN, NEW supported, NEW d, d = Decided(noNet, supported),
           ~d.rejected, Network \in d.denied
    PROVE  /\ Network \in d.effective \/ EnforcedSpec(noNet, d)
           /\ Network \in d.effective <=> Network \notin d.supported
<1>1. CASE policy.off
  BY <1>1 DEF Decided, Passthrough
<1>2. CASE ~policy.off
  BY <1>2 DEF Decided, Broker, EnforcedSpec
<1>. QED BY <1>1, <1>2

LEMMA Bounds ==
    FileMax \in Nat /\ FileMax >= 1 /\ KeepN \in Nat /\ KeepN >= 1 /\ MaxReplaced \in Nat
BY ToolCallsAssumption DEF ToolCallsAssumption

LEMMA Prepend ==
    ASSUME NEW S, NEW e \in S, NEW s \in Seq(S)
    PROVE  /\ <<e>> \o s \in Seq(S) /\ Len(<<e>> \o s) = Len(s) + 1 /\ (<<e>> \o s)[1] = e
           /\ \A i \in 1 .. Len(s) : (<<e>> \o s)[i + 1] = s[i]
<1>1. <<e>> \in Seq(S) /\ Len(<<e>>) = 1 /\ <<e>>[1] = e
  OBVIOUS
<1>. DEFINE one == <<e>>
<1>2. one \in Seq(S) /\ Len(one) = 1 /\ one[1] = e
  BY <1>1
<1>. HIDE DEF one
<1>3. /\ one \o s \in Seq(S) /\ Len(one \o s) = 1 + Len(s)
      /\ \A i \in 1 .. 1 + Len(s) : (one \o s)[i] = IF i <= 1 THEN one[i] ELSE s[i - 1]
  <2>1. /\ one \o s \in Seq(S) /\ Len(one \o s) = Len(one) + Len(s)
        /\ \A i \in 1 .. Len(one) + Len(s) :
                (one \o s)[i] = IF i <= Len(one) THEN one[i] ELSE s[i - Len(one)]
    BY <1>2, ConcatProperties, Zenon
  <2>. QED BY <1>2, <2>1, Zenon
<1>4. Len(s) \in Nat
  OBVIOUS
<1>5. (one \o s)[1] = e
  BY <1>2, <1>3, <1>4
<1>6. ASSUME NEW i \in 1 .. Len(s) PROVE (one \o s)[i + 1] = s[i]
  <2>1. i + 1 \in 1 .. 1 + Len(s) /\ ~(i + 1 <= 1) /\ (i + 1) - 1 = i
    BY <1>4
  <2>. QED BY <2>1, <1>3
<1>. QED BY <1>3, <1>4, <1>5, <1>6 DEF one

\* The log keeps its generations and none outgrows its bound.
LEMMA Logged ==
    ASSUME LogInv, NEW c \in Calls, NEW kind \in Kinds, files' = Written(files, <<c, kind>>)
    PROVE  LogInv'
<1>. DEFINE Event == Calls \X Kinds
<1>. DEFINE room == IF Len(files[1]) >= FileMax THEN Rotate(files) ELSE files
<1>1. <<c, kind>> \in Event
  OBVIOUS
<1>2. /\ room \in Seq(Seq(Event)) /\ Len(room) = KeepN + 1
      /\ \A i \in 1 .. KeepN + 1 : Len(room[i]) <= FileMax
      /\ Len(room[1]) < FileMax
  <2>1. CASE Len(files[1]) >= FileMax
    <3>. DEFINE old == SubSeq(files, 1, KeepN)
    <3>1. /\ old \in Seq(Seq(Event)) /\ Len(old) = KeepN
          /\ \A i \in 1 .. KeepN : old[i] = files[i]
      BY Bounds DEF LogInv
    <3>2. <<>> \in Seq(Event) /\ Len(<<>>) = 0
      OBVIOUS
    <3>3. old \in Seq(Seq(Event)) /\ <<>> \in Seq(Event)
      BY <3>1, <3>2
    <3>. HIDE DEF old
    <3>4. room = <<<<>>>> \o old
      BY <2>1 DEF Rotate, old
    <3>5. /\ room \in Seq(Seq(Event)) /\ Len(room) = KeepN + 1 /\ room[1] = <<>>
          /\ \A i \in 1 .. KeepN : room[i + 1] = old[i]
      <4>. HIDE DEF room, Event
      <4>. QED BY <3>1, <3>3, <3>4, Prepend
    <3>6. \A i \in 1 .. KeepN + 1 : i # 1 => i - 1 \in 1 .. KeepN /\ room[i] = files[i - 1]
      <4>. TAKE i \in 1 .. KeepN + 1
      <4>. HAVE i # 1
      <4>1. i - 1 \in 1 .. KeepN /\ (i - 1) + 1 = i
        BY Bounds
      <4>. HIDE DEF room
      <4>. QED BY <4>1, <3>1, <3>5
    <3>. HIDE DEF room
    <3>7. DOMAIN files = 1 .. KeepN + 1
      BY DEF LogInv
    <3>8. \A i \in 1 .. KeepN : i \in 1 .. KeepN + 1
      BY Bounds
    <3>9. ASSUME NEW i \in 1 .. KeepN + 1 PROVE Len(room[i]) <= FileMax
      <4>1. CASE i = 1
        BY <4>1, <3>2, <3>5, Bounds
      <4>2. CASE i # 1
        BY <4>2, <3>6, <3>7, <3>8 DEF LogInv
      <4>. QED BY <4>1, <4>2
    <3>. QED BY <3>2, <3>5, <3>9, Bounds
  <2>2. CASE ~(Len(files[1]) >= FileMax)
    <3>1. room = files
      BY <2>2
    <3>2. /\ files \in Seq(Seq(Event)) /\ Len(files) = KeepN + 1
          /\ \A i \in 1 .. KeepN + 1 : Len(files[i]) <= FileMax
      <4>1. files \in Seq(Seq(Event)) /\ Len(files) = KeepN + 1
        BY DEF LogInv
      <4>2. DOMAIN files = 1 .. KeepN + 1
        BY <4>1
      <4>. QED BY <4>1, <4>2 DEF LogInv
    <3>. HIDE DEF room, Event
    <3>3. 1 \in 1 .. KeepN + 1
      BY Bounds
    <3>4. Len(files[1]) \in Nat
      BY <3>2, <3>3
    <3>. QED BY <2>2, <3>1, <3>2, <3>4, Bounds
  <2>. QED BY <2>1, <2>2
<1>3. files' = [room EXCEPT ![1] = Append(room[1], <<c, kind>>)]
  BY DEF Written
<1>. HIDE DEF room, Event
<1>4. 1 \in 1 .. KeepN + 1 /\ DOMAIN room = 1 .. KeepN + 1
  BY <1>2, Bounds
<1>5. room[1] \in Seq(Event)
  BY <1>2, <1>4
<1>6. /\ Append(room[1], <<c, kind>>) \in Seq(Event)
      /\ Len(Append(room[1], <<c, kind>>)) = Len(room[1]) + 1
  BY <1>1, <1>5
<1>7. files' \in Seq(Seq(Event)) /\ Len(files') = KeepN + 1 /\ DOMAIN files' = 1 .. KeepN + 1
  <2>. DEFINE new == Append(room[1], <<c, kind>>)
  <2>1. room \in Seq(Seq(Event)) /\ 1 \in 1 .. Len(room) /\ new \in Seq(Event)
    BY <1>2, <1>4, <1>6
  <2>. HIDE DEF new
  <2>2. /\ [room EXCEPT ![1] = new] \in Seq(Seq(Event))
        /\ Len([room EXCEPT ![1] = new]) = Len(room)
    BY <2>1, ExceptSeq
  <2>3. files' \in Seq(Seq(Event)) /\ Len(files') = KeepN + 1
    BY <2>2, <1>2, <1>3 DEF new
  <2>. QED BY <2>3
<1>8. \A i \in 1 .. KeepN + 1 : Len(files'[i]) <= FileMax
  <2>. TAKE i \in 1 .. KeepN + 1
  <2>1. CASE i = 1
    BY <2>1, <1>2, <1>3, <1>4, <1>5, <1>6, Bounds
  <2>2. CASE i # 1
    BY <2>2, <1>2, <1>3, <1>4
  <2>. QED BY <2>1, <2>2
<1>. QED BY <1>7, <1>8 DEF LogInv, Event

-----------------------------------------------------------------------------
(* One call's step.                                                        *)

\* A step writes at most one event, about its call.
Quiet(c) == files' = files \/ \E kind \in Kinds : files' = Written(files, <<c, kind>>)

\* What a step of a call leaves alone.
Own(c) ==
    /\ \A d \in Calls \ {c} : call'[d] = call[d]
    /\ loop \in Calls \ {c} => loop' = loop
    /\ UNCHANGED <<policy, native, writable, binary>>
    /\ Quiet(c)

\* A step that keeps its own call and the cache in order keeps the others.
LEMMA CachedStep ==
    ASSUME IInv, NEW c \in Calls, Own(c), Shaped', loop' \in Calls \cup {Nobody},
           call'[c].pc \in Places, call'[c].workdir \in Workdirs,
           CallInv(c)', CacheInv', cache' \in CacheType
    PROVE  IInv'
<1>1. Typed'
  BY DEF IInv, Typed, Own
<1>2. LogInv'
  BY Logged DEF IInv, LogInv, Own, Quiet
<1>3. ASSUME NEW d \in Calls PROVE CallInv(d)'
  <2>1. CASE d = c
    BY <2>1
  <2>2. CASE d # c
    <3>1. call'[d] = call[d] /\ binary' = binary /\ native' = native /\ CallInv(d)
      BY <2>2 DEF Own, IInv
    <3>2. loop = d => loop' = d
      BY <2>2 DEF Own
    <3>. QED BY <3>1, <3>2 DEF CallInv, StageInv, LoopInv, ConsentInv, SeenInv, DenialInv, Settled,
                Before,
                 OnLoop
  <2>. QED BY <2>1, <2>2
<1>. QED BY <1>1, <1>2, <1>3 DEF IInv

LEMMA OwnStep ==
    ASSUME IInv, NEW c \in Calls, Own(c), Shaped', loop' \in Calls \cup {Nobody},
           call'[c].pc \in Places, call'[c].workdir \in Workdirs,
           CallInv(c)', cache' = cache
    PROVE  IInv'
<1>1. CacheInv' /\ cache' \in CacheType
  BY DEF IInv, Typed, CacheInv, CacheHonest, Own
<1>. QED BY <1>1, CachedStep

\* Every leaf below needs what the invariant says of the call that steps.
LEMMA CallFacts ==
    ASSUME IInv, NEW c \in Calls
    PROVE  /\ Shaped /\ CallInv(c) /\ c # Nobody /\ loop \in Calls \cup {Nobody}
           /\ call[c].running => call[c].pc \in {"await", "cancelled", "installing"}
           /\ call[c].pc \in Places /\ call[c].workdir \in Workdirs
BY ToolCallsAssumption DEF ToolCallsAssumption, IInv, Typed, CallInv, StageInv

\* A call that ends early, with an outcome that is no run's result, while it
\* has no process.
LEMMA FinishKeeps ==
    ASSUME IInv, NEW c \in Calls, NEW outcome, Finish(c, outcome),
           outcome \notin {"ended", "broken"}, ~call[c].running, call[c].pc \in Early,
           OnLoop(c) => loop' = c, loop' \in Calls \cup {Nobody},
           loop \in Calls \ {c} => loop' = loop, cache' = cache,
           UNCHANGED <<policy, native, writable, binary>>, Quiet(c)
    PROVE  IInv'
<1>1. Shaped /\ CallInv(c)
  BY CallFacts
<1>2. /\ Shaped' /\ \A d \in Calls \ {c} : call'[d] = call[d]
      /\ call'[c].pc = "close" /\ call'[c].outcome = outcome /\ call'[c].req = call[c].req
      /\ call'[c].running = call[c].running /\ call'[c].workdir = call[c].workdir
      /\ call'[c].seen = call[c].seen /\ call'[c].orphans = call[c].orphans
  BY <1>1, UpdateFacts DEF Finish, Fields
<1>3. Own(c)
  BY <1>2 DEF Own
<1>4. CallInv(c)'
  BY <1>1, <1>2 DEF CallInv, StageInv, LoopInv, ConsentInv, SeenInv, DenialInv, Settled, Before,
     OnLoop, RunPlaces, InstallPlaces, Early
<1>. QED BY <1>2, <1>3, <1>4, CallFacts, OwnStep DEF Places


LEMMA BinaryId ==
    ASSUME IInv
    PROVE  /\ binary.id \in binary.past /\ 0 \in binary.past /\ cache.id \in binary.past
           /\ binary.past \subseteq Nat /\ binary.kernel \in BOOLEAN /\ cache.kernel \in BOOLEAN
BY DEF IInv, Typed, CacheInv, BinaryType, CacheType

\* A directory that was to be removed is gone or stays for good.
LEMMA LeftFacts ==
    ASSUME NEW workdir \in Workdirs, NEW whose, NEW left \in LeftOf(workdir, whose),
           whose \in {"made", "owned"}
    PROVE  left \in Workdirs /\ left # whose /\ (left \in {"made", "owned"} => left = workdir)
BY DEF LeftOf, Workdirs

LEMMA CloseKeeps ==
    ASSUME IInv, NEW c \in Calls, Close(c)
    PROVE  IInv'
<1>1. Shaped /\ CallInv(c) /\ c # Nobody
  BY CallFacts
<1>2. PICK left \in LeftOf(call[c].workdir, "made") : Update(c, [pc |-> "answer", workdir |-> left])
  BY Zenon DEF Close
<1>3. /\ call[c].pc = "close" /\ Turn(c) /\ loop' = loop
      /\ cache' = cache /\ UNCHANGED <<policy, native, writable, binary>> /\ Quiet(c)
  BY DEF Close, Quiet, Silent
<1>4. left \in Workdirs /\ left # "made" /\ (left = "owned" => call[c].workdir = "owned")
  BY CallFacts, LeftFacts
<1>5. /\ Shaped' /\ \A d \in Calls \ {c} : call'[d] = call[d]
      /\ call'[c].pc = "answer" /\ call'[c].workdir = left
      /\ \A f \in Fields \ {"pc", "workdir"} : call'[c][f] = call[c][f]
  BY <1>1, <1>2, UpdateFacts DEF Fields
<1>6. Own(c) /\ loop' \in Calls \cup {Nobody}
  BY <1>3, <1>5, CallFacts DEF Own
<1>7. CallInv(c)'
  BY <1>1, <1>3, <1>4, <1>5 DEF CallInv, StageInv, LoopInv, ConsentInv, SeenInv, DenialInv, Settled,
     Before, OnLoop, Held, RunPlaces, InstallPlaces, Places, Fields
<1>. QED BY <1>3, <1>4, <1>5, <1>6, <1>7, CallFacts, OwnStep DEF Places, Fields

LEMMA ReadIdentityKeeps ==
    ASSUME IInv, NEW c \in Calls, ReadIdentity(c)
    PROVE  IInv'
<1>1. Shaped /\ CallInv(c) /\ c # Nobody
  BY CallFacts
<1>2. /\ call[c].pc = "stat" /\ Turn(c) /\ loop' = loop
      /\ Update(c, [pc |-> "decide", seen |-> binary.id])
      /\ cache' = cache /\ UNCHANGED <<policy, native, writable, binary>> /\ Quiet(c)
  BY DEF ReadIdentity, Quiet, Silent
<1>3. /\ Shaped' /\ \A d \in Calls \ {c} : call'[d] = call[d]
      /\ call'[c].pc = "decide"
      /\ call'[c].seen = binary.id
      /\ \A f \in Fields \ {"pc", "seen"} : call'[c][f] = call[c][f]
  BY <1>1, <1>2, UpdateFacts DEF Fields
<1>4. Own(c) /\ loop' \in Calls \cup {Nobody}
  BY <1>2, <1>3, CallFacts DEF Own
<1>5. CallInv(c)'
  BY <1>1, <1>2, <1>3, BinaryId DEF CallInv, StageInv, LoopInv, ConsentInv, SeenInv, DenialInv,
     Settled, Before,
     OnLoop, Held, RunPlaces, InstallPlaces, Places, Fields
<1>. QED BY <1>2, <1>3, <1>4, <1>5, CallFacts, OwnStep DEF Places, Fields

LEMMA KillStreamKeeps ==
    ASSUME IInv, NEW c \in Calls, KillStream(c)
    PROVE  IInv'
<1>1. Shaped /\ CallInv(c) /\ c # Nobody
  BY CallFacts
<1>2. PICK orphans \in BOOLEAN :
        Update(c, [pc |-> "killed", running |-> FALSE, orphans |-> orphans, outcome |-> "cancelled"])
  BY Zenon DEF KillStream
<1>3. /\ call[c].pc = "cancelled" /\ Turn(c) /\ loop' = Nobody
      /\ cache' = cache /\ UNCHANGED <<policy, native, writable, binary>> /\ Quiet(c)
  BY DEF KillStream, Quiet, Silent
<1>4. /\ Shaped' /\ \A d \in Calls \ {c} : call'[d] = call[d]
      /\ call'[c].pc = "killed" /\ call'[c].running = FALSE
      /\ call'[c].orphans = orphans /\ call'[c].outcome = "cancelled"
      /\ \A f \in Fields \ {"pc", "running", "orphans", "outcome"} : call'[c][f] = call[c][f]
  BY <1>1, <1>2, UpdateFacts DEF Fields
<1>5. loop = c \/ loop \notin Calls \ {c}
  BY <1>1, <1>3 DEF Turn, OnLoop, CallInv, StageInv
<1>6. Own(c) /\ loop' \in Calls \cup {Nobody}
  BY <1>3, <1>4, <1>5, CallFacts DEF Own
<1>7. CallInv(c)'
  BY <1>1, <1>3, <1>4 DEF CallInv, StageInv, LoopInv, ConsentInv, SeenInv, DenialInv, Settled,
     Before,
     OnLoop, Held, RunPlaces, InstallPlaces, Places, Fields
<1>. QED BY <1>3, <1>4, <1>6, <1>7, CallFacts, OwnStep DEF Places, Fields

\* The end of a cancelled stream, with its directory removed or not.
LEMMA KilledEnds ==
    ASSUME IInv, NEW c \in Calls, ReapStream(c) \/ CancelAgain(c)
    PROVE  IInv'
<1>1. Shaped /\ CallInv(c) /\ c # Nobody
  BY CallFacts
<1>2. PICK left \in Workdirs : /\ left # "owned" /\ (left = "made" => call[c].workdir = "made")
                               /\ Update(c, [pc |-> "close", workdir |-> left])
  <2>1. CASE ReapStream(c)
    <3>1. PICK left \in LeftOf(call[c].workdir, "owned") : Update(c, [pc |-> "close", workdir |-> left])
      BY <2>1, Zenon DEF ReapStream
    <3>2. left \in Workdirs /\ left # "owned" /\ (left = "made" => call[c].workdir = "made")
      BY CallFacts, LeftFacts
    <3>. QED BY <3>1, <3>2
  <2>2. CASE CancelAgain(c)
    <3>. DEFINE left == IF call[c].workdir = "owned" THEN "skipped" ELSE call[c].workdir
    <3>1. Update(c, [pc |-> "close", workdir |-> left])
      BY <2>2, Zenon DEF CancelAgain
    <3>2. left \in Workdirs /\ left # "owned" /\ (left = "made" => call[c].workdir = "made")
      BY CallFacts DEF Workdirs
    <3>. QED BY <3>1, <3>2
  <2>. QED BY <2>1, <2>2
<1>3. /\ call[c].pc = "killed" /\ loop = Nobody /\ loop' = c
      /\ cache' = cache /\ UNCHANGED <<policy, native, writable, binary>> /\ Quiet(c)
  BY DEF ReapStream, CancelAgain, Quiet, Silent
<1>4. /\ Shaped' /\ \A d \in Calls \ {c} : call'[d] = call[d]
      /\ call'[c].pc = "close" /\ call'[c].workdir = left
      /\ \A f \in Fields \ {"pc", "workdir"} : call'[c][f] = call[c][f]
  BY <1>1, <1>2, UpdateFacts DEF Fields
<1>5. Own(c) /\ loop' \in Calls \cup {Nobody}
  BY <1>3, <1>4, CallFacts DEF Own
<1>6. CallInv(c)'
  BY <1>1, <1>2, <1>3, <1>4 DEF CallInv, StageInv, LoopInv, ConsentInv, SeenInv, DenialInv, Settled,
     Before, OnLoop, Held, RunPlaces, InstallPlaces, Places, Fields
<1>. QED BY <1>2, <1>3, <1>4, <1>5, <1>6, CallFacts, OwnStep DEF Places, Fields

LEMMA NotifyKeeps ==
    ASSUME IInv, NEW c \in Calls, Notify(c)
    PROVE  IInv'
<1>1. Shaped /\ CallInv(c) /\ c # Nobody
  BY CallFacts
<1>2. /\ call[c].pc = "notify" /\ loop = Nobody /\ loop' = c
      /\ Update(c, [pc |-> "close"])
      /\ cache' = cache /\ UNCHANGED <<policy, native, writable, binary>> /\ Quiet(c)
  BY DEF Notify, Quiet, Silent
<1>3. /\ Shaped' /\ \A d \in Calls \ {c} : call'[d] = call[d]
      /\ call'[c].pc = "close"
      /\ \A f \in Fields \ {"pc"} : call'[c][f] = call[c][f]
  BY <1>1, <1>2, UpdateFacts DEF Fields
<1>4. Own(c) /\ loop' \in Calls \cup {Nobody}
  BY <1>2, <1>3, CallFacts DEF Own
<1>5. CallInv(c)'
  BY <1>1, <1>2, <1>3 DEF CallInv, StageInv, LoopInv, ConsentInv, SeenInv, DenialInv, Settled,
     Before, RunPlaces,
     InstallPlaces, Fields
<1>. QED BY <1>2, <1>3, <1>4, <1>5, CallFacts, OwnStep DEF Places, Fields

LEMMA AnswerKeeps ==
    ASSUME IInv, NEW c \in Calls, Answer(c)
    PROVE  IInv'
<1>1. Shaped /\ CallInv(c) /\ c # Nobody
  BY CallFacts
<1>2. /\ call[c].pc = "answer" /\ (IF OnLoop(c) THEN loop = c ELSE loop = Nobody) /\ loop' = Nobody
      /\ Update(c, [pc |-> "done", answer |-> IF call[c].answer = "none" THEN call[c].outcome ELSE call[c].answer])
      /\ cache' = cache /\ UNCHANGED <<policy, native, writable, binary>> /\ Quiet(c)
  BY DEF Answer, Quiet, Silent
<1>3. /\ Shaped' /\ \A d \in Calls \ {c} : call'[d] = call[d]
      /\ call'[c].pc = "done"
      /\ call'[c].answer = IF call[c].answer = "none" THEN call[c].outcome ELSE call[c].answer
      /\ \A f \in Fields \ {"pc", "answer"} : call'[c][f] = call[c][f]
  BY <1>1, <1>2, UpdateFacts DEF Fields
<1>4. Own(c) /\ loop' \in Calls \cup {Nobody}
  BY <1>2, <1>3 DEF Own
<1>5. CallInv(c)'
  BY <1>1, <1>2, <1>3 DEF CallInv, StageInv, LoopInv, ConsentInv, SeenInv, DenialInv, Settled,
     Before, 
     Held, RunPlaces, InstallPlaces, Fields
<1>. QED BY <1>2, <1>3, <1>4, <1>5, CallFacts, OwnStep DEF Places, Fields

LEMMA SelectKeeps ==
    ASSUME IInv, NEW c \in Calls, Select(c)
    PROVE  IInv'
<1>1. Shaped /\ CallInv(c) /\ c # Nobody
  BY CallFacts
<1>2. /\ call[c].pc = "select" /\ Turn(c) /\ loop' = loop
      /\ cache' = cache /\ UNCHANGED <<policy, native, writable, binary>> /\ Quiet(c)
  BY DEF Select, Quiet, Kinds, Emit, Silent
<1>3. ASSUME Finish(c, "validation") PROVE IInv'
  <2>1. /\ "validation" \notin {"ended", "broken"} /\ ~call[c].running
        /\ call[c].pc \in Early /\ (OnLoop(c) => loop' = c)
        /\ loop' \in Calls \cup {Nobody} /\ (loop \in Calls \ {c} => loop' = loop)
    BY <1>2, CallFacts DEF Turn, Early
  <2>. QED BY <1>2, <1>3, <2>1, FinishKeeps
<1>4. ASSUME Update(c, [pc |-> IF call[c].req.provider = "local" /\ native THEN "stat" ELSE "decide"])
      PROVE  IInv'
  <2>1. /\ Shaped' /\ \A d \in Calls \ {c} : call'[d] = call[d]
        /\ call'[c].pc = IF call[c].req.provider = "local" /\ native THEN "stat" ELSE "decide"
        /\ \A f \in Fields \ {"pc"} : call'[c][f] = call[c][f]
    BY <1>1, <1>4, UpdateFacts DEF Fields
  <2>2. Own(c) /\ loop' \in Calls \cup {Nobody}
    BY <1>2, <2>1, CallFacts DEF Own
  <2>3. CallInv(c)'
    BY <1>1, <1>2, <2>1 DEF CallInv, StageInv, LoopInv, ConsentInv, SeenInv, DenialInv, Settled,
       Before, OnLoop,
       Held, RunPlaces, InstallPlaces, Places, Fields
  <2>. QED BY <1>2, <2>1, <2>2, <2>3, CallFacts, OwnStep DEF Places, Fields
<1>. QED BY <1>2, <1>3, <1>4 DEF Select

LEMMA DependencyGateKeeps ==
    ASSUME IInv, NEW c \in Calls, DependencyGate(c)
    PROVE  IInv'
<1>1. Shaped /\ CallInv(c) /\ c # Nobody
  BY CallFacts
<1>2. /\ call[c].pc = "depgate" /\ Turn(c) /\ loop' = loop
      /\ cache' = cache /\ UNCHANGED <<policy, native, writable, binary>> /\ Quiet(c)
  BY DEF DependencyGate, Quiet, Silent
<1>3. ASSUME Update(c, [pc |-> "run"])
      PROVE  IInv'
  <2>1. /\ Shaped' /\ \A d \in Calls \ {c} : call'[d] = call[d]
        /\ call'[c].pc = "run"
        /\ \A f \in Fields \ {"pc"} : call'[c][f] = call[c][f]
    BY <1>1, <1>3, UpdateFacts DEF Fields
  <2>2. Own(c) /\ loop' \in Calls \cup {Nobody}
    BY <1>2, <2>1, CallFacts DEF Own
  <2>3. CallInv(c)'
    BY <1>1, <1>2, <2>1 DEF CallInv, StageInv, LoopInv, ConsentInv, SeenInv, DenialInv, Settled,
       Before, OnLoop,
       Held, RunPlaces, InstallPlaces, Places, Fields
  <2>. QED BY <1>2, <2>1, <2>2, <2>3, CallFacts, OwnStep DEF Places, Fields
<1>4. ASSUME Finish(c, "unsupported") PROVE IInv'
  <2>1. /\ "unsupported" \notin {"ended", "broken"} /\ ~call[c].running
        /\ call[c].pc \in Early /\ (OnLoop(c) => loop' = c)
        /\ loop' \in Calls \cup {Nobody} /\ (loop \in Calls \ {c} => loop' = loop)
    BY <1>2, CallFacts DEF Turn, Early
  <2>. QED BY <1>2, <1>4, <2>1, FinishKeeps
<1>5. ASSUME Finish(c, "permission") PROVE IInv'
  <2>1. /\ "permission" \notin {"ended", "broken"} /\ ~call[c].running
        /\ call[c].pc \in Early /\ (OnLoop(c) => loop' = c)
        /\ loop' \in Calls \cup {Nobody} /\ (loop \in Calls \ {c} => loop' = loop)
    BY <1>2, CallFacts DEF Turn, Early
  <2>. QED BY <1>2, <1>5, <2>1, FinishKeeps
<1>6. ASSUME Update(c, [pc |-> "deps", workdir |-> IF InSession(call[c].req) THEN "none" ELSE "made"])
      PROVE  IInv'
  <2>1. /\ Shaped' /\ \A d \in Calls \ {c} : call'[d] = call[d]
        /\ call'[c].pc = "deps"
        /\ call'[c].workdir = IF InSession(call[c].req) THEN "none" ELSE "made"
        /\ \A f \in Fields \ {"pc", "workdir"} : call'[c][f] = call[c][f]
    BY <1>1, <1>6, UpdateFacts DEF Fields
  <2>2. Own(c) /\ loop' \in Calls \cup {Nobody}
    BY <1>2, <2>1, CallFacts DEF Own
  <2>3. CallInv(c)'
    BY <1>1, <1>2, <2>1 DEF CallInv, StageInv, LoopInv, ConsentInv, SeenInv, DenialInv, Settled,
       Before, OnLoop,
       Held, RunPlaces, InstallPlaces, Places, Fields
  <2>. QED BY <1>2, <2>1, <2>2, <2>3, CallFacts, OwnStep DEF Places, Fields, Workdirs
<1>. QED BY <1>2, <1>3, <1>4, <1>5, <1>6 DEF DependencyGate

LEMMA InstallDependenciesKeeps ==
    ASSUME IInv, NEW c \in Calls, InstallDependencies(c)
    PROVE  IInv'
<1>1. Shaped /\ CallInv(c) /\ c # Nobody
  BY CallFacts
<1>2. /\ call[c].pc = "deps" /\ Turn(c) /\ loop' = loop
      /\ cache' = cache /\ UNCHANGED <<policy, native, writable, binary>> /\ Quiet(c)
  BY DEF InstallDependencies, Quiet, Kinds, Emit, Silent, InstallDenied
<1>3. ASSUME Update(c, [pc |-> "run"])
      PROVE  IInv'
  <2>1. /\ Shaped' /\ \A d \in Calls \ {c} : call'[d] = call[d]
        /\ call'[c].pc = "run"
        /\ \A f \in Fields \ {"pc"} : call'[c][f] = call[c][f]
    BY <1>1, <1>3, UpdateFacts DEF Fields
  <2>2. Own(c) /\ loop' \in Calls \cup {Nobody}
    BY <1>2, <2>1, CallFacts DEF Own
  <2>3. CallInv(c)'
    BY <1>1, <1>2, <2>1 DEF CallInv, StageInv, LoopInv, ConsentInv, SeenInv, DenialInv, Settled,
       Before, OnLoop,
       Held, RunPlaces, InstallPlaces, Places, Fields
  <2>. QED BY <1>2, <2>1, <2>2, <2>3, CallFacts, OwnStep DEF Places, Fields
<1>4. ASSUME Finish(c, "not_installed") PROVE IInv'
  <2>1. /\ "not_installed" \notin {"ended", "broken"} /\ ~call[c].running
        /\ call[c].pc \in Early /\ (OnLoop(c) => loop' = c)
        /\ loop' \in Calls \cup {Nobody} /\ (loop \in Calls \ {c} => loop' = loop)
    BY <1>2, CallFacts DEF Turn, Early
  <2>. QED BY <1>2, <1>4, <2>1, FinishKeeps
<1>5. ASSUME Finish(c, "permission") PROVE IInv'
  <2>1. /\ "permission" \notin {"ended", "broken"} /\ ~call[c].running
        /\ call[c].pc \in Early /\ (OnLoop(c) => loop' = c)
        /\ loop' \in Calls \cup {Nobody} /\ (loop \in Calls \ {c} => loop' = loop)
    BY <1>2, CallFacts DEF Turn, Early
  <2>. QED BY <1>2, <1>5, <2>1, FinishKeeps
<1>6. ASSUME Update(c, [pc |-> "answer", outcome |-> "raised", workdir |-> IF call[c].workdir = "made" THEN "raised" ELSE "none"])
      PROVE  IInv'
  <2>1. /\ Shaped' /\ \A d \in Calls \ {c} : call'[d] = call[d]
        /\ call'[c].pc = "answer"
        /\ call'[c].outcome = "raised"
        /\ call'[c].workdir = IF call[c].workdir = "made" THEN "raised" ELSE "none"
        /\ \A f \in Fields \ {"pc", "outcome", "workdir"} : call'[c][f] = call[c][f]
    BY <1>1, <1>6, UpdateFacts DEF Fields
  <2>2. Own(c) /\ loop' \in Calls \cup {Nobody}
    BY <1>2, <2>1, CallFacts DEF Own
  <2>3. CallInv(c)'
    BY <1>1, <1>2, <2>1 DEF CallInv, StageInv, LoopInv, ConsentInv, SeenInv, DenialInv, Settled,
       Before, OnLoop,
       Held, RunPlaces, InstallPlaces, Places, Fields
  <2>. QED BY <1>2, <2>1, <2>2, <2>3, CallFacts, OwnStep DEF Places, Fields, Workdirs
<1>. QED BY <1>2, <1>3, <1>4, <1>5, <1>6 DEF InstallDependencies

LEMMA EndInstallKeeps ==
    ASSUME IInv, NEW c \in Calls, EndInstall(c)
    PROVE  IInv'
<1>1. Shaped /\ CallInv(c) /\ c # Nobody
  BY CallFacts
<1>2. /\ call[c].pc = "installing" /\ Turn(c)
      /\ cache' = cache /\ UNCHANGED <<policy, native, writable, binary>> /\ Quiet(c)
  BY DEF EndInstall, Quiet, Silent
<1>3. ASSUME Update(c, [pc |-> "close", outcome |-> "not_installed", running |-> FALSE]), loop' = loop
      PROVE  IInv'
  <2>1. /\ Shaped' /\ \A d \in Calls \ {c} : call'[d] = call[d]
        /\ call'[c].pc = "close"
        /\ call'[c].outcome = "not_installed"
        /\ call'[c].running = FALSE
        /\ \A f \in Fields \ {"pc", "outcome", "running"} : call'[c][f] = call[c][f]
    BY <1>1, <1>3, UpdateFacts DEF Fields
  <2>2. Own(c) /\ loop' \in Calls \cup {Nobody}
    BY <1>1, <1>2, <1>3, <2>1 DEF Own, Turn, OnLoop, CallInv, StageInv, InstallPlaces
  <2>3. CallInv(c)'
    BY <1>1, <1>2, <1>3, <2>1 DEF CallInv, StageInv, LoopInv, ConsentInv, SeenInv, DenialInv,
       Settled, Before,
       OnLoop, Held, RunPlaces, InstallPlaces, Places, Fields
  <2>. QED BY <1>2, <2>1, <2>2, <2>3, CallFacts, OwnStep DEF Places, Fields
<1>4. ASSUME Update(c, [pc |-> "notify", outcome |-> "installed", running |-> FALSE]), loop' = Nobody
      PROVE  IInv'
  <2>1. /\ Shaped' /\ \A d \in Calls \ {c} : call'[d] = call[d]
        /\ call'[c].pc = "notify"
        /\ call'[c].outcome = "installed"
        /\ call'[c].running = FALSE
        /\ \A f \in Fields \ {"pc", "outcome", "running"} : call'[c][f] = call[c][f]
    BY <1>1, <1>4, UpdateFacts DEF Fields
  <2>2. Own(c) /\ loop' \in Calls \cup {Nobody}
    BY <1>1, <1>2, <1>4, <2>1 DEF Own, Turn, OnLoop, CallInv, StageInv, InstallPlaces
  <2>3. CallInv(c)'
    BY <1>1, <1>2, <2>1 DEF CallInv, StageInv, LoopInv, ConsentInv, SeenInv, DenialInv, Settled,
       Before, Held,
       RunPlaces, InstallPlaces, Fields
  <2>. QED BY <1>2, <2>1, <2>2, <2>3, CallFacts, OwnStep DEF Places, Fields
<1>. QED BY <1>2, <1>3, <1>4 DEF EndInstall

LEMMA StartInstallKeeps ==
    ASSUME IInv, NEW c \in Calls, StartInstall(c)
    PROVE  IInv'
<1>1. Shaped /\ CallInv(c) /\ c # Nobody
  BY CallFacts
<1>2. /\ call[c].pc = "install" /\ Turn(c) /\ loop' = loop
      /\ cache' = cache /\ UNCHANGED <<policy, native, writable, binary>> /\ Quiet(c)
  BY DEF StartInstall, Quiet, Kinds, Emit, Silent, InstallDenied
<1>3. ASSUME Finish(c, "validation") PROVE IInv'
  <2>1. /\ "validation" \notin {"ended", "broken"} /\ ~call[c].running
        /\ call[c].pc \in Early /\ (OnLoop(c) => loop' = c)
        /\ loop' \in Calls \cup {Nobody} /\ (loop \in Calls \ {c} => loop' = loop)
    BY <1>2, CallFacts DEF Turn, Early
  <2>. QED BY <1>2, <1>3, <2>1, FinishKeeps
<1>4. ASSUME Finish(c, "permission") PROVE IInv'
  <2>1. /\ "permission" \notin {"ended", "broken"} /\ ~call[c].running
        /\ call[c].pc \in Early /\ (OnLoop(c) => loop' = c)
        /\ loop' \in Calls \cup {Nobody} /\ (loop \in Calls \ {c} => loop' = loop)
    BY <1>2, CallFacts DEF Turn, Early
  <2>. QED BY <1>2, <1>4, <2>1, FinishKeeps
<1>5. ASSUME Update(c, [pc |-> "installing", running |-> TRUE])
      PROVE  IInv'
  <2>1. /\ Shaped' /\ \A d \in Calls \ {c} : call'[d] = call[d]
        /\ call'[c].pc = "installing"
        /\ call'[c].running = TRUE
        /\ \A f \in Fields \ {"pc", "running"} : call'[c][f] = call[c][f]
    BY <1>1, <1>5, UpdateFacts DEF Fields
  <2>2. Own(c) /\ loop' \in Calls \cup {Nobody}
    BY <1>1, <1>2, <2>1 DEF Own, Turn, OnLoop, CallInv, StageInv, InstallPlaces
  <2>3. CallInv(c)'
    BY <1>1, <1>2, <2>1 DEF CallInv, StageInv, LoopInv, ConsentInv, SeenInv, DenialInv, Settled,
       Before, OnLoop,
       Held, RunPlaces, InstallPlaces, Places, Fields
  <2>. QED BY <1>2, <2>1, <2>2, <2>3, CallFacts, OwnStep DEF Places, Fields
<1>. QED BY <1>2, <1>3, <1>4, <1>5 DEF StartInstall

LEMMA EndRunKeeps ==
    ASSUME IInv, NEW c \in Calls, EndRun(c)
    PROVE  IInv'
<1>1. Shaped /\ CallInv(c) /\ c # Nobody
  BY CallFacts
<1>2. /\ call[c].pc = "await" /\ (OnLoop(c) => loop \in {Nobody, c})
      /\ loop' = IF OnLoop(c) THEN c ELSE loop
      /\ cache' = cache /\ UNCHANGED <<policy, native, writable, binary>> /\ Quiet(c)
  BY DEF EndRun, Quiet, Kinds, Emit, Silent, CleanupAudited
<1>3. PICK outcome \in Outcomes(c), left \in LeftOf(call[c].workdir, "owned") :
        Update(c, [pc |-> "close", running |-> FALSE, outcome |-> outcome, workdir |-> left,
                   unenforced |-> Reported(c, outcome)])
  BY Zenon DEF EndRun
<1>4. left \in Workdirs /\ left # "owned" /\ (left = "made" => call[c].workdir = "made")
  BY CallFacts, LeftFacts
<1>5. /\ Shaped' /\ \A d \in Calls \ {c} : call'[d] = call[d]
      /\ call'[c].pc = "close" /\ call'[c].running = FALSE /\ call'[c].outcome = outcome
      /\ call'[c].workdir = left /\ call'[c].unenforced = Reported(c, outcome)
      /\ \A f \in Fields \ {"pc", "running", "outcome", "workdir", "unenforced"} : call'[c][f] = call[c][f]
  BY <1>1, <1>3, UpdateFacts DEF Fields
<1>6. Own(c) /\ loop' \in Calls \cup {Nobody}
  BY <1>2, <1>5, CallFacts DEF Own
<1>7. StageInv(c)' /\ LoopInv(c)' /\ ConsentInv(c)' /\ SeenInv(c)'
  BY <1>1, <1>2, <1>4, <1>5 DEF CallInv, StageInv, LoopInv, ConsentInv, SeenInv, Before, OnLoop,
     RunPlaces, InstallPlaces, Fields
<1>8. DenialInv(c)'
  <2>1. outcome = "ended" /\ call[c].req.provider = "strict" => call[c].enforced
    BY DEF Outcomes
  <2>2. outcome = "ended" /\ call[c].noNet /\ ~call[c].enforced /\ call[c].req.provider = "local"
          => Reported(c, outcome)
    BY DEF Reported
  <2>3. /\ call'[c].decision = call[c].decision /\ call'[c].enforced = call[c].enforced
        /\ call'[c].pc = "close" /\ call'[c].outcome = outcome
        /\ call'[c].unenforced = Reported(c, outcome)
    BY <1>5 DEF Fields
  <2>. QED BY <1>1, <1>2, <2>1, <2>2, <2>3 DEF CallInv, DenialInv, Settled
<1>9. CallInv(c)'
  BY <1>7, <1>8 DEF CallInv
<1>. QED BY <1>2, <1>4, <1>5, <1>6, <1>9, CallFacts, OwnStep DEF Places, Fields

LEMMA DeadlineKeeps ==
    ASSUME IInv, NEW c \in Calls, Deadline(c)
    PROVE  IInv'
<1>1. Shaped /\ CallInv(c) /\ c # Nobody
  BY CallFacts
<1>2. /\ loop = Nobody /\ call[c].pc \notin {"idle", "done"}
      /\ cache' = cache /\ UNCHANGED <<policy, native, writable, binary>> /\ Quiet(c)
  BY DEF Deadline, Quiet, Silent
<1>3. ASSUME call[c].pc = "await", OnLoop(c), loop' = c,
             Update(c, [pc |-> "cancelled", answer |-> "timeout"])
      PROVE  IInv'
  <2>1. /\ Shaped' /\ \A d \in Calls \ {c} : call'[d] = call[d]
        /\ call'[c].pc = "cancelled"
        /\ call'[c].answer = "timeout"
        /\ \A f \in Fields \ {"pc", "answer"} : call'[c][f] = call[c][f]
    BY <1>1, <1>3, UpdateFacts DEF Fields
  <2>2. Own(c) /\ loop' \in Calls \cup {Nobody}
    BY <1>2, <1>3, <2>1, CallFacts DEF Own
  <2>3. CallInv(c)'
    BY <1>1, <1>2, <1>3, <2>1 DEF CallInv, StageInv, LoopInv, ConsentInv, SeenInv, DenialInv,
       Settled, Before,
       OnLoop, RunPlaces, InstallPlaces, Fields
  <2>. QED BY <1>2, <2>1, <2>2, <2>3, CallFacts, OwnStep DEF Places, Fields
<1>4. ASSUME call[c].pc \in {"elicit", "notify"}, loop' = loop,
             Update(c, [pc |-> "done", answer |-> "timeout"])
      PROVE  IInv'
  <2>1. /\ Shaped' /\ \A d \in Calls \ {c} : call'[d] = call[d]
        /\ call'[c].pc = "done"
        /\ call'[c].answer = "timeout"
        /\ \A f \in Fields \ {"pc", "answer"} : call'[c][f] = call[c][f]
    BY <1>1, <1>4, UpdateFacts DEF Fields
  <2>2. Own(c) /\ loop' \in Calls \cup {Nobody}
    BY <1>2, <1>4, <2>1 DEF Own
  <2>3. CallInv(c)'
    BY <1>1, <1>2, <1>4, <2>1 DEF CallInv, StageInv, LoopInv, ConsentInv, SeenInv, DenialInv,
       Settled, Before, Held,
       RunPlaces, InstallPlaces, Fields
  <2>. QED BY <1>2, <2>1, <2>2, <2>3, CallFacts, OwnStep DEF Places, Fields
<1>5. ASSUME ~(call[c].pc = "await" /\ OnLoop(c)), call[c].pc \notin {"elicit", "notify"}, loop' = loop,
             Update(c, [answer |-> "timeout"])
      PROVE  IInv'
  <2>1. /\ Shaped' /\ \A d \in Calls \ {c} : call'[d] = call[d]
        /\ call'[c].answer = "timeout"
        /\ \A f \in Fields \ {"answer"} : call'[c][f] = call[c][f]
    BY <1>1, <1>5, UpdateFacts DEF Fields
  <2>2. Own(c) /\ loop' \in Calls \cup {Nobody}
    BY <1>2, <1>5, <2>1 DEF Own
  <2>3. CallInv(c)'
    BY <1>1, <1>2, <1>5, <2>1 DEF CallInv, StageInv, LoopInv, ConsentInv, SeenInv, DenialInv,
       Settled, Before,
        OnLoop, Held, InstallPlaces, Places, Fields
  <2>. QED BY <1>2, <2>1, <2>2, <2>3, CallFacts, OwnStep DEF Places, Fields
<1>. QED BY <1>2, <1>3, <1>4, <1>5 DEF Deadline

LEMMA GateDecided ==
    ASSUME IInv, NEW c \in Calls, NEW r, GateDecision(c, r), call[c].pc \in {"gate", "elicit"},
           loop \in {c, Nobody}, loop' = c, cache' = cache,
           UNCHANGED <<policy, native, writable, binary>>
    PROVE  IInv'
<1>1. Shaped /\ CallInv(c) /\ c # Nobody
  BY CallFacts
<1>2. Quiet(c)
  BY DEF GateDecision, Quiet, Kinds, Emit
<1>3. ASSUME Update(c, [pc |-> "install", granted |-> "confirmed"])
      PROVE  IInv'
  <2>1. /\ Shaped' /\ \A d \in Calls \ {c} : call'[d] = call[d]
        /\ call'[c].pc = "install"
        /\ call'[c].granted = "confirmed"
        /\ \A f \in Fields \ {"pc", "granted"} : call'[c][f] = call[c][f]
    BY <1>1, <1>3, UpdateFacts DEF Fields
  <2>2. Own(c) /\ loop' \in Calls \cup {Nobody}
    BY <1>2, <2>1, CallFacts DEF Own
  <2>3. CallInv(c)'
    BY <1>1, <2>1 DEF CallInv, StageInv, LoopInv, ConsentInv, SeenInv, DenialInv, Settled, Before,
       RunPlaces,
       InstallPlaces, Fields
  <2>. QED BY <1>2, <2>1, <2>2, <2>3, CallFacts, OwnStep DEF Places, Fields
<1>4. ASSUME Finish(c, "refused") PROVE IInv'
  <2>1. /\ "refused" \notin {"ended", "broken"} /\ ~call[c].running
        /\ call[c].pc \in Early /\ (OnLoop(c) => loop' = c)
        /\ loop' \in Calls \cup {Nobody} /\ (loop \in Calls \ {c} => loop' = loop)
    BY CallFacts DEF Early
  <2>. QED BY <1>2, <1>4, <2>1, FinishKeeps
<1>. QED BY <1>3, <1>4 DEF GateDecision

LEMMA RequireConfirmationKeeps ==
    ASSUME IInv, NEW c \in Calls, RequireConfirmation(c)
    PROVE  IInv'
<1>1. Shaped /\ CallInv(c) /\ c # Nobody
  BY CallFacts
<1>2. /\ call[c].pc = "gate" /\ Turn(c) /\ loop = c /\ cache' = cache
      /\ UNCHANGED <<policy, native, writable, binary>>
  BY <1>1 DEF RequireConfirmation, Turn, OnLoop, CallInv, StageInv, InstallPlaces
<1>3. ASSUME Silent, loop' = loop, Finish(c, "ask") PROVE IInv'
  <2>1. /\ "ask" \notin {"ended", "broken"} /\ ~call[c].running
        /\ call[c].pc \in Early /\ (OnLoop(c) => loop' = c)
        /\ loop' \in Calls \cup {Nobody} /\ (loop \in Calls \ {c} => loop' = loop)
    BY <1>2, <1>3, CallFacts DEF Early
  <2>. QED BY <1>2, <1>3, <2>1, FinishKeeps DEF Silent, Quiet
<1>4. ASSUME NEW r \in Responses, GateDecision(c, r), loop' = loop PROVE IInv'
  BY <1>2, <1>4, GateDecided
<1>5. ASSUME Emit(<<c, "skipped">>), loop' = loop,
             Update(c, [pc |-> "install", granted |-> "skipped"])
      PROVE  IInv'
  <2>1. /\ Shaped' /\ \A d \in Calls \ {c} : call'[d] = call[d]
        /\ call'[c].pc = "install"
        /\ call'[c].granted = "skipped"
        /\ \A f \in Fields \ {"pc", "granted"} : call'[c][f] = call[c][f]
    BY <1>1, <1>5, UpdateFacts DEF Fields
  <2>2. Own(c) /\ loop' \in Calls \cup {Nobody}
    BY <1>2, <1>5, <2>1 DEF Emit, Kinds, Quiet, Own
  <2>3. CallInv(c)'
    BY <1>1, <1>2, <1>5, <2>1 DEF CallInv, StageInv, LoopInv, ConsentInv, SeenInv, DenialInv,
       Settled, Before,
       RunPlaces, InstallPlaces, Fields
  <2>. QED BY <1>2, <2>1, <2>2, <2>3, CallFacts, OwnStep DEF Places, Fields
<1>6. ASSUME Silent, loop' = Nobody,
             Update(c, [pc |-> "elicit"])
      PROVE  IInv'
  <2>1. /\ Shaped' /\ \A d \in Calls \ {c} : call'[d] = call[d]
        /\ call'[c].pc = "elicit"
        /\ \A f \in Fields \ {"pc"} : call'[c][f] = call[c][f]
    BY <1>1, <1>6, UpdateFacts DEF Fields
  <2>2. Own(c) /\ loop' \in Calls \cup {Nobody}
    BY <1>2, <1>6, <2>1 DEF Silent, Quiet, Own
  <2>3. CallInv(c)'
    BY <1>1, <1>2, <2>1 DEF CallInv, StageInv, LoopInv, ConsentInv, SeenInv, DenialInv, Settled,
       Before, Held,
       RunPlaces, InstallPlaces, Fields
  <2>. QED BY <1>2, <2>1, <2>2, <2>3, CallFacts, OwnStep DEF Places, Fields
<1>. QED BY <1>3, <1>4, <1>5, <1>6 DEF RequireConfirmation

LEMMA ElicitReturnsKeeps ==
    ASSUME IInv, NEW c \in Calls, ElicitReturns(c)
    PROVE  IInv'
BY GateDecided DEF ElicitReturns

LEMMA ArriveKeeps ==
    ASSUME IInv, NEW c \in Calls, Arrive(c)
    PROVE  IInv'
<1>1. Shaped /\ CallInv(c) /\ c # Nobody
  BY CallFacts
<1>2. /\ call[c].pc = "idle"
      /\ cache' = cache /\ UNCHANGED <<policy, native, writable, binary>> /\ Quiet(c)
  BY DEF Arrive, Quiet, Silent
<1>0. Requests[c] \subseteq RequestType
  BY ToolCallsAssumption DEF ToolCallsAssumption
<1>3. ASSUME NEW req \in Requests[c], req.tool \in {"stream", "install"} => loop = Nobody,
             loop' = IF req.tool \in {"stream", "install"} THEN c ELSE loop,
             Update(c, [pc |-> IF req.tool = "install" THEN "gate" ELSE "select", req |-> req])
      PROVE  IInv'
  <2>1. /\ Shaped' /\ \A d \in Calls \ {c} : call'[d] = call[d]
        /\ call'[c].pc = IF req.tool = "install" THEN "gate" ELSE "select"
        /\ call'[c].req = req
        /\ \A f \in Fields \ {"pc", "req"} : call'[c][f] = call[c][f]
    BY <1>1, <1>3, UpdateFacts DEF Fields
  <2>2. Own(c) /\ loop' \in Calls \cup {Nobody}
    BY <1>2, <1>3, <2>1, CallFacts DEF Own
  <2>3. CallInv(c)'
    BY <1>1, <1>2, <1>3, <2>1, <1>0 DEF Idle, CallInv, StageInv, LoopInv, ConsentInv, SeenInv,
       DenialInv, Settled, Before, OnLoop, RunPlaces, InstallPlaces, Fields
  <2>. QED BY <1>2, <2>1, <2>2, <2>3, CallFacts, OwnStep DEF Places, Fields
<1>. QED BY <1>2, <1>3 DEF Arrive

LEMMA StartRunKeeps ==
    ASSUME IInv, NEW c \in Calls, StartRun(c)
    PROVE  IInv'
<1>1. Shaped /\ CallInv(c) /\ c # Nobody
  BY CallFacts
<1>2. /\ call[c].pc = "run" /\ Turn(c)
      /\ cache' = cache /\ UNCHANGED <<policy, native, writable, binary>> /\ Quiet(c)
  BY DEF StartRun, Quiet, Silent
<1>3. ASSUME loop' = loop, Finish(c, "unsupported") PROVE IInv'
  <2>1. /\ "unsupported" \notin {"ended", "broken"} /\ ~call[c].running
        /\ call[c].pc \in Early /\ (OnLoop(c) => loop' = c)
        /\ loop' \in Calls \cup {Nobody} /\ (loop \in Calls \ {c} => loop' = loop)
    BY <1>2, <1>3, CallFacts DEF Turn, Early
  <2>. QED BY <1>2, <1>3, <2>1, FinishKeeps
<1>4. ASSUME loop' = loop, Finish(c, "unavailable") PROVE IInv'
  <2>1. /\ "unavailable" \notin {"ended", "broken"} /\ ~call[c].running
        /\ call[c].pc \in Early /\ (OnLoop(c) => loop' = c)
        /\ loop' \in Calls \cup {Nobody} /\ (loop \in Calls \ {c} => loop' = loop)
    BY <1>2, <1>4, CallFacts DEF Turn, Early
  <2>. QED BY <1>2, <1>4, <2>1, FinishKeeps
<1>5. ASSUME NEW running \in BOOLEAN, NEW enforced, NEW workdir \in Workdirs,
             Update(c, [pc |-> "await", running |-> running, enforced |-> enforced, workdir |-> workdir]),
             loop' = loop \/ (OnLoop(c) /\ loop' = Nobody),
             workdir \in {call[c].workdir, "owned"},
             native /\ call[c].req.tool = "stream" => workdir \in {"made", "owned"},
             enforced \/ ~call[c].noNet \/ call[c].req.provider \in {"local", "strict"}
      PROVE  IInv'
  <2>1. /\ Shaped' /\ \A d \in Calls \ {c} : call'[d] = call[d]
        /\ call'[c].pc = "await" /\ call'[c].running = running
        /\ call'[c].enforced = enforced /\ call'[c].workdir = workdir
        /\ \A f \in Fields \ {"pc", "running", "enforced", "workdir"} : call'[c][f] = call[c][f]
    BY <1>1, <1>5, UpdateFacts DEF Fields
  <2>2. Own(c) /\ loop' \in Calls \cup {Nobody}
    BY <1>2, <1>5, <2>1, CallFacts DEF Own, CallInv, LoopInv, Held
  <2>3. DenialInv(c)'
    BY <1>1, <1>2, <1>5, <2>1 DEF CallInv, DenialInv, Settled, Fields
  <2>4. StageInv(c)' /\ LoopInv(c)' /\ ConsentInv(c)' /\ SeenInv(c)'
    BY <1>1, <1>2, <1>5, <2>1 DEF CallInv, StageInv, LoopInv, ConsentInv, SeenInv, Held, RunPlaces,
       InstallPlaces, Before, Fields
  <2>5. CallInv(c)'
    BY <2>3, <2>4 DEF CallInv
  <2>. QED BY <1>2, <1>5, <2>1, <2>2, <2>5, CallFacts, OwnStep DEF Places, Fields
<1>6. ASSUME NEW running \in BOOLEAN, NEW enforced, loop' = loop,
             Update(c, [pc |-> "await", running |-> running, enforced |-> enforced]),
             call[c].req.tool # "stream",
             enforced \/ ~call[c].noNet \/ call[c].req.provider \in {"local", "strict"}
      PROVE  IInv'
  <2>1. With(call[c], [pc |-> "await", running |-> running, enforced |-> enforced])
        = With(call[c], [pc |-> "await", running |-> running, enforced |-> enforced,
                         workdir |-> call[c].workdir])
    BY DEF With
  <2>2. Update(c, [pc |-> "await", running |-> running, enforced |-> enforced,
                   workdir |-> call[c].workdir])
    BY <1>6, <2>1 DEF Update
  <2>3. call[c].workdir \in Workdirs
    BY CallFacts
  <2>. QED BY <1>5, <1>6, <2>2, <2>3
<1>7. CASE LocalRun(c)
  <2>. DEFINE enforced == call[c].req.tool # "worker" /\ LocallyEnforced(call[c].noNet)
  <2>1. Update(c, [pc |-> "await", running |-> TRUE, enforced |-> enforced])
    BY <1>7, Zenon DEF LocalRun, Running
  <2>2. loop' = loop /\ call[c].req.tool # "stream" /\ call[c].req.provider = "local"
    BY <1>7 DEF LocalRun
  <2>. HIDE DEF enforced
  <2>. QED BY <1>6, <2>1, <2>2
<1>8. CASE PistonRun(c)
  <2>1. loop' = loop /\ call[c].req.tool # "stream"
    BY <1>8 DEF PistonRun
  <2>2. CASE call[c].noNet
    BY <1>3, <1>8, <2>1, <2>2, Zenon DEF PistonRun
  <2>3. CASE ~call[c].noNet
    <3>1. Update(c, [pc |-> "await", running |-> TRUE, enforced |-> FALSE])
      BY <1>8, <2>3, Zenon DEF PistonRun, Running
    <3>. QED BY <1>6, <2>1, <2>3, <3>1
  <2>. QED BY <2>2, <2>3
<1>9. CASE NativeStrictRun(c)
  BY <1>9, <1>4 DEF NativeStrictRun
<1>10. CASE RemoteStrictRun(c)
  <2>1. PICK attested, enforced \in BOOLEAN :
          Update(c, [pc |-> "await", running |-> attested, enforced |-> enforced])
    BY <1>10, Zenon DEF RemoteStrictRun
  <2>2. loop' = loop /\ call[c].req.tool # "stream" /\ call[c].req.provider = "strict"
    BY <1>10 DEF RemoteStrictRun
  <2>. QED BY <1>6, <2>1, <2>2
<1>11. CASE StreamRun(c)
  <2>1. OnLoop(c)
    BY <1>11 DEF StreamRun, OnLoop
  <2>2. CASE call[c].req.provider # "local"
    BY <1>11, <1>3, <2>2, Zenon DEF StreamRun
  <2>3. CASE call[c].req.provider = "local"
    <3>. DEFINE workdir == IF native /\ call[c].workdir = "none" THEN "owned" ELSE call[c].workdir
                enforced == LocallyEnforced(call[c].noNet)
    <3>1. Update(c, [pc |-> "await", running |-> TRUE, enforced |-> enforced, workdir |-> workdir])
      BY <1>11, <2>3, Zenon DEF StreamRun
    <3>2. loop' = loop \/ (OnLoop(c) /\ loop' = Nobody)
      BY <1>11, <2>1, <2>3 DEF StreamRun
    <3>3. call[c].workdir \in {"none", "made"}
      BY <1>1, <1>2 DEF CallInv, StageInv
    <3>4. /\ workdir \in Workdirs /\ workdir \in {call[c].workdir, "owned"}
          /\ native => workdir \in {"made", "owned"}
      BY <3>3 DEF Workdirs
    <3>. HIDE DEF enforced, workdir
    <3>. QED BY <1>5, <2>3, <3>1, <3>2, <3>4
  <2>. QED BY <2>2, <2>3
<1>. QED BY <1>2, <1>7, <1>8, <1>9, <1>10, <1>11 DEF StartRun

LEMMA BrokerRunKeeps ==
    ASSUME IInv, NEW c \in Calls, BrokerRun(c)
    PROVE  IInv'
<1>. DEFINE req == call[c].req
            d == Decided(req.noNet, Supports(req.provider, cache'.kernel))
<1>1. Shaped /\ CallInv(c) /\ c # Nobody
  BY CallFacts
<1>2. /\ call[c].pc = "decide" /\ Turn(c) /\ loop' = loop
      /\ UNCHANGED <<policy, native, writable, binary>> /\ Quiet(c)
  BY DEF BrokerRun, Quiet, Kinds, Emit, Silent
<1>3. CacheInv' /\ cache' \in CacheType
  <2>1. CASE cache' = cache
    BY <2>1, <1>2 DEF IInv, Typed, CacheInv, CacheHonest
  <2>2. CASE \E answer \in ProbeAnswers :
                cache' = [cache EXCEPT !.id = call[c].seen, !.kernel = answer]
    <3>1. PICK answer \in ProbeAnswers :
                cache' = [cache EXCEPT !.id = call[c].seen, !.kernel = answer]
      BY <2>2
    <3>2. call[c].seen \in binary.past /\ call[c].seen \in Nat /\ 0 \in binary.past
      BY <1>1, BinaryId DEF CallInv, SeenInv
    <3>3. answer \in BOOLEAN /\ (answer => binary.kernel)
      BY BinaryId DEF ProbeAnswers
    <3>4. cache \in CacheType
      BY DEF IInv, Typed
    <3>5. cache'.id = call[c].seen /\ cache'.kernel = answer /\ cache' \in CacheType
      BY <3>1, <3>2, <3>3, <3>4 DEF CacheType
    <3>. QED BY <1>2, <3>2, <3>3, <3>5, BinaryId DEF CacheInv, CacheHonest
  <2>. QED BY <2>1, <2>2 DEF BrokerRun, Probed
<1>4. req \in RequestType
  BY <1>1, <1>2 DEF CallInv, StageInv
<1>5. req.noNet \in BOOLEAN
  BY <1>4 DEF RequestType
<1>. HIDE DEF req, d
<1>6. ASSUME Update(c, [pc |-> "close", outcome |-> "permission", decision |-> d, seen |-> 0])
      PROVE  IInv'
  <2>1. /\ Shaped' /\ \A e \in Calls \ {c} : call'[e] = call[e]
        /\ call'[c].pc = "close"
        /\ call'[c].outcome = "permission" /\ call'[c].seen = 0
        /\ \A f \in Fields \ {"pc", "outcome", "decision", "seen"} : call'[c][f] = call[c][f]
    BY <1>1, <1>6, UpdateFacts DEF Fields
  <2>2. Own(c) /\ loop' \in Calls \cup {Nobody}
    BY <1>2, <2>1, CallFacts DEF Own
  <2>3. CallInv(c)'
    BY <1>1, <1>2, <2>1, BinaryId DEF CallInv, StageInv, LoopInv, ConsentInv, SeenInv, DenialInv,
       Settled, Before, OnLoop,
       Held, RunPlaces, InstallPlaces, Places, Fields
  <2>. QED BY <1>3, <2>1, <2>2, <2>3, CallFacts, CachedStep DEF Places, Fields
<1>7. ASSUME ~d.rejected,
             Update(c, [pc |-> "depgate", decision |-> d, noNet |-> EnforcedSpec(req.noNet, d), seen |-> 0])
      PROVE  IInv'
  <2>1. /\ Shaped' /\ \A e \in Calls \ {c} : call'[e] = call[e]
        /\ call'[c].pc = "depgate"
        /\ call'[c].decision = d
        /\ call'[c].noNet = EnforcedSpec(req.noNet, d) /\ call'[c].seen = 0
        /\ \A f \in Fields \ {"pc", "decision", "noNet", "seen"} : call'[c][f] = call[c][f]
    BY <1>1, <1>7, UpdateFacts DEF Fields
  <2>2. Own(c) /\ loop' \in Calls \cup {Nobody}
    BY <1>2, <2>1, CallFacts DEF Own
  <2>3. Network \in d.denied => /\ Network \in d.effective \/ EnforcedSpec(req.noNet, d)
                               /\ Network \in d.effective <=> Network \notin d.supported
    BY <1>5, <1>7, BrokerDiscloses DEF d
  <2>4. DenialInv(c)'
    <3>1. /\ call'[c].pc = "depgate" /\ call'[c].decision = d
          /\ call'[c].noNet = EnforcedSpec(req.noNet, d) /\ call'[c].outcome = call[c].outcome
      BY <2>1 DEF Fields
    <3>2. call[c].outcome \notin {"ended", "broken"}
      BY <1>1, <1>2 DEF CallInv, DenialInv
    <3>3. Network \in d.denied => Network \in d.effective \/ call'[c].noNet
      BY <2>3, <3>1 DEF EnforcedSpec
    <3>4. Network \in d.denied => (Network \in d.effective <=> Network \notin d.supported)
      BY <2>3
    <3>5. call'[c].pc # "await" /\ call'[c].outcome \notin {"ended", "broken"}
      BY <3>1, <3>2
    <3>. QED BY <3>1, <3>3, <3>4, <3>5 DEF DenialInv, Settled
  <2>5. StageInv(c)' /\ LoopInv(c)' /\ ConsentInv(c)' /\ SeenInv(c)'
    BY <1>1, <1>2, <2>1, BinaryId DEF CallInv, StageInv, LoopInv, ConsentInv, SeenInv, Before,
       OnLoop,
       Held, RunPlaces, InstallPlaces, Places, Fields
  <2>6. CallInv(c)'
    BY <2>4, <2>5 DEF CallInv
  <2>. QED BY <1>3, <2>1, <2>2, <2>6, CallFacts, CachedStep DEF Places, Fields
<1>8. IF d.rejected THEN Update(c, [pc |-> "close", outcome |-> "permission", decision |-> d, seen |-> 0])
      ELSE Update(c, [pc |-> "depgate", decision |-> d, noNet |-> EnforcedSpec(req.noNet, d), seen |-> 0])
  BY Zenon DEF BrokerRun, d, req
<1>. QED BY <1>6, <1>7, <1>8

-----------------------------------------------------------------------------
(* The whole.                                                              *)

\* The import touches the cache only.
LEMMA ImportKeeps ==
    ASSUME IInv, ImportProbe \/ ImportIdentity
    PROVE  IInv'
<1>1. /\ call' = call /\ loop' = loop /\ files' = files
      /\ UNCHANGED <<policy, native, writable, binary>>
  BY DEF ImportProbe, ImportIdentity, Silent
<1>2. cache \in CacheType /\ binary \in BinaryType
  BY DEF IInv, Typed
<1>3. cache' \in CacheType /\ CacheInv'
  <2>1. CASE ImportProbe
    <3>1. PICK answer \in ProbeAnswers :
                cache' = [cache EXCEPT !.kernel = answer, !.step = "identify"]
      BY <2>1 DEF ImportProbe
    <3>2. answer \in BOOLEAN /\ (answer => binary.kernel)
      BY BinaryId DEF ProbeAnswers
    <3>3. /\ cache' \in CacheType /\ cache'.id = cache.id /\ cache'.kernel = answer
          /\ cache'.step = "identify"
      BY <1>2, <3>1, <3>2 DEF CacheType
    <3>. QED BY <1>1, <3>2, <3>3, BinaryId DEF CacheInv, CacheHonest
  <2>2. CASE ImportIdentity
    <3>1. cache.step = "identify" /\ cache' = [cache EXCEPT !.id = binary.id, !.step = "ready"]
      BY <2>2 DEF ImportIdentity
    <3>2. /\ cache' \in CacheType /\ cache'.id = binary.id /\ cache'.kernel = cache.kernel
          /\ cache'.step = "ready"
      BY <1>2, <3>1 DEF CacheType, BinaryType
    <3>. QED BY <1>1, <3>1, <3>2 DEF IInv, CacheInv, CacheHonest
  <2>. QED BY <2>1, <2>2
<1>4. Typed' /\ LogInv' /\ Shaped'
  BY <1>1, <1>3 DEF IInv, Typed, LogInv, Shaped
<1>5. ASSUME NEW c \in Calls PROVE CallInv(c)'
  BY <1>1 DEF IInv, CallInv, StageInv, LoopInv, ConsentInv, SeenInv, DenialInv, Settled, OnLoop
<1>. QED BY <1>3, <1>4, <1>5 DEF IInv

LEMMA ReplaceKeeps ==
    ASSUME IInv, Replace
    PROVE  IInv'
<1>1. /\ cache' = cache /\ call' = call /\ loop' = loop /\ binary.builds < MaxReplaced
      /\ files' = files /\ policy' = policy /\ native' = native /\ writable' = writable
  BY DEF Replace
<1>2. PICK build \in Builds :
        binary' = [id |-> build.id, kernel |-> build.kernel, past |-> binary.past \cup {build.id},
                   builds |-> binary.builds + 1,
                   lapsed |-> binary.lapsed \/ build.id \in binary.past \/ cache.step = "identify"]
  BY DEF Replace
<1>3. build.id \in Nat /\ build.kernel \in BOOLEAN
  BY ToolCallsAssumption DEF ToolCallsAssumption
<1>4. binary \in BinaryType /\ cache \in CacheType
  BY DEF IInv, Typed
<1>5. binary.builds + 1 \in 0 .. MaxReplaced
  BY <1>1, <1>4, Bounds DEF BinaryType
<1>6. /\ binary'.id = build.id /\ binary'.past = binary.past \cup {build.id}
      /\ binary'.kernel = build.kernel
      /\ binary'.lapsed = (binary.lapsed \/ build.id \in binary.past \/ cache.step = "identify")
  BY <1>2
<1>7. binary' \in BinaryType
  BY <1>2, <1>3, <1>4, <1>5 DEF BinaryType
<1>8. Typed' /\ LogInv' /\ Shaped'
  BY <1>1, <1>7 DEF IInv, Typed, LogInv, Shaped
<1>9. CacheInv'
  BY <1>1, <1>6 DEF IInv, CacheInv, CacheHonest
<1>10. ASSUME NEW c \in Calls PROVE CallInv(c)'
  <2>1. CallInv(c)
    BY DEF IInv
  <2>2. SeenInv(c)'
    BY <1>1, <1>6, <2>1 DEF CallInv, SeenInv
  <2>. QED BY <1>1, <2>1, <2>2 DEF CallInv, StageInv, LoopInv, ConsentInv, DenialInv, Settled,
              OnLoop
<1>. QED BY <1>8, <1>9, <1>10 DEF IInv

LEMMA StutterKeeps ==
    ASSUME IInv, UNCHANGED vars
    PROVE  IInv'
BY DEF vars, IInv, Typed, LogInv, Shaped, CacheInv, CacheHonest, CallInv, StageInv, LoopInv,
   ConsentInv,
       SeenInv, DenialInv, Settled, Before,  OnLoop

LEMMA NextKeeps ==
    ASSUME IInv, [Next]_vars
    PROVE  IInv'
<1>1. ASSUME NEW c \in Calls, Step(c) PROVE IInv'
  BY <1>1, SelectKeeps, ReadIdentityKeeps, BrokerRunKeeps, DependencyGateKeeps,
     InstallDependenciesKeeps, StartRunKeeps, EndRunKeeps, KillStreamKeeps, KilledEnds, CloseKeeps,
     RequireConfirmationKeeps, StartInstallKeeps, EndInstallKeeps, NotifyKeeps, AnswerKeeps DEF Step
<1>2. ASSUME NEW c \in Calls, Arrive(c) \/ ElicitReturns(c) \/ Deadline(c) \/ CancelAgain(c)
      PROVE  IInv'
  BY <1>2, ArriveKeeps, ElicitReturnsKeeps, DeadlineKeeps, KilledEnds
<1>. QED BY <1>1, <1>2, ImportKeeps, ReplaceKeeps, StutterKeeps DEF Next, Finished

LEMMA InitHolds ==
    ASSUME Init
    PROVE  IInv
<1>1. Typed
  <2>1. PICK host \in Hosts :
            /\ native = host.native /\ writable = host.writable
            /\ binary = [id |-> 0, kernel |-> host.kernel, past |-> {0}, builds |-> 0, lapsed |-> FALSE]
    BY DEF Init
  <2>2. host \in [native : BOOLEAN, kernel : BOOLEAN, writable : BOOLEAN]
    BY ToolCallsAssumption DEF ToolCallsAssumption
  <2>3. 0 \in 0 .. MaxReplaced
    BY Bounds
  <2>4. binary \in BinaryType
    BY <2>1, <2>2, <2>3 DEF BinaryType
  <2>5. cache \in CacheType
    BY DEF Init, CacheType
  <2>. QED BY <2>1, <2>2, <2>4, <2>5 DEF Init, Typed, Idle, Places, Workdirs
<1>2. LogInv
  <2>1. <<>> \in Seq(Calls \X Kinds) /\ Len(<<>>) = 0
    OBVIOUS
  <2>2. files \in [1 .. KeepN + 1 -> Seq(Calls \X Kinds)] /\ \A i \in 1 .. KeepN + 1 : files[i] = <<>>
    BY <2>1 DEF Init
  <2>3. files \in Seq(Seq(Calls \X Kinds)) /\ Len(files) = KeepN + 1
    BY <2>2, Bounds
  <2>4. DOMAIN files = 1 .. KeepN + 1
    BY <2>2
  <2>. QED BY <2>1, <2>2, <2>3, <2>4, Bounds DEF LogInv
<1>3. Shaped
  BY DEF Init, Shaped, Idle, Fields
<1>4. /\ binary.id = 0 /\ binary.past = {0} /\ cache.id = 0 /\ cache.kernel = FALSE
      /\ \A c \in Calls : call[c] = Idle
  BY DEF Init
<1>5. CacheInv
  BY <1>4 DEF CacheInv, CacheHonest
<1>6. ASSUME NEW c \in Calls PROVE CallInv(c)
  BY <1>4 DEF Idle, NoDecision, CallInv, StageInv, LoopInv, ConsentInv, SeenInv, DenialInv,
     Settled, Before,
      OnLoop, RunPlaces, InstallPlaces, Held
<1>. QED BY <1>1, <1>2, <1>3, <1>5, <1>6 DEF IInv

\* The invariant that the theorems below rest on.
THEOREM Invariance == Spec => []IInv
<1>1. Init => IInv
  BY InitHolds
<1>2. IInv /\ [Next]_vars => IInv'
  BY NextKeeps
<1>. QED BY <1>1, <1>2, PTL DEF Spec

\* Every variable keeps its type: no generation of the audit log outgrows its
\* bound (_rotate of audit.py), and there are never more of them.
THEOREM TypeCorrect == Spec => []TypeOK
<1>1. IInv => TypeOK
  BY DEF IInv, Typed, LogInv, TypeOK
<1>. QED BY <1>1, Invariance, PTL

\* The answer about a run that was not held to a denial discloses it, but for the
\* compact answers and the broken reports that the property names, whatever the
\* policy, the provider and the host, and although the executor's binary may be
\* replaced between the decision of broker_run and the run.
THEOREM DenialsDisclosed == Spec => []DenialDisclosed
<1>1. IInv => DenialDisclosed
  BY DEF IInv, CallInv, DenialInv, Settled, DenialDisclosed
<1>. QED BY <1>1, Invariance, PTL

\* The cached answer of no_net_kernel_enforcement_available is never more than
\* the executor on disk enforces, however many calls probe it and however often
\* it is replaced between the reading of its identity and the probe, unless it was
\* replaced during the import's own probe or an identity came back.
THEOREM CacheIsHonest == Spec => []CacheHonest
<1>1. IInv => CacheHonest
  BY DEF IInv, CacheInv
<1>. QED BY <1>1, Invariance, PTL

\* No installer runs without the decision of the confirmation gate, and none
\* for a caller that the response deadline has answered.
THEOREM InstallsConsented == Spec => []NoInstallBehindTheCaller
<1>1. IInv => NoInstallBehindTheCaller
  BY DEF IInv, CallInv, StageInv, ConsentInv, NoInstallBehindTheCaller, RunPlaces
<1>. QED BY <1>1, Invariance, PTL

\* A finished call has no executor and no directory that it forgot, and a stream
\* keeps its directory as long as its executor, however its deadline, its run and
\* a second cancellation interleave; only a cancelled stream leaves processes.
THEOREM NothingStays == Spec => []NothingLeftBehind
<1>1. IInv => NothingLeftBehind
  BY DEF IInv, CallInv, StageInv, NothingLeftBehind
<1>. QED BY <1>1, Invariance, PTL

-----------------------------------------------------------------------------
(* Decisions stay on record.  A call writes at most one event in each of   *)
(* three stages, and an event leaves the log only when every generation is *)
(* full.                                                                   *)

Stage(kind) == CASE kind = "implicit" -> 1
                 [] kind \in {"install_denied", "cleanup"} -> 3
                 [] OTHER -> 2
Slot(event) == <<event[1], Stage(event[2])>>

\* Where a call can be that may have written in a stage.
Past(stage) ==
    CASE stage = 1 -> Places \ {"idle", "select"}
      [] stage = 2 -> {"depgate", "deps", "run", "await", "cancelled", "killed", "install",
                       "installing", "notify", "close", "answer", "done"}
      [] OTHER -> {"close", "answer", "done"}

Generations == 1 .. KeepN + 1
FullInv ==
    \A i \in Generations : \A k \in 2 .. i : files[i] # <<>> => Len(files[k]) = FileMax
OnceInv ==
    \A i, k \in Generations : \A j \in 1 .. Len(files[i]), l \in 1 .. Len(files[k]) :
        Slot(files[i][j]) = Slot(files[k][l]) => i = k /\ j = l
PastInv ==
    \A i \in Generations : \A j \in 1 .. Len(files[i]) :
        call[files[i][j][1]].pc \in Past(Stage(files[i][j][2]))

\* What must be on record of a call.
Cleared(c) == call[c].decision.brokered /\ ~call[c].decision.rejected
Consented(c) == call[c].granted # "no"
KeptInv(c) ==
    /\ writable /\ Cleared(c) => Recorded(<<c, "approved">>) \/ Recorded(<<c, "denied">>)
    /\ writable /\ Consented(c) => Recorded(<<c, "granted">>) \/ Recorded(<<c, "skipped">>)
    /\ call[c].decision.rejected => call[c].pc \in Past(3) /\ call[c].outcome = "permission"
    /\ call[c].outcome = "installed" => Consented(c)

RecordInv == FullInv /\ OnceInv /\ PastInv /\ \A c \in Calls : KeptInv(c)

\* There is room for what all calls write.
Room == IsFiniteSet(Calls) /\ 3 * Cardinality(Calls) <= FileMax * (KeepN + 1)

LEMMA SlotType == \A e \in Calls \X Kinds : Slot(e) \in Calls \X (1 .. 3)
BY DEF Slot, Stage, Kinds

LEMMA FilesType ==
    ASSUME LogInv
    PROVE  /\ \A i \in Generations : files[i] \in Seq(Calls \X Kinds) /\ Len(files[i]) \in Nat
           /\ \A i \in Generations : Len(files[i]) <= FileMax
           /\ \A i \in Generations : \A j \in 1 .. Len(files[i]) : files[i][j] \in Calls \X Kinds
           /\ DOMAIN files = Generations
<1>. DEFINE Event == Calls \X Kinds
<1>1. /\ files \in Seq(Seq(Event)) /\ Len(files) = KeepN + 1
      /\ \A i \in DOMAIN files : Len(files[i]) <= FileMax
  BY DEF LogInv
<1>. HIDE DEF Event
<1>2. DOMAIN files = Generations /\ \A i \in Generations : files[i] \in Seq(Event)
  BY <1>1, Bounds DEF Generations
<1>3. \A i \in Generations : Len(files[i]) <= FileMax
  BY <1>1, <1>2
<1>4. \A i \in Generations : Len(files[i]) \in Nat
  BY <1>2
<1>5. \A i \in Generations : \A j \in 1 .. Len(files[i]) : files[i][j] \in Event
  BY <1>2
<1>. QED BY <1>2, <1>3, <1>4, <1>5 DEF Event

LEMMA AppendKeeps ==
    ASSUME NEW S, NEW s \in Seq(S), NEW e \in S
    PROVE  \A j \in DOMAIN s : j \in DOMAIN Append(s, e) /\ Append(s, e)[j] = s[j]
OBVIOUS

\* What writing an event does: it is appended to a file with room, or starts a
\* new one and the others move on.
Appended(e) ==
    /\ Len(files[1]) < FileMax /\ files'[1] = Append(files[1], e)
    /\ \A i \in Generations \ {1} : files'[i] = files[i]
Rotated(e) ==
    /\ Len(files[1]) = FileMax /\ files'[1] = Append(<<>>, e)
    /\ \A i \in Generations \ {1} : files'[i] = files[i - 1]

LEMMA WrittenFacts ==
    ASSUME LogInv, NEW e \in Calls \X Kinds, files' = Written(files, e)
    PROVE  Appended(e) \/ Rotated(e)
<1>. DEFINE Event == Calls \X Kinds
<1>0. 1 \in Generations
  BY Bounds DEF Generations
<1>1. CASE Len(files[1]) >= FileMax
  <2>. DEFINE old == SubSeq(files, 1, KeepN)
              none == <<>>
              room == <<none>> \o old
  <2>1. /\ old \in Seq(Seq(Event)) /\ Len(old) = KeepN
        /\ \A i \in 1 .. KeepN : old[i] = files[i]
    BY Bounds DEF LogInv
  <2>2. none \in Seq(Event)
    OBVIOUS
  <2>3. files' = [room EXCEPT ![1] = Append(room[1], e)]
    BY <1>1 DEF Written, Rotate
  <2>. HIDE DEF old, none, Event
  <2>4. /\ room \in Seq(Seq(Event)) /\ Len(room) = KeepN + 1 /\ room[1] = none
        /\ \A i \in 1 .. KeepN : room[i + 1] = old[i]
    BY <2>1, <2>2, Prepend
  <2>. HIDE DEF room
  <2>5. DOMAIN room = Generations
    BY <2>4 DEF Generations
  <2>6. \A i \in Generations \ {1} : files'[i] = files[i - 1]
    <3>. TAKE i \in Generations \ {1}
    <3>1. i - 1 \in 1 .. KeepN /\ (i - 1) + 1 = i
      BY Bounds DEF Generations
    <3>2. files'[i] = room[i]
      BY <2>3, <2>5
    <3>3. room[(i - 1) + 1] = old[i - 1] /\ old[i - 1] = files[i - 1]
      BY <2>1, <2>4, <3>1
    <3>. QED BY <3>1, <3>2, <3>3
  <2>7. files'[1] = Append(none, e)
    BY <1>0, <2>3, <2>4, <2>5
  <2>8. Len(files[1]) = FileMax
    BY <1>0, <1>1, FilesType, Bounds
  <2>. QED BY <2>6, <2>7, <2>8 DEF Rotated, none
<1>2. CASE ~(Len(files[1]) >= FileMax)
  <2>1. files' = [files EXCEPT ![1] = Append(files[1], e)]
    BY <1>2 DEF Written
  <2>2. Len(files[1]) < FileMax
    BY <1>0, <1>2, FilesType, Bounds
  <2>. QED BY <1>0, <2>1, <2>2, FilesType DEF Appended
<1>. QED BY <1>1, <1>2

\* Where the events of the log are after writing one.
LEMMA Moved ==
    ASSUME LogInv, LogInv', NEW e \in Calls \X Kinds, Appended(e) \/ Rotated(e)
    PROVE  \A i \in Generations : \A j \in 1 .. Len(files'[i]) :
             \/ i = 1 /\ j = Len(files'[1]) /\ files'[i][j] = e
             \/ /\ Appended(e) /\ j \in 1 .. Len(files[i]) /\ files'[i][j] = files[i][j]
             \/ /\ Rotated(e) /\ i # 1 /\ i - 1 \in Generations /\ j \in 1 .. Len(files[i - 1])
                /\ files'[i][j] = files[i - 1][j]
<1>. TAKE i \in Generations
<1>. TAKE j \in 1 .. Len(files'[i])
<1>0. 1 \in Generations
  BY Bounds DEF Generations
<1>1. CASE i = 1
  <2>1. CASE Appended(e)
    <3>1. files[1] \in Seq(Calls \X Kinds)
      BY <1>0, FilesType
    <3>. QED BY <1>1, <2>1, <3>1 DEF Appended
  <2>2. CASE Rotated(e)
    BY <1>1, <2>2 DEF Rotated
  <2>. QED BY <2>1, <2>2
<1>2. CASE i # 1
  <2>1. i - 1 \in Generations
    BY <1>2, Bounds DEF Generations
  <2>2. CASE Appended(e)
    BY <1>2, <2>2 DEF Appended
  <2>3. CASE Rotated(e)
    BY <1>2, <2>1, <2>3 DEF Rotated
  <2>. QED BY <2>2, <2>3
<1>. QED BY <1>1, <1>2

\* The pigeonhole: the last generation is empty when the log is rotated for an
\* event of a stage its call has not passed.
LEMMA NothingDropped ==
    ASSUME Room, LogInv, RecordInv, NEW e \in Calls \X Kinds, Rotated(e),
           call[e[1]].pc \notin Past(Stage(e[2]))
    PROVE  files[KeepN + 1] = <<>>
<1>1. SUFFICES ASSUME files[KeepN + 1] # <<>>  PROVE FALSE
  OBVIOUS
<1>2. \A i \in Generations : Len(files[i]) = FileMax
  <2>1. KeepN + 1 \in Generations /\ 1 \in Generations
    BY Bounds DEF Generations
  <2>2. \A i \in Generations : i = 1 \/ i \in 2 .. KeepN + 1
    BY Bounds DEF Generations
  <2>. QED BY <1>1, <2>1, <2>2 DEF RecordInv, FullInv, Rotated
<1>. DEFINE Places2 == Generations \X (1 .. FileMax)
            Slots == Calls \X (1 .. 3)
            Others == Slots \ {Slot(e)}
            f == [p \in Places2 |-> Slot(files[p[1]][p[2]])]
<1>3. \A p \in Places2 : p[1] \in Generations /\ p[2] \in 1 .. Len(files[p[1]])
  BY <1>2
<1>4. f \in [Places2 -> Others]
  <2>. SUFFICES ASSUME NEW p \in Places2  PROVE Slot(files[p[1]][p[2]]) \in Others
    OBVIOUS
  <2>1. files[p[1]][p[2]] \in Calls \X Kinds
    BY <1>3, FilesType
  <2>2. Slot(files[p[1]][p[2]]) # Slot(e)
    BY <1>3 DEF RecordInv, PastInv, Slot
  <2>. QED BY <2>1, <2>2, SlotType
<1>5. \A p, q \in Places2 : f[p] = f[q] => p = q
  BY <1>3 DEF RecordInv, OnceInv
<1>. HIDE DEF f
<1>6. f \in Injection(Places2, Others)
  BY <1>4, <1>5, Fun_IsInj
<1>7. IsFiniteSet(Slots) /\ Cardinality(Slots) = Cardinality(Calls) * 3
  <2>1. IsFiniteSet(1 .. 3) /\ Cardinality(1 .. 3) = IF 1 > 3 THEN 0 ELSE 3 - 1 + 1
    <3>1. 1 \in Int /\ 3 \in Int
      OBVIOUS
    <3>. QED BY <3>1, FS_Interval, Zenon
  <2>. QED BY <2>1, FS_Product DEF Room
<1>8. IsFiniteSet(Others) /\ Cardinality(Others) = Cardinality(Calls) * 3 - 1
  <2>1. Slot(e) \in Slots
    BY SlotType
  <2>. HIDE DEF Slots
  <2>. QED BY <1>7, <2>1, FS_RemoveElement
<1>9. Cardinality(Places2) = (KeepN + 1) * FileMax
  <2>1. IsFiniteSet(Generations) /\ Cardinality(Generations) = KeepN + 1
    BY FS_Interval, Bounds DEF Generations
  <2>2. IsFiniteSet(1 .. FileMax) /\ Cardinality(1 .. FileMax) = FileMax
    BY FS_Interval, Bounds
  <2>3. Cardinality(Places2) = Cardinality(Generations) * Cardinality(1 .. FileMax)
    BY <2>1, <2>2, FS_Product
  <2>. QED BY <2>1, <2>2, <2>3
<1>10. Cardinality(Places2) <= Cardinality(Others)
  BY <1>6, <1>8, FS_Injection
<1>11. Cardinality(Calls) \in Nat
  BY FS_CardinalityType DEF Room
<1>12. (KeepN + 1) * FileMax = FileMax * (KeepN + 1) /\ FileMax * (KeepN + 1) \in Nat
  BY Bounds
<1>. QED BY <1>8, <1>9, <1>10, <1>11, <1>12 DEF Room

\* An event of a stage its call has not passed joins those on record.
LEMMA WriteKeeps ==
    ASSUME Room, LogInv, LogInv', RecordInv, NEW c \in Calls, NEW kind \in Kinds,
           files' = Written(files, <<c, kind>>),
           call[c].pc \notin Past(Stage(kind)), call'[c].pc \in Past(Stage(kind)),
           \A s \in 1 .. 3 : call[c].pc \in Past(s) => call'[c].pc \in Past(s),
           \A d \in Calls \ {c} : call'[d] = call[d]
    PROVE  /\ FullInv' /\ OnceInv' /\ PastInv'
           /\ Recorded(<<c, kind>>)'
           /\ \A d \in Calls, k \in Kinds : Recorded(<<d, k>>) => Recorded(<<d, k>>)'
<1>. DEFINE e == <<c, kind>>
<1>1. e \in Calls \X Kinds /\ e[1] = c /\ e[2] = kind
  OBVIOUS
<1>2. files' = Written(files, e) /\ call[e[1]].pc \notin Past(Stage(e[2]))
  OBVIOUS
<1>3. 1 \in Generations /\ KeepN + 1 \in Generations /\ KeepN + 1 # 1
  BY Bounds DEF Generations
<1>. HIDE DEF e
<1>4. Appended(e) \/ Rotated(e)
  BY <1>1, <1>2, WrittenFacts
<1>5. Rotated(e) => files[KeepN + 1] = <<>>
  BY <1>1, <1>2, NothingDropped
<1>6. ASSUME NEW i \in Generations, NEW j \in 1 .. Len(files'[i])
      PROVE  \/ i = 1 /\ j = Len(files'[1]) /\ files'[i][j] = e
             \/ /\ Appended(e) /\ j \in 1 .. Len(files[i]) /\ files'[i][j] = files[i][j]
             \/ /\ Rotated(e) /\ i # 1 /\ i - 1 \in Generations /\ j \in 1 .. Len(files[i - 1])
                /\ files'[i][j] = files[i - 1][j]
  BY <1>1, <1>4, Moved
<1>7. ~(Appended(e) /\ Rotated(e))
  BY <1>3, Bounds, FilesType DEF Appended, Rotated
<1>8. ASSUME NEW i \in Generations, NEW j \in 1 .. Len(files[i])
      PROVE  Slot(files[i][j]) # Slot(e)
  BY <1>2 DEF RecordInv, PastInv, Slot
<1>9. OnceInv'
  <2>. SUFFICES ASSUME NEW i \in Generations, NEW k \in Generations,
                       NEW j \in 1 .. Len(files'[i]), NEW l \in 1 .. Len(files'[k]),
                       Slot(files'[i][j]) = Slot(files'[k][l])
                PROVE  i = k /\ j = l
    BY DEF OnceInv, Generations, Slot, Stage
  <2>1. CASE Appended(e)
    <3>1. \/ i = 1 /\ j = Len(files'[1]) /\ files'[i][j] = e
          \/ j \in 1 .. Len(files[i]) /\ files'[i][j] = files[i][j]
      BY <1>6, <1>7, <2>1
    <3>2. \/ k = 1 /\ l = Len(files'[1]) /\ files'[k][l] = e
          \/ l \in 1 .. Len(files[k]) /\ files'[k][l] = files[k][l]
      BY <1>6, <1>7, <2>1
    <3>. QED BY <1>8, <3>1, <3>2 DEF RecordInv, OnceInv
  <2>2. CASE Rotated(e)
    <3>1. \/ i = 1 /\ j = Len(files'[1]) /\ files'[i][j] = e
          \/ /\ i - 1 \in Generations /\ j \in 1 .. Len(files[i - 1])
             /\ files'[i][j] = files[i - 1][j]
      BY <1>6, <1>7, <2>2
    <3>2. \/ k = 1 /\ l = Len(files'[1]) /\ files'[k][l] = e
          \/ /\ k - 1 \in Generations /\ l \in 1 .. Len(files[k - 1])
             /\ files'[k][l] = files[k - 1][l]
      BY <1>6, <1>7, <2>2
    <3>3. i - 1 = k - 1 => i = k
      BY DEF Generations
    <3>. QED BY <1>8, <3>1, <3>2, <3>3 DEF RecordInv, OnceInv
  <2>. QED BY <1>4, <2>1, <2>2
<1>10. PastInv'
  <2>. SUFFICES ASSUME NEW i \in Generations, NEW j \in 1 .. Len(files'[i])
                PROVE  call'[files'[i][j][1]].pc \in Past(Stage(files'[i][j][2]))
    BY DEF PastInv, Generations, Past, Stage
  <2>1. CASE files'[i][j] = e
    BY <1>1, <2>1
  <2>2. ASSUME NEW g \in Generations, NEW h \in 1 .. Len(files[g]), files'[i][j] = files[g][h]
        PROVE  call'[files'[i][j][1]].pc \in Past(Stage(files'[i][j][2]))
    <3>1. files[g][h] \in Calls \X Kinds /\ call[files[g][h][1]].pc \in Past(Stage(files[g][h][2]))
      BY FilesType DEF RecordInv, PastInv
    <3>2. Stage(files[g][h][2]) \in 1 .. 3
      BY <3>1, SlotType DEF Slot
    <3>3. files[g][h][1] \in Calls
      BY <3>1
    <3>. QED BY <2>2, <3>1, <3>2, <3>3
  <2>. QED BY <1>6, <2>1, <2>2
<1>11. FullInv'
  <2>. SUFFICES ASSUME NEW i \in Generations, NEW k \in 2 .. i, files'[i] # <<>>
                PROVE  Len(files'[k]) = FileMax
    BY DEF FullInv, Generations
  <2>1. k \in Generations /\ k # 1 /\ i # 1
    BY Bounds DEF Generations
  <2>2. CASE Appended(e)
    BY <2>1, <2>2 DEF Appended, RecordInv, FullInv
  <2>3. CASE Rotated(e)
    <3>1. i - 1 \in Generations /\ k - 1 \in Generations /\ (k - 1 = 1 \/ k - 1 \in 2 .. i - 1)
      BY <2>1, Bounds DEF Generations
    <3>2. files'[i] = files[i - 1] /\ files'[k] = files[k - 1] /\ Len(files[1]) = FileMax
      BY <2>1, <2>3 DEF Rotated
    <3>. QED BY <3>1, <3>2 DEF RecordInv, FullInv
  <2>. QED BY <1>4, <2>2, <2>3
<1>12. Recorded(e)'
  <2>1. 1 \in DOMAIN files' /\ files'[1] \in Seq(Calls \X Kinds)
    BY <1>3, Bounds DEF LogInv, Generations
  <2>2. e \in Range(files'[1])
    <3>1. PICK s \in Seq(Calls \X Kinds) : files'[1] = Append(s, e)
      <4>1. files[1] \in Seq(Calls \X Kinds) /\ <<>> \in Seq(Calls \X Kinds)
        BY <1>3, FilesType
      <4>. QED BY <1>4, <4>1 DEF Appended, Rotated
    <3>2. Append(s, e)[Len(s) + 1] = e /\ Len(s) + 1 \in DOMAIN Append(s, e)
      BY <1>1, <3>1
    <3>. QED BY <3>1, <3>2 DEF Range
  <2>. QED BY <2>1, <2>2 DEF Recorded
<1>13. ASSUME NEW d \in Calls, NEW k \in Kinds, Recorded(<<d, k>>)
       PROVE  Recorded(<<d, k>>)'
  <2>1. PICK i \in Generations : <<d, k>> \in Range(files[i])
    BY <1>13, FilesType DEF Recorded
  <2>2. DOMAIN files' = Generations
    BY Bounds DEF LogInv, Generations
  <2>3. CASE Appended(e)
    <3>1. CASE i = 1
      <4>1. files[1] \in Seq(Calls \X Kinds) /\ files'[1] = Append(files[1], e)
        BY <1>3, <2>3, FilesType DEF Appended
      <4>2. PICK j \in DOMAIN files[1] : <<d, k>> = files[1][j]
        BY <2>1, <3>1 DEF Range
      <4>3. \A n \in DOMAIN files[1] : /\ n \in DOMAIN Append(files[1], e)
                                      /\ Append(files[1], e)[n] = files[1][n]
        BY <1>1, <4>1, AppendKeeps
      <4>4. j \in DOMAIN files'[1] /\ files'[1][j] = files[1][j]
        BY <4>1, <4>2, <4>3, Zenon
      <4>5. <<d, k>> \in Range(files'[1])
        BY <4>2, <4>4 DEF Range
      <4>. QED BY <1>3, <2>2, <4>5 DEF Recorded
    <3>2. CASE i # 1
      <4>1. files'[i] = files[i]
        BY <2>3, <3>2 DEF Appended
      <4>. QED BY <2>1, <2>2, <4>1 DEF Recorded
    <3>. QED BY <3>1, <3>2
  <2>4. CASE Rotated(e)
    <3>1. i # KeepN + 1
      <4>1. SUFFICES ASSUME i = KeepN + 1  PROVE FALSE
        OBVIOUS
      <4>2. files[i] = <<>>
        BY <1>5, <2>4, <4>1
      <4>3. Range(<<>>) = {}
        BY DEF Range
      <4>. QED BY <2>1, <4>2, <4>3
    <3>2. i + 1 \in Generations /\ i + 1 # 1 /\ (i + 1) - 1 = i
      BY <3>1, Bounds DEF Generations
    <3>3. files'[i + 1] = files[i]
      BY <2>4, <3>2 DEF Rotated
    <3>. QED BY <2>1, <2>2, <3>2, <3>3 DEF Recorded
  <2>. QED BY <1>4, <2>3, <2>4
<1>. QED BY <1>9, <1>10, <1>11, <1>12, <1>13 DEF e

\* How a step of a call moves on and what it writes.
Moves(c) ==
    /\ \A d \in Calls \ {c} : call'[d] = call[d]
    /\ writable' = writable
    /\ \A s \in 1 .. 3 : call[c].pc \in Past(s) => call'[c].pc \in Past(s)
    /\ call'[c].decision.rejected => call'[c].pc \in Past(3) /\ call'[c].outcome = "permission"
    /\ call'[c].outcome = "installed" => Consented(c)'
NoEvent(c) ==
    /\ files' = files
    /\ writable /\ Cleared(c)' => Cleared(c)
    /\ writable /\ Consented(c)' => Consented(c)
OneEvent(c, kind) ==
    /\ files' = Written(files, <<c, kind>>)
    /\ call[c].pc \notin Past(Stage(kind)) /\ call'[c].pc \in Past(Stage(kind))
    /\ Cleared(c)' => Cleared(c) \/ kind \in {"approved", "denied"}
    /\ Consented(c)' => Consented(c) \/ kind \in {"granted", "skipped"}
Logs(c) == NoEvent(c) \/ \E kind \in Kinds : OneEvent(c, kind)

LEMMA LogsKeeps ==
    ASSUME Room, IInv, IInv', RecordInv, NEW c \in Calls, Moves(c), Logs(c)
    PROVE  RecordInv'
<1>1. LogInv /\ LogInv' /\ Shaped /\ Shaped'
  BY DEF IInv
<1>2. ASSUME NoEvent(c)  PROVE RecordInv'
  <2>1. FullInv' /\ OnceInv'
    BY <1>2 DEF NoEvent, RecordInv, FullInv, OnceInv
  <2>2. PastInv'
    <3>. SUFFICES ASSUME NEW i \in Generations, NEW j \in 1 .. Len(files[i])
                  PROVE  call'[files[i][j][1]].pc \in Past(Stage(files[i][j][2]))
      BY <1>2 DEF PastInv, Generations, Past, Stage, NoEvent
    <3>1. files[i][j] \in Calls \X Kinds /\ call[files[i][j][1]].pc \in Past(Stage(files[i][j][2]))
      BY <1>1, FilesType DEF RecordInv, PastInv
    <3>2. Stage(files[i][j][2]) \in 1 .. 3
      BY <3>1, SlotType DEF Slot
    <3>3. files[i][j][1] \in Calls
      BY <3>1
    <3>. QED BY <3>1, <3>2, <3>3 DEF Moves
  <2>3. ASSUME NEW d \in Calls  PROVE KeptInv(d)'
    <3>1. \A e : Recorded(e)' <=> Recorded(e)
      BY <1>2 DEF NoEvent, Recorded
    <3>2. KeptInv(d)
      BY DEF RecordInv
    <3>3. CASE d = c
      BY <1>2, <3>1, <3>2, <3>3 DEF NoEvent, Moves, KeptInv, Past
    <3>4. CASE d # c
      BY <3>1, <3>2, <3>4 DEF Moves, KeptInv, Cleared, Consented, Past
    <3>. QED BY <3>3, <3>4
  <2>. QED BY <2>1, <2>2, <2>3 DEF RecordInv
<1>3. ASSUME NEW kind \in Kinds, OneEvent(c, kind)  PROVE RecordInv'
  <2>1. /\ FullInv' /\ OnceInv' /\ PastInv'
        /\ Recorded(<<c, kind>>)'
        /\ \A d \in Calls, k \in Kinds : Recorded(<<d, k>>) => Recorded(<<d, k>>)'
    BY <1>1, <1>3, WriteKeeps DEF OneEvent, Moves
  <2>2. ASSUME NEW d \in Calls  PROVE KeptInv(d)'
    <3>1. /\ Recorded(<<d, "approved">>) => Recorded(<<d, "approved">>)'
          /\ Recorded(<<d, "denied">>) => Recorded(<<d, "denied">>)'
          /\ Recorded(<<d, "granted">>) => Recorded(<<d, "granted">>)'
          /\ Recorded(<<d, "skipped">>) => Recorded(<<d, "skipped">>)'
      BY <2>1 DEF Kinds
    <3>2. KeptInv(d)
      BY DEF RecordInv
    <3>3. CASE d = c
      BY <1>3, <2>1, <3>1, <3>2, <3>3 DEF OneEvent, Moves, KeptInv, Past
    <3>4. CASE d # c
      BY <3>1, <3>2, <3>4 DEF Moves, KeptInv, Cleared, Consented, Past
    <3>. QED BY <3>3, <3>4
  <2>. QED BY <2>1, <2>2 DEF RecordInv
<1>. QED BY <1>2, <1>3 DEF Logs

-----------------------------------------------------------------------------
(* One lemma for the steps that write nothing, and those that may.         *)

\* A step that changes neither decision nor consent.
LEMMA QuietMoves ==
    ASSUME IInv, RecordInv, NEW c \in Calls, NEW new, Update(c, new),
           "decision" \notin DOMAIN new, "granted" \notin DOMAIN new,
           files' = files, writable' = writable,
           \A s \in 1 .. 3 : call[c].pc \in Past(s) => call'[c].pc \in Past(s),
           \/ call'[c].outcome = call[c].outcome
           \/ call[c].pc \notin Past(3) /\ (call'[c].outcome = "installed" => call[c].granted # "no")
    PROVE  Moves(c) /\ Logs(c)
<1>1. /\ \A d \in Calls \ {c} : call'[d] = call[d]
      /\ call'[c].decision = call[c].decision /\ call'[c].granted = call[c].granted
  BY UpdateFacts DEF IInv, Fields
<1>2. KeptInv(c)
  BY DEF RecordInv
<1>3. NoEvent(c)
  BY <1>1 DEF NoEvent, Cleared, Consented
<1>4. Moves(c)
  BY <1>1, <1>2 DEF Moves, KeptInv, Consented
<1>. QED BY <1>3, <1>4 DEF Logs

\* Places come in this order.
LEMMA PastFacts ==
    /\ Past(1) = Places \ {"idle", "select"}
    /\ Past(2) = {"depgate", "deps", "run", "await", "cancelled", "killed", "install",
                  "installing", "notify", "close", "answer", "done"}
    /\ Past(3) = {"close", "answer", "done"}
BY DEF Past

LEMMA SilentSteps ==
    ASSUME IInv, RecordInv, NEW c \in Calls,
           \/ ReadIdentity(c) \/ KillStream(c) \/ ReapStream(c) \/ CancelAgain(c)
           \/ Close(c) \/ Notify(c) \/ Answer(c)
    PROVE  Moves(c) /\ Logs(c)
<1>1. CASE ReadIdentity(c)
  <2>1. /\ Update(c, [pc |-> "decide", seen |-> binary.id])
        /\ files' = files /\ writable' = writable /\ call[c].pc = "stat"
    BY <1>1 DEF ReadIdentity, Silent
  <2>2. call'[c].pc = "decide" /\ call'[c].outcome = call[c].outcome
    BY <2>1, UpdateFacts DEF IInv, Fields
  <2>. QED BY <2>1, <2>2, QuietMoves, PastFacts DEF Places
<1>2. CASE KillStream(c)
  <2>1. PICK orphans \in BOOLEAN :
          Update(c, [pc |-> "killed", running |-> FALSE, orphans |-> orphans, outcome |-> "cancelled"])
    BY <1>2, Zenon DEF KillStream
  <2>2. files' = files /\ writable' = writable /\ call[c].pc = "cancelled"
    BY <1>2 DEF KillStream, Silent
  <2>3. call'[c].pc = "killed" /\ call'[c].outcome = "cancelled"
    BY <2>1, UpdateFacts DEF IInv, Fields
  <2>. QED BY <2>1, <2>2, <2>3, QuietMoves, PastFacts DEF Places
<1>3. ASSUME NEW left, NEW pc \in {"close", "answer"}, Update(c, [pc |-> pc, workdir |-> left]),
             files' = files, writable' = writable,
             call[c].pc = "killed" \/ (call[c].pc = "close" /\ pc = "answer")
      PROVE  Moves(c) /\ Logs(c)
  <2>1. call'[c].pc = pc /\ call'[c].outcome = call[c].outcome
    BY <1>3, UpdateFacts DEF IInv, Fields
  <2>. QED BY <1>3, <2>1, QuietMoves, PastFacts DEF Places
<1>4. CASE Notify(c)
  <2>1. /\ Update(c, [pc |-> "close"])
        /\ files' = files /\ writable' = writable /\ call[c].pc = "notify"
    BY <1>4 DEF Notify, Silent
  <2>2. call'[c].pc = "close" /\ call'[c].outcome = call[c].outcome
    BY <2>1, UpdateFacts DEF IInv, Fields
  <2>. QED BY <2>1, <2>2, QuietMoves, PastFacts DEF Places
<1>5. CASE Answer(c)
  <2>1. /\ Update(c, [pc |-> "done", answer |-> IF call[c].answer = "none" THEN call[c].outcome
                                                                    ELSE call[c].answer])
        /\ files' = files /\ writable' = writable /\ call[c].pc = "answer"
    BY <1>5 DEF Answer, Silent
  <2>2. call'[c].pc = "done" /\ call'[c].outcome = call[c].outcome
    BY <2>1, UpdateFacts DEF IInv, Fields
  <2>. QED BY <2>1, <2>2, QuietMoves, PastFacts DEF Places
<1>6. CASE ReapStream(c)
  <2>1. /\ \E left : Update(c, [pc |-> "close", workdir |-> left])
        /\ files' = files /\ writable' = writable /\ call[c].pc = "killed"
    BY <1>6 DEF ReapStream, Silent
  <2>. QED BY <1>3, <2>1
<1>7. CASE CancelAgain(c)
  <2>1. /\ \E left : Update(c, [pc |-> "close", workdir |-> left])
        /\ files' = files /\ writable' = writable /\ call[c].pc = "killed"
    BY <1>7 DEF CancelAgain, Silent
  <2>. QED BY <1>3, <2>1
<1>8. CASE Close(c)
  <2>1. /\ \E left : Update(c, [pc |-> "answer", workdir |-> left])
        /\ files' = files /\ writable' = writable /\ call[c].pc = "close"
    BY <1>8 DEF Close, Silent
  <2>. QED BY <1>3, <2>1
<1>. QED BY <1>1, <1>2, <1>4, <1>5, <1>6, <1>7, <1>8

LEMMA ArriveLogs ==
    ASSUME IInv, RecordInv, NEW c \in Calls, Arrive(c)
    PROVE  Moves(c) /\ Logs(c)
<1>1. PICK req \in Requests[c] :
        Update(c, [pc |-> IF req.tool = "install" THEN "gate" ELSE "select", req |-> req])
  BY DEF Arrive
<1>2. call[c].pc = "idle" /\ files' = files /\ writable' = writable
  BY DEF Arrive, Silent
<1>3. call'[c].outcome = call[c].outcome
  BY <1>1, UpdateFacts DEF IInv, Fields
<1>. QED BY <1>1, <1>2, <1>3, QuietMoves, PastFacts DEF Places

LEMMA DependencyGateLogs ==
    ASSUME IInv, RecordInv, NEW c \in Calls, DependencyGate(c)
    PROVE  Moves(c) /\ Logs(c)
<1>1. call[c].pc = "depgate" /\ files' = files /\ writable' = writable
  BY DEF DependencyGate, Silent
<1>2. ASSUME Update(c, [pc |-> "run"])  PROVE Moves(c) /\ Logs(c)
  <2>1. call'[c].pc = "run" /\ call'[c].outcome = call[c].outcome
    BY <1>2, UpdateFacts DEF IInv, Fields
  <2>. QED BY <1>1, <1>2, <2>1, QuietMoves, PastFacts DEF Places
<1>3. ASSUME NEW outcome \in {"unsupported", "permission"}, Finish(c, outcome)
      PROVE  Moves(c) /\ Logs(c)
  <2>1. call'[c].pc = "close" /\ call'[c].outcome = outcome
    BY <1>3, UpdateFacts DEF IInv, Fields, Finish
  <2>. QED BY <1>1, <1>3, <2>1, QuietMoves, PastFacts DEF Places, Finish
<1>4. ASSUME NEW dir, Update(c, [pc |-> "deps", workdir |-> dir])  PROVE Moves(c) /\ Logs(c)
  <2>1. call'[c].pc = "deps" /\ call'[c].outcome = call[c].outcome
    BY <1>4, UpdateFacts DEF IInv, Fields
  <2>. QED BY <1>1, <1>4, <2>1, QuietMoves, PastFacts DEF Places
<1>. QED BY <1>2, <1>3, <1>4 DEF DependencyGate

LEMMA EndInstallLogs ==
    ASSUME IInv, RecordInv, NEW c \in Calls, EndInstall(c)
    PROVE  Moves(c) /\ Logs(c)
<1>1. call[c].pc = "installing" /\ files' = files /\ writable' = writable /\ call[c].granted # "no"
  BY CallFacts DEF EndInstall, Silent, CallInv, ConsentInv
<1>2. ASSUME NEW pc \in {"close", "notify"}, NEW outcome,
             Update(c, [pc |-> pc, outcome |-> outcome, running |-> FALSE])
      PROVE  Moves(c) /\ Logs(c)
  <2>1. call'[c].pc = pc
    BY <1>2, UpdateFacts DEF IInv, Fields
  <2>. QED BY <1>1, <1>2, <2>1, QuietMoves, PastFacts DEF Places
<1>. QED BY <1>2 DEF EndInstall

LEMMA DeadlineLogs ==
    ASSUME IInv, RecordInv, NEW c \in Calls, Deadline(c)
    PROVE  Moves(c) /\ Logs(c)
<1>1. files' = files /\ writable' = writable
  BY DEF Deadline, Silent
<1>2. CASE call[c].pc = "await" /\ OnLoop(c)
  <2>1. Update(c, [pc |-> "cancelled", answer |-> "timeout"])
    BY <1>2 DEF Deadline
  <2>2. call'[c].pc = "cancelled" /\ call'[c].outcome = call[c].outcome
    BY <2>1, UpdateFacts DEF IInv, Fields
  <2>. QED BY <1>1, <1>2, <2>1, <2>2, QuietMoves, PastFacts DEF Places
<1>3. CASE call[c].pc \in {"elicit", "notify"}
  <2>1. Update(c, [pc |-> "done", answer |-> "timeout"])
    BY <1>3 DEF Deadline
  <2>2. call'[c].pc = "done" /\ call'[c].outcome = call[c].outcome
    BY <2>1, UpdateFacts DEF IInv, Fields
  <2>. QED BY <1>1, <1>3, <2>1, <2>2, QuietMoves, PastFacts DEF Places
<1>4. CASE ~(call[c].pc = "await" /\ OnLoop(c)) /\ call[c].pc \notin {"elicit", "notify"}
  <2>1. Update(c, [answer |-> "timeout"])
    BY <1>4 DEF Deadline
  <2>2. call'[c].pc = call[c].pc /\ call'[c].outcome = call[c].outcome
    BY <2>1, UpdateFacts DEF IInv, Fields
  <2>. QED BY <1>1, <2>1, <2>2, QuietMoves
<1>. QED BY <1>2, <1>3, <1>4

LEMMA StartRunLogs ==
    ASSUME IInv, RecordInv, NEW c \in Calls, StartRun(c)
    PROVE  Moves(c) /\ Logs(c)
<1>1. call[c].pc = "run" /\ files' = files /\ writable' = writable
  BY DEF StartRun, Silent
<1>2. ASSUME NEW outcome \in {"unsupported", "unavailable"}, Finish(c, outcome)
      PROVE  Moves(c) /\ Logs(c)
  <2>1. call'[c].pc = "close" /\ call'[c].outcome = outcome
    BY <1>2, UpdateFacts DEF IInv, Fields, Finish
  <2>. QED BY <1>1, <1>2, <2>1, QuietMoves, PastFacts DEF Places, Finish
<1>3. ASSUME NEW running, NEW enforced,
             Update(c, [pc |-> "await", running |-> running, enforced |-> enforced])
      PROVE  Moves(c) /\ Logs(c)
  <2>1. call'[c].pc = "await" /\ call'[c].outcome = call[c].outcome
    BY <1>3, UpdateFacts DEF IInv, Fields
  <2>. QED BY <1>1, <1>3, <2>1, QuietMoves, PastFacts DEF Places
<1>4. ASSUME NEW enforced, NEW workdir,
             Update(c, [pc |-> "await", running |-> TRUE, enforced |-> enforced, workdir |-> workdir])
      PROVE  Moves(c) /\ Logs(c)
  <2>1. call'[c].pc = "await" /\ call'[c].outcome = call[c].outcome
    BY <1>4, UpdateFacts DEF IInv, Fields
  <2>. QED BY <1>1, <1>4, <2>1, QuietMoves, PastFacts DEF Places
<1>5. \/ \E outcome \in {"unsupported", "unavailable"} : Finish(c, outcome)
      \/ \E running, enforced :
            Update(c, [pc |-> "await", running |-> running, enforced |-> enforced])
      \/ \E enforced, workdir :
            Update(c, [pc |-> "await", running |-> TRUE, enforced |-> enforced, workdir |-> workdir])
  <2>1. CASE LocalRun(c)  BY <2>1 DEF LocalRun, Running
  <2>2. CASE PistonRun(c)  BY <2>2 DEF PistonRun, Running
  <2>3. CASE NativeStrictRun(c)  BY <2>3 DEF NativeStrictRun
  <2>4. CASE RemoteStrictRun(c)  BY <2>4 DEF RemoteStrictRun
  <2>5. CASE StreamRun(c)  BY <2>5 DEF StreamRun
  <2>. QED BY <2>1, <2>2, <2>3, <2>4, <2>5 DEF StartRun
<1>. QED BY <1>2, <1>3, <1>4, <1>5

\* A step that writes an event, if the log can be written.
LEMMA EmitLogs ==
    ASSUME NEW c \in Calls, NEW kind \in Kinds, Emit(<<c, kind>>),
           call[c].pc \notin Past(Stage(kind)), call'[c].pc \in Past(Stage(kind)),
           Cleared(c)' => Cleared(c) \/ kind \in {"approved", "denied"},
           Consented(c)' => Consented(c) \/ kind \in {"granted", "skipped"}
    PROVE  Logs(c)
<1>1. CASE writable
  <2>1. OneEvent(c, kind)
    BY <1>1 DEF Emit, OneEvent
  <2>. QED BY <2>1 DEF Logs
<1>2. CASE ~writable
  BY <1>2 DEF Emit, Logs, NoEvent
<1>. QED BY <1>1, <1>2

LEMMA WritingMoves ==
    ASSUME IInv, RecordInv, NEW c \in Calls, NEW new, Update(c, new),
           "decision" \notin DOMAIN new, "granted" \notin DOMAIN new, writable' = writable,
           NEW kind \in Kinds, Emit(<<c, kind>>),
           call[c].pc \notin Past(Stage(kind)), call'[c].pc \in Past(Stage(kind)),
           \A s \in 1 .. 3 : call[c].pc \in Past(s) => call'[c].pc \in Past(s),
           call'[c].outcome # "installed", call[c].pc \notin Past(3)
    PROVE  Moves(c) /\ Logs(c)
<1>1. /\ \A d \in Calls \ {c} : call'[d] = call[d]
      /\ call'[c].decision = call[c].decision /\ call'[c].granted = call[c].granted
  BY UpdateFacts DEF IInv, Fields
<1>2. KeptInv(c)
  BY DEF RecordInv
<1>3. Moves(c)
  BY <1>1, <1>2 DEF Moves, KeptInv, Consented
<1>4. Logs(c)
  BY <1>1, EmitLogs DEF Cleared, Consented
<1>. QED BY <1>3, <1>4

LEMMA SelectLogs ==
    ASSUME IInv, RecordInv, NEW c \in Calls, Select(c)
    PROVE  Moves(c) /\ Logs(c)
<1>1. call[c].pc = "select" /\ writable' = writable
  BY DEF Select
<1>2. KeptInv(c)
  BY DEF RecordInv
<1>3. ASSUME Finish(c, "validation"), Silent  PROVE Moves(c) /\ Logs(c)
  <2>1. call'[c].pc = "close" /\ call'[c].outcome = "validation"
    BY <1>3, UpdateFacts DEF IInv, Fields, Finish
  <2>. QED BY <1>1, <1>3, <2>1, QuietMoves, PastFacts DEF Places, Finish, Silent
<1>4. ASSUME NEW pc \in {"stat", "decide"}, Update(c, [pc |-> pc]),
             Emit(<<c, "implicit">>) \/ Silent
      PROVE  Moves(c) /\ Logs(c)
  <2>1. call'[c].pc = pc /\ call'[c].outcome = call[c].outcome
    BY <1>4, UpdateFacts DEF IInv, Fields
  <2>2. CASE Silent
    BY <1>1, <1>4, <2>1, <2>2, QuietMoves, PastFacts DEF Places, Silent
  <2>3. CASE Emit(<<c, "implicit">>)
    <3>1. Stage("implicit") = 1 /\ "implicit" \in Kinds
      BY DEF Stage, Kinds
    <3>2. Logs(c)
      <4>1. call'[c].decision = call[c].decision /\ call'[c].granted = call[c].granted
        BY <1>4, UpdateFacts DEF IInv, Fields
      <4>. QED BY <1>1, <1>4, <2>1, <2>3, <3>1, <4>1, EmitLogs, PastFacts
               DEF Places, Cleared, Consented
    <3>3. Moves(c)
      <4>1. /\ \A d \in Calls \ {c} : call'[d] = call[d]
            /\ call'[c].decision = call[c].decision /\ call'[c].granted = call[c].granted
        BY <1>4, UpdateFacts DEF IInv, Fields
      <4>. QED BY <1>1, <1>2, <1>4, <2>1, <4>1, PastFacts DEF Moves, KeptInv, Consented, Places
    <3>. QED BY <3>2, <3>3
  <2>. QED BY <1>4, <2>2, <2>3
<1>. QED BY <1>3, <1>4 DEF Select

LEMMA InstallDependenciesLogs ==
    ASSUME IInv, RecordInv, NEW c \in Calls, InstallDependencies(c)
    PROVE  Moves(c) /\ Logs(c)
<1>1. call[c].pc = "deps" /\ writable' = writable
  BY DEF InstallDependencies
<1>2. ASSUME Update(c, [pc |-> "run"]), Silent  PROVE Moves(c) /\ Logs(c)
  <2>1. call'[c].pc = "run" /\ call'[c].outcome = call[c].outcome
    BY <1>2, UpdateFacts DEF IInv, Fields
  <2>. QED BY <1>1, <1>2, <2>1, QuietMoves, PastFacts DEF Places, Silent
<1>3. ASSUME Finish(c, "not_installed"), Silent  PROVE Moves(c) /\ Logs(c)
  <2>1. call'[c].pc = "close" /\ call'[c].outcome = "not_installed"
    BY <1>3, UpdateFacts DEF IInv, Fields, Finish
  <2>. QED BY <1>1, <1>3, <2>1, QuietMoves, PastFacts DEF Places, Finish, Silent
<1>4. ASSUME Finish(c, "permission"), InstallDenied(c)  PROVE Moves(c) /\ Logs(c)
  <2>1. call'[c].pc = "close" /\ call'[c].outcome = "permission"
    BY <1>4, UpdateFacts DEF IInv, Fields, Finish
  <2>2. Stage("install_denied") = 3 /\ "install_denied" \in Kinds
    BY DEF Stage, Kinds
  <2>. QED BY <1>1, <1>4, <2>1, <2>2, WritingMoves, PastFacts DEF Places, Finish, InstallDenied
<1>5. ASSUME NEW dir, Update(c, [pc |-> "answer", outcome |-> "raised", workdir |-> dir]), Silent
      PROVE  Moves(c) /\ Logs(c)
  <2>1. call'[c].pc = "answer" /\ call'[c].outcome = "raised"
    BY <1>5, UpdateFacts DEF IInv, Fields
  <2>. QED BY <1>1, <1>5, <2>1, QuietMoves, PastFacts DEF Places, Silent
<1>. QED BY <1>2, <1>3, <1>4, <1>5 DEF InstallDependencies

LEMMA EndRunLogs ==
    ASSUME IInv, RecordInv, NEW c \in Calls, EndRun(c)
    PROVE  Moves(c) /\ Logs(c)
<1>1. call[c].pc = "await" /\ writable' = writable
  BY DEF EndRun
<1>2. PICK outcome \in Outcomes(c), left \in LeftOf(call[c].workdir, "owned") :
        Update(c, [pc |-> "close", running |-> FALSE, outcome |-> outcome, workdir |-> left,
                   unenforced |-> Reported(c, outcome)])
  BY Zenon DEF EndRun
<1>3. call'[c].pc = "close" /\ call'[c].outcome = outcome
  BY <1>2, UpdateFacts DEF IInv, Fields
<1>4. outcome # "installed"
  BY DEF Outcomes
<1>5. CASE Silent
  BY <1>1, <1>2, <1>3, <1>4, <1>5, QuietMoves, PastFacts DEF Places, Silent
<1>6. CASE Emit(<<c, "cleanup">>)
  <2>1. Stage("cleanup") = 3 /\ "cleanup" \in Kinds
    BY DEF Stage, Kinds
  <2>. QED BY <1>1, <1>2, <1>3, <1>4, <1>6, <2>1, WritingMoves, PastFacts DEF Places
<1>. QED BY <1>5, <1>6 DEF EndRun, CleanupAudited

LEMMA StartInstallLogs ==
    ASSUME IInv, RecordInv, NEW c \in Calls, StartInstall(c)
    PROVE  Moves(c) /\ Logs(c)
<1>1. call[c].pc = "install" /\ writable' = writable
  BY DEF StartInstall
<1>2. ASSUME Finish(c, "validation"), Silent  PROVE Moves(c) /\ Logs(c)
  <2>1. call'[c].pc = "close" /\ call'[c].outcome = "validation"
    BY <1>2, UpdateFacts DEF IInv, Fields, Finish
  <2>. QED BY <1>1, <1>2, <2>1, QuietMoves, PastFacts DEF Places, Finish, Silent
<1>3. ASSUME Finish(c, "permission"), InstallDenied(c)  PROVE Moves(c) /\ Logs(c)
  <2>1. call'[c].pc = "close" /\ call'[c].outcome = "permission"
    BY <1>3, UpdateFacts DEF IInv, Fields, Finish
  <2>2. Stage("install_denied") = 3 /\ "install_denied" \in Kinds
    BY DEF Stage, Kinds
  <2>. QED BY <1>1, <1>3, <2>1, <2>2, WritingMoves, PastFacts DEF Places, Finish, InstallDenied
<1>4. ASSUME Update(c, [pc |-> "installing", running |-> TRUE]), Silent  PROVE Moves(c) /\ Logs(c)
  <2>1. call'[c].pc = "installing" /\ call'[c].outcome = call[c].outcome
    BY <1>4, UpdateFacts DEF IInv, Fields
  <2>. QED BY <1>1, <1>4, <2>1, QuietMoves, PastFacts DEF Places, Silent
<1>. QED BY <1>2, <1>3, <1>4 DEF StartInstall

\* The decision of the gate, wherever it is taken.
LEMMA GateLogs ==
    ASSUME IInv, RecordInv, NEW c \in Calls, call[c].pc \in {"gate", "elicit"}, writable' = writable,
           \/ \E r \in Responses : GateDecision(c, r)
           \/ Emit(<<c, "skipped">>) /\ Update(c, [pc |-> "install", granted |-> "skipped"])
    PROVE  Moves(c) /\ Logs(c)
<1>1. KeptInv(c)
  BY DEF RecordInv
<1>2. ASSUME NEW kind \in {"granted", "skipped"}, NEW how \in {"confirmed", "skipped"},
             Emit(<<c, kind>>), Update(c, [pc |-> "install", granted |-> how])
      PROVE  Moves(c) /\ Logs(c)
  <2>1. /\ \A d \in Calls \ {c} : call'[d] = call[d]
        /\ call'[c].pc = "install" /\ call'[c].granted = how
        /\ call'[c].decision = call[c].decision /\ call'[c].outcome = call[c].outcome
    BY <1>2, UpdateFacts DEF IInv, Fields
  <2>2. Stage(kind) = 2 /\ kind \in Kinds
    BY DEF Stage, Kinds
  <2>3. Moves(c)
    BY <1>1, <2>1, PastFacts DEF Moves, KeptInv, Consented, Places
  <2>4. Logs(c)
    BY <1>2, <2>1, <2>2, EmitLogs, PastFacts DEF Cleared, Consented
  <2>. QED BY <2>3, <2>4
<1>3. ASSUME Emit(<<c, "refused">>), Finish(c, "refused")  PROVE Moves(c) /\ Logs(c)
  <2>1. call'[c].pc = "close" /\ call'[c].outcome = "refused"
    BY <1>3, UpdateFacts DEF IInv, Fields, Finish
  <2>2. Stage("refused") = 2 /\ "refused" \in Kinds
    BY DEF Stage, Kinds
  <2>. QED BY <1>3, <2>1, <2>2, WritingMoves, PastFacts DEF Places, Finish
<1>. QED BY <1>2, <1>3 DEF GateDecision

LEMMA ConfirmationLogs ==
    ASSUME IInv, RecordInv, NEW c \in Calls, RequireConfirmation(c) \/ ElicitReturns(c)
    PROVE  Moves(c) /\ Logs(c)
<1>1. CASE ElicitReturns(c)
  BY <1>1, GateLogs DEF ElicitReturns
<1>2. CASE RequireConfirmation(c)
  <2>1. call[c].pc = "gate" /\ writable' = writable
    BY <1>2 DEF RequireConfirmation
  <2>2. ASSUME Finish(c, "ask"), Silent  PROVE Moves(c) /\ Logs(c)
    <3>1. call'[c].pc = "close" /\ call'[c].outcome = "ask"
      BY <2>2, UpdateFacts DEF IInv, Fields, Finish
    <3>. QED BY <2>1, <2>2, <3>1, QuietMoves, PastFacts DEF Places, Finish, Silent
  <2>3. ASSUME Update(c, [pc |-> "elicit"]), Silent  PROVE Moves(c) /\ Logs(c)
    <3>1. call'[c].pc = "elicit" /\ call'[c].outcome = call[c].outcome
      BY <2>3, UpdateFacts DEF IInv, Fields
    <3>. QED BY <2>1, <2>3, <3>1, QuietMoves, PastFacts DEF Places, Silent
  <2>. QED BY <1>2, <2>1, <2>2, <2>3, GateLogs DEF RequireConfirmation
<1>. QED BY <1>1, <1>2

LEMMA BrokerRunLogs ==
    ASSUME IInv, RecordInv, NEW c \in Calls, BrokerRun(c)
    PROVE  Moves(c) /\ Logs(c)
<1>. DEFINE req == call[c].req
            d == Decided(req.noNet, Supports(req.provider, cache'.kernel))
            kind == IF d.denied # {} THEN "denied" ELSE "approved"
<1>1. call[c].pc = "decide" /\ writable' = writable
  BY DEF BrokerRun
<1>2. KeptInv(c)
  BY DEF RecordInv
<1>3. IF d.rejected THEN Emit(<<c, "rejected">>)
      ELSE IF d.brokered THEN Emit(<<c, kind>>) ELSE Silent
  BY Zenon DEF BrokerRun
<1>4. IF d.rejected THEN Update(c, [pc |-> "close", outcome |-> "permission", decision |-> d, seen |-> 0])
      ELSE Update(c, [pc |-> "depgate", decision |-> d, noNet |-> EnforcedSpec(req.noNet, d), seen |-> 0])
  BY Zenon DEF BrokerRun
<1>5. kind \in {"approved", "denied"} /\ kind \in Kinds /\ Stage(kind) = 2
  BY DEF Kinds, Stage
<1>6. "rejected" \in Kinds /\ Stage("rejected") = 2
  BY DEF Kinds, Stage
<1>. HIDE DEF req, d, kind
<1>7. CASE d.rejected
  <2>1. Update(c, [pc |-> "close", outcome |-> "permission", decision |-> d, seen |-> 0])
    BY <1>4, <1>7
  <2>2. /\ \A e \in Calls \ {c} : call'[e] = call[e]
        /\ call'[c].pc = "close" /\ call'[c].outcome = "permission" /\ call'[c].decision = d
        /\ call'[c].granted = call[c].granted
    BY <2>1, UpdateFacts DEF IInv, Fields
  <2>3. Moves(c)
    BY <1>1, <2>2, PastFacts DEF Moves, Places
  <2>4. Logs(c)
    BY <1>1, <1>3, <1>6, <1>7, <2>2, EmitLogs, PastFacts DEF Cleared, Consented
  <2>. QED BY <2>3, <2>4
<1>8. CASE ~d.rejected
  <2>1. Update(c, [pc |-> "depgate", decision |-> d, noNet |-> EnforcedSpec(req.noNet, d), seen |-> 0])
    BY <1>4, <1>8
  <2>2. /\ \A e \in Calls \ {c} : call'[e] = call[e]
        /\ call'[c].pc = "depgate" /\ call'[c].outcome = call[c].outcome /\ call'[c].decision = d
        /\ call'[c].granted = call[c].granted
    BY <2>1, UpdateFacts DEF IInv, Fields
  <2>3. Moves(c)
    BY <1>1, <1>2, <1>8, <2>2, PastFacts DEF Moves, KeptInv, Consented, Places
  <2>4. CASE d.brokered
    BY <1>1, <1>3, <1>5, <1>8, <2>2, <2>3, <2>4, EmitLogs, PastFacts DEF Consented
  <2>5. CASE ~d.brokered
    BY <1>3, <1>8, <2>2, <2>3, <2>5 DEF Silent, Logs, NoEvent, Cleared, Consented
  <2>. QED BY <2>4, <2>5
<1>. QED BY <1>7, <1>8

LEMMA RecordKept ==
    ASSUME Room, IInv, RecordInv, [Next]_vars
    PROVE  RecordInv'
<1>1. IInv'
  BY NextKeeps
<1>2. ASSUME NEW c \in Calls, Step(c)  PROVE Moves(c) /\ Logs(c)
  BY <1>2, SilentSteps, SelectLogs, BrokerRunLogs, DependencyGateLogs, InstallDependenciesLogs,
     StartRunLogs, EndRunLogs, ConfirmationLogs, StartInstallLogs, EndInstallLogs DEF Step
<1>3. ASSUME NEW c \in Calls, Arrive(c) \/ ElicitReturns(c) \/ Deadline(c) \/ CancelAgain(c)
      PROVE  Moves(c) /\ Logs(c)
  BY <1>3, ArriveLogs, ConfirmationLogs, DeadlineLogs, SilentSteps
<1>4. ASSUME UNCHANGED <<files, call, writable>>  PROVE RecordInv'
  BY <1>4 DEF RecordInv, FullInv, OnceInv, PastInv, KeptInv, Cleared, Consented, Recorded, Slot,
     Stage, Past, Generations
<1>. QED BY <1>1, <1>2, <1>3, <1>4, LogsKeeps DEF Next, Finished, Replace, ImportProbe,
         ImportIdentity, Silent, vars

LEMMA RecordInit == Init => RecordInv
<1>. SUFFICES ASSUME Init  PROVE RecordInv
  OBVIOUS
<1>1. \A i \in Generations : files[i] = <<>> /\ Len(files[i]) = 0
  BY DEF Init, Generations
<1>2. \A c \in Calls : call[c] = Idle
  BY DEF Init
<1>3. FullInv /\ OnceInv /\ PastInv
  BY <1>1, Bounds DEF FullInv, OnceInv, PastInv, Generations
<1>4. \A c \in Calls : KeptInv(c)
  BY <1>2 DEF KeptInv, Cleared, Consented, Idle, NoDecision
<1>. QED BY <1>3, <1>4 DEF RecordInv

\* What ran under a policy, or was installed, has its decision in the audit log
\* when it starts and from then on, through every rotation, if the generations
\* that _rotate keeps have room for the three events a call writes at most.
THEOREM DecisionsStay ==
    ASSUME Room
    PROVE  Spec => []DecisionsOnRecord
<1>1. Init => RecordInv
  BY RecordInit
<1>2. IInv /\ RecordInv /\ [Next]_vars => RecordInv'
  BY RecordKept
<1>3. IInv /\ RecordInv => DecisionsOnRecord
  <2>. SUFFICES ASSUME IInv, RecordInv, NEW c \in Calls
                PROVE  /\ Ran(c) /\ call[c].decision.brokered
                           => ~writable \/ Recorded(<<c, "approved">>) \/ Recorded(<<c, "denied">>)
                       /\ call[c].req.tool = "install" /\ (call[c].running \/ call[c].outcome = "installed")
                           => ~writable \/ Recorded(<<c, "granted">>) \/ Recorded(<<c, "skipped">>)
    BY DEF DecisionsOnRecord
  <2>1. KeptInv(c) /\ CallInv(c)
    BY DEF RecordInv, IInv
  <2>2. Ran(c) => ~call[c].decision.rejected
    BY <2>1, PastFacts DEF Ran, KeptInv, CallInv, StageInv
  <2>3. call[c].req.tool = "install" /\ call[c].running => Consented(c)
    BY <2>1 DEF CallInv, StageInv, ConsentInv, Consented, RunPlaces
  <2>. QED BY <2>1, <2>2, <2>3 DEF KeptInv, Cleared
<1>. QED BY <1>1, <1>2, <1>3, Invariance, PTL DEF Spec
====
