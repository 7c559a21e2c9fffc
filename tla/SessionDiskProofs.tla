-------------------------- MODULE SessionDiskProofs --------------------------
(***************************************************************************)
(* What SessionDisk keeps for every set of calls, requests and archives,   *)
(* every quota and any number of steps of the session's program: the       *)
(* types, that writes and deletions stay inside the workspace, that the    *)
(* server's own writes stay within the quota, and that a restore writes    *)
(* what was planned.                                                       *)
(***************************************************************************)
EXTENDS SessionDisk, SequenceTheorems, FiniteSetTheorems, FunctionTheorems,
        WellFoundedInduction, TLAPS

Fields == {"pc", "req", "target", "dir", "plan", "found", "answer"}
Shaped == /\ call = [c \in Calls |-> call[c]]
          /\ \A c \in Calls : DOMAIN call[c] = Fields

\* A directory of the workspace is the root or one made below it: what leads
\* outside is a link.
FsInv ==
    /\ fs \in [Dirs -> [Names -> Entries]]
    /\ \A d \in Dirs, n \in Names : fs[d][n].kind = "dir" => fs[d][n].to \in SubDirs

Spots == {"none", "dir", "file", Outside}
SpillInv == spills \in Seq(Nat) /\ strays \in Seq(Nat) /\ spillDir \in Spots

\* The places of a call whose program runs or whose output is spilled.
Runs == {"running", "spill", "prune", "sweep"}
USE DEF spilled, Runs

\* A call that waits between two steps knows no directory outside.
CallInv(c) ==
    /\ call[c].pc = "idle" => call[c].req = [op |-> "none"]
    /\ call[c].pc # "idle" => call[c].req \in RequestType
    /\ call[c].pc \in Runs => call[c].req.op \in {"run", "runfile"}
    /\ call[c].dir # Outside

IInv ==
    /\ FsInv
    /\ SpillInv
    /\ lock \in Calls \cup {Free}
    /\ Shaped
    /\ \A c \in Calls : CallInv(c)

-----------------------------------------------------------------------------
(* Lemmas about the operators.                                             *)

\* A call's record keeps its fields, and an update changes only those named.
LEMMA UpdateFacts ==
    ASSUME Shaped, NEW c \in Calls, NEW new, Update(c, new)
    PROVE  /\ Shaped'
           /\ \A d \in Calls \ {c} : call'[d] = call[d]
           /\ \A f \in Fields : call'[c][f] = IF f \in DOMAIN new THEN new[f] ELSE call[c][f]
BY DEF Shaped, Update, With

Components == Names \cup {"..", "bad"}

\* What the requests carry.
LEMMA RequestFacts ==
    ASSUME NEW r \in RequestType
    PROVE  /\ r.op \in {"write", "delete", "read", "runfile"} => r.path \in Seq(Components)
           /\ r.op = "write" => r.size \in Nat
           /\ r.op \in {"run", "runfile"} => r.out \in Nat
BY DEF RequestType, Components

\* Setting one entry leaves the other directories alone.
LEMMA SetEntry ==
    ASSUME FsInv, NEW d, NEW n, NEW e \in Entries, e.kind = "dir" => e.to \in SubDirs,
           fs' = [fs EXCEPT ![d][n] = e]
    PROVE  FsInv' /\ (d # Outside => fs'[Outside] = fs[Outside])
BY DEF FsInv, Dirs

LEMMA EntryTypes ==
    /\ NoEntry \in Entries /\ NoEntry.kind = "none"
    /\ \A n \in Nat : File(n) \in Entries /\ File(n).kind = "file"
    /\ \A s \in SubDirs : Dir(s) \in Entries /\ Dir(s).kind = "dir" /\ Dir(s).to = s
    /\ \A t \in LinkTargets : Link(t) \in Entries /\ Link(t).kind = "link"
BY DEF NoEntry, File, Dir, Link, Entries, Dirs, SubDirs, LinkTargets, Outside, Root

LEMMA FrontOfAppended ==
    ASSUME NEW S, NEW s \in Seq(S), NEW e \in S, NEW r \in S
    PROVE  Front(Tail((<<r>> \o s) \o <<e>>)) = s
<1>1. Tail((<<r>> \o s) \o <<e>>) = s \o <<e>>
  OBVIOUS
<1>2. Front(s \o <<e>>) = s
  BY DEF Front
<1>3. QED  BY <1>1, <1>2

\* _jail lets pass only a path whose directory, when it is resolved, is not
\* outside.
LEMMA JailedInside ==
    ASSUME NEW path \in Seq(Components), Jailed(path)
    PROVE  Walk(Root, Front(Tail(Resolved(path)))) # Outside
<1> DEFINE last == Last(path)
<1> DEFINE parent == Front(path)
<1> DEFINE dir == Walk(Root, parent)
<1> DEFINE e == IF dir = "none" THEN NoEntry ELSE fs[dir][last]
<1> DEFINE base == IF dir = Outside THEN <<Outside>> ELSE <<Root>> \o parent
<1>1. path # <<>> /\ Head(Resolved(path)) = Root
  BY DEF Jailed, Refused
<1>2. parent \in Seq(Components) /\ last \in Components
  BY <1>1 DEF Front, Last
<1>3. Resolved(path) = IF e.kind # "link" THEN base \o <<last>>
                       ELSE IF e.to = Outside THEN <<Outside>> ELSE <<Outside, "f">>
  BY DEF Resolved
<1>4. Root # Outside
  BY DEF Root, Outside
<1> HIDE DEF last, parent, e
<1>5. e.kind # "link"
  BY <1>1, <1>3, <1>4
<1>6. dir # Outside
  <2>1. SUFFICES ASSUME dir = Outside  PROVE FALSE
    OBVIOUS
  <2>2. Resolved(path) = <<Outside>> \o <<last>>
    BY <1>3, <1>5, <2>1
  <2>3. Head(<<Outside>> \o <<last>>) = Outside
    OBVIOUS
  <2>4. QED  BY <1>1, <1>4, <2>2, <2>3
<1>7. Resolved(path) = (<<Root>> \o parent) \o <<last>>
  BY <1>3, <1>5, <1>6
<1>8. Front(Tail(Resolved(path))) = parent
  <2>1. /\ parent \in Seq(Components \cup {Root}) /\ last \in Components \cup {Root}
        /\ Root \in Components \cup {Root}
    BY <1>2
  <2>2. QED  BY <1>7, <2>1, FrontOfAppended
<1>9. QED  BY <1>6, <1>8

\* The hops of delete_file: each is a directory of the workspace.
LEMMA HopInside ==
    ASSUME FsInv, NEW d \in Dirs \cup {"none"}, NEW n \in Components
    PROVE  n \in Names => Hop(d, n) \in SubDirs \cup {"none"}
BY DEF FsInv, Hop

LEMMA WorkspaceInside ==
    ASSUME FsInv, NEW d \in InWorkspace
    PROVE  d \in {Root} \cup SubDirs /\ d # Outside /\ d \in Dirs
BY DEF FsInv, InWorkspace, Dirs, SubDirs, Root, Outside

-----------------------------------------------------------------------------
(* What a step of one call keeps.                                          *)

\* The parts of the invariant that are about the calls.
LEMMA CallFrame ==
    ASSUME IInv, NEW c \in Calls, NEW new, Update(c, new), call[c].pc # "idle",
           "req" \notin DOMAIN new, "pc" \in DOMAIN new, new.pc # "idle",
           new.pc \in Runs => call[c].req.op \in {"run", "runfile"},
           "dir" \in DOMAIN new => new.dir # Outside
    PROVE  Shaped' /\ \A d \in Calls : CallInv(d)'
<1>1. /\ Shaped' /\ \A d \in Calls \ {c} : call'[d] = call[d]
      /\ \A f \in Fields : call'[c][f] = IF f \in DOMAIN new THEN new[f] ELSE call[c][f]
  BY UpdateFacts DEF IInv
<1>2. call'[c].req = call[c].req /\ call'[c].pc = new.pc
      /\ (call'[c].dir = call[c].dir \/ call'[c].dir # Outside)
  BY <1>1 DEF Fields
<1>3. QED  BY <1>1, <1>2 DEF IInv, CallInv

\* A call that ends.
LEMMA DoneFrame ==
    ASSUME IInv, NEW c \in Calls, NEW answer, Done(c, answer), call[c].pc # "idle"
    PROVE  Shaped' /\ (\A d \in Calls : CallInv(d)') /\ call'[c].pc = "done"
<1> DEFINE new == [pc |-> "done", answer |-> answer]
<1>1. Update(c, new)
  BY DEF Done
<1>2. DOMAIN new = {"pc", "answer"} /\ new.pc = "done"
  OBVIOUS
<1> HIDE DEF new
<1>3. Shaped' /\ \A d \in Calls : CallInv(d)'
  BY <1>1, <1>2, CallFrame
<1>4. call'[c].pc = "done"
  BY <1>1, <1>2, UpdateFacts DEF IInv, Fields
<1>5. QED  BY <1>3, <1>4

\* A call that goes on to place pc.
LEMMA PlaceFrame ==
    ASSUME IInv, NEW c \in Calls, NEW pc, Update(c, [pc |-> pc]), call[c].pc # "idle", pc # "idle",
           pc \in Runs => call[c].req.op \in {"run", "runfile"}
    PROVE  Shaped' /\ \A d \in Calls : CallInv(d)'
<1> DEFINE new == [pc |-> pc]
<1>1. DOMAIN new = {"pc"} /\ new.pc = pc
  OBVIOUS
<1>2. Update(c, new)
  OBVIOUS
<1> HIDE DEF new
<1>3. QED  BY <1>1, <1>2, CallFrame

\* A step that changes neither the files nor the spills.
Still == UNCHANGED <<fs, spilled>> /\ lock' \in Calls \cup {Free}

LEMMA StillKeeps ==
    ASSUME IInv, Still, Shaped', \A d \in Calls : CallInv(d)'
    PROVE  IInv'
BY DEF IInv, Still, FsInv, SpillInv

LEMMA ArriveKeeps == ASSUME IInv, NEW c \in Calls, Arrive(c)  PROVE IInv'
<1>1. PICK req \in Requests[c] : Update(c, [pc |-> "begin", req |-> req])
  BY DEF Arrive
<1>2. req \in RequestType
  BY SessionDiskAssumption
<1> DEFINE new == [pc |-> "begin", req |-> req]
<1>3. DOMAIN new = {"pc", "req"} /\ new.pc = "begin" /\ new.req = req
  OBVIOUS
<1>4. Update(c, new)
  BY <1>1
<1> HIDE DEF new
<1>5. /\ Shaped' /\ \A d \in Calls \ {c} : call'[d] = call[d]
      /\ \A f \in Fields : call'[c][f] = IF f \in DOMAIN new THEN new[f] ELSE call[c][f]
  BY <1>4, UpdateFacts DEF IInv
<1>6. call'[c].pc = "begin" /\ call'[c].req = req /\ call'[c].dir = call[c].dir
  BY <1>3, <1>5 DEF Fields
<1>7. \A d \in Calls : CallInv(d)'
  BY <1>2, <1>5, <1>6 DEF IInv, CallInv
<1>8. Still
  BY DEF Arrive, Still, IInv
<1>9. QED  BY <1>5, <1>7, <1>8, StillKeeps

\* What a call that is under way asks for.
LEMMA Asked ==
    ASSUME IInv, NEW c \in Calls, call[c].req.op # "none"
    PROVE  call[c].req \in RequestType /\ call[c].pc # "idle"
<1>1. call[c].pc = "idle" => call[c].req.op = "none"
  BY DEF IInv, CallInv
<1>2. QED  BY <1>1 DEF IInv, CallInv

LEMMA WriteResolvesKeeps == ASSUME IInv, NEW c \in Calls, WriteResolves(c)  PROVE IInv'
<1> DEFINE path == call[c].req.path
<1> DEFINE target == Tail(Resolved(path))
<1> DEFINE dir == Walk(Root, Front(target))
<1> DEFINE new == [pc |-> "check", target |-> target, dir |-> dir]
<1>1. call[c].req.op = "write" /\ call[c].pc = "begin"
  BY DEF WriteResolves, At
<1>2. path \in Seq(Components)
  BY <1>1, Asked, RequestFacts
<1>3. Still
  BY DEF WriteResolves, Still, IInv
<1>4. \/ Jailed(path) /\ Update(c, new)
      \/ Done(c, "permission")
  BY DEF WriteResolves
<1>5. CASE Jailed(path) /\ Update(c, new)
  <2>1. dir # Outside
    BY <1>2, <1>5, JailedInside
  <2> HIDE DEF target, dir, path
  <2>2. DOMAIN new = {"pc", "target", "dir"} /\ new.pc = "check" /\ new.dir = dir
    OBVIOUS
  <2> HIDE DEF new
  <2>3. Shaped' /\ \A d \in Calls : CallInv(d)'
    BY <1>1, <1>5, <2>1, <2>2, CallFrame
  <2>4. QED  BY <1>3, <2>3, StillKeeps
<1>6. CASE Done(c, "permission")
  BY <1>1, <1>3, <1>6, DoneFrame, StillKeeps
<1>7. QED  BY <1>4, <1>5, <1>6

LEMMA WriteCheckedKeeps == ASSUME IInv, NEW c \in Calls, WriteChecked(c)  PROVE IInv'
<1>1. /\ call[c].pc = "check"
      /\ \/ Update(c, [pc |-> "open"]) /\ lock' = c
         \/ Done(c, "exhausted") /\ lock' = lock
      /\ UNCHANGED <<fs, spilled>>
  BY DEF WriteChecked, At, Take
<1>2. Still
  BY <1>1 DEF Still, IInv
<1>3. QED  BY <1>1, <1>2, PlaceFrame, DoneFrame, StillKeeps

\* A write goes where the path leads at that moment: outside only if a
\* directory on the way was replaced since it was resolved.
LEMMA WriteOpensFacts ==
    ASSUME IInv, NEW c \in Calls, WriteOpens(c)
    PROVE  /\ IInv' /\ call'[c].pc = "done"
           /\ Walk(Root, Front(call[c].target)) # Outside => fs'[Outside] = fs[Outside]
<1> DEFINE target == call[c].target
<1> DEFINE dir == Walk(Root, Front(target))
<1> DEFINE size == call[c].req.size
<1>1. /\ call[c].pc = "open" /\ call[c].req.op = "write" /\ UNCHANGED spilled
      /\ lock' = IF lock = c THEN Free ELSE lock
  BY DEF WriteOpens, At
<1>2. size \in Nat
  BY <1>1, Asked, RequestFacts
<1>3. \/ fs' \in Opened(dir, Last(target), size)
      \/ fs' \in MadeAndOpened(Head(target), Last(target), size)
      \/ fs' = fs
  BY DEF WriteOpens
<1>4. Done(c, "ok") \/ Done(c, "raised")
  BY DEF WriteOpens
<1>5. Shaped' /\ (\A d \in Calls : CallInv(d)') /\ call'[c].pc = "done"
  BY <1>1, <1>4, DoneFrame
<1> HIDE DEF target, dir, size
<1>6. FsInv /\ File(size) \in Entries /\ File(size).kind = "file"
  BY <1>2, EntryTypes DEF IInv
<1>7. FsInv' /\ (dir # Outside => fs'[Outside] = fs[Outside])
  <2>1. CASE fs' \in Opened(dir, Last(target), size)
    <3>1. fs' = [fs EXCEPT ![dir][Last(target)] = File(size)]
      BY <2>1 DEF Opened
    <3>2. QED  BY <1>6, <3>1, SetEntry
  <2>2. CASE fs' \in MadeAndOpened(Head(target), Last(target), size)
    <3> DEFINE n == Head(target)
    <3> DEFINE listing == [m \in Names |-> IF m = Last(target) THEN File(size) ELSE NoEntry]
    <3>1. PICK s \in SubDirs : fs' = [fs EXCEPT ![Root][n] = Dir(s), ![s] = listing]
      BY <2>2 DEF MadeAndOpened, Unused
    <3>2. listing \in [Names -> Entries] /\ \A m \in Names : listing[m].kind # "dir"
      BY <1>6, EntryTypes
    <3>3. Dir(s) \in Entries /\ Dir(s).to = s
      BY EntryTypes
    <3> HIDE DEF listing, n
    <3>4. s \in Dirs /\ Root \in Dirs /\ Outside \in Dirs /\ s # Outside /\ Root # Outside /\ s # Root
      BY DEF Dirs, SubDirs, Root, Outside
    <3>5. fs' \in [Dirs -> [Names -> Entries]] /\ fs'[Outside] = fs[Outside]
      BY <1>6, <3>1, <3>2, <3>3, <3>4 DEF FsInv
    <3>6. \A d \in Dirs, m \in Names : fs'[d][m].kind = "dir" => fs'[d][m].to \in SubDirs
      BY <1>6, <3>1, <3>2, <3>3, <3>4 DEF FsInv
    <3>7. QED  BY <3>5, <3>6 DEF FsInv
  <2>3. CASE fs' = fs
    BY <1>6, <2>3 DEF FsInv
  <2>4. QED  BY <1>3, <2>1, <2>2, <2>3
<1>8. SpillInv' /\ lock' \in Calls \cup {Free}
  BY <1>1 DEF IInv, SpillInv
<1>9. QED  BY <1>5, <1>7, <1>8 DEF IInv, dir, target

LEMMA DeleteWalksKeeps == ASSUME IInv, NEW c \in Calls, DeleteWalks(c)  PROVE IInv'
<1> DEFINE path == call[c].req.path
<1> DEFINE last == Len(path) - 1
<1>1. call[c].req.op = "delete" /\ call[c].pc = "begin" /\ UNCHANGED <<fs, spilled>>
  BY DEF DeleteWalks, At
<1>2. path \in Seq(Components)
  BY <1>1, Asked, RequestFacts
<1>3. CASE Done(c, "permission") /\ UNCHANGED lock
  <2>1. Still  BY <1>1, <1>3 DEF Still, IInv
  <2>2. QED  BY <1>1, <1>3, <2>1, DoneFrame, StillKeeps
<1>4. ASSUME ~Refused(path), NEW hops \in [0 .. last -> Dirs \cup {"none"}], hops[0] = Root,
             \A i \in 1 .. last : hops[i] = Hop(hops[i - 1], path[i]),
             \/ Done(c, "no_file") /\ UNCHANGED lock
             \/ Update(c, [pc |-> "unlink", dir |-> hops[last]]) /\ Take(c)
      PROVE  IInv'
  <2>1. last \in Nat /\ Len(path) \in Nat
    BY <1>2, <1>4 DEF Refused
  <2>2. hops[last] # Outside
    <3>1. CASE last = 0
      BY <1>4, <3>1 DEF Root, Outside
    <3>2. CASE last # 0
      <4>1. last \in 1 .. last /\ last - 1 \in 0 .. last /\ last \in DOMAIN path
        BY <1>2, <2>1, <3>2
      <4>2. path[last] \in Components /\ path[last] \in Names
        BY <1>2, <1>4, <4>1 DEF Refused, Components
      <4>3. hops[last - 1] \in Dirs \cup {"none"} /\ hops[last] = Hop(hops[last - 1], path[last])
        BY <1>4, <4>1
      <4>4. hops[last] \in SubDirs \cup {"none"}
        BY <4>2, <4>3, HopInside DEF IInv
      <4>5. QED  BY <4>4 DEF SubDirs, Outside
    <3>3. QED  BY <3>1, <3>2
  <2> DEFINE dir == hops[last]
  <2> DEFINE new == [pc |-> "unlink", dir |-> dir]
  <2>3. Still
    BY <1>1, <1>4 DEF Still, IInv, Take
  <2>4. CASE Done(c, "no_file")
    BY <1>1, <2>3, <2>4, DoneFrame, StillKeeps
  <2>5. CASE Update(c, new)
    <3> HIDE DEF dir, last, path
    <3>1. DOMAIN new = {"pc", "dir"} /\ new.pc = "unlink" /\ new.dir = dir
      OBVIOUS
    <3> HIDE DEF new
    <3>2. Shaped' /\ \A d \in Calls : CallInv(d)'
      BY <1>1, <2>2, <2>5, <3>1, CallFrame DEF dir
    <3>3. QED  BY <2>3, <3>2, StillKeeps
  <2>6. QED  BY <1>4, <2>4, <2>5
<1>5. QED  BY <1>3, <1>4 DEF DeleteWalks

\* A deletion stays in the directory it opened.
LEMMA DeleteUnlinksFacts ==
    ASSUME IInv, NEW c \in Calls, DeleteUnlinks(c)
    PROVE  IInv' /\ fs'[Outside] = fs[Outside]
<1> DEFINE dir == call[c].dir
<1> DEFINE name == Last(call[c].req.path)
<1>1. /\ call[c].pc = "unlink" /\ lock' = Free /\ UNCHANGED spilled
      /\ fs' = fs \/ fs' = [fs EXCEPT ![dir][name] = NoEntry]
      /\ Done(c, "ok") \/ Done(c, "no_file")
  BY DEF DeleteUnlinks, Pinned, At, Release
<1>2. dir # Outside /\ FsInv
  BY DEF IInv, CallInv
<1> HIDE DEF dir, name
<1>3. FsInv' /\ fs'[Outside] = fs[Outside]
  <2>1. CASE fs' = fs
    BY <1>2, <2>1 DEF FsInv
  <2>2. CASE fs' = [fs EXCEPT ![dir][name] = NoEntry]
    BY <1>2, <2>2, EntryTypes, SetEntry
  <2>3. QED  BY <1>1, <2>1, <2>2
<1>4. Shaped' /\ \A d \in Calls : CallInv(d)'
  BY <1>1, DoneFrame
<1>5. SpillInv' /\ lock' \in Calls \cup {Free}
  BY <1>1 DEF IInv, SpillInv
<1>6. QED  BY <1>3, <1>4, <1>5 DEF IInv

\* Reads, runs, snapshots and restores change no file of the workspace.
LEMMA ReadKeeps ==
    ASSUME IInv, NEW c \in Calls, ReadResolves(c) \/ ReadOpens(c)
    PROVE  IInv'
<1>1. Still /\ call[c].pc # "idle"
  BY DEF ReadResolves, ReadOpens, At, Still, IInv
<1> DEFINE target == Tail(Resolved(call[c].req.path))
<1> DEFINE new == [pc |-> "open", target |-> target]
<1>2. Update(c, new) \/ \E answer : Done(c, answer)
  BY DEF ReadResolves, ReadOpens
<1> HIDE DEF target
<1>3. DOMAIN new = {"pc", "target"} /\ new.pc = "open"
  OBVIOUS
<1> HIDE DEF new
<1>4. Shaped' /\ \A d \in Calls : CallInv(d)'
  BY <1>1, <1>2, <1>3, CallFrame, DoneFrame
<1>5. QED  BY <1>1, <1>4, StillKeeps

LEMMA RunKeeps ==
    ASSUME IInv, NEW c \in Calls, RunBegins(c) \/ RunFileBegins(c) \/ RunEnds(c)
    PROVE  IInv'
<1>1. Still /\ call[c].pc # "idle"
  BY DEF RunBegins, RunFileBegins, RunEnds, At, Still, IInv
<1>2. \/ Update(c, [pc |-> "running"]) /\ call[c].req.op \in {"run", "runfile"}
      \/ \E answer : Done(c, answer)
  <2>1. CASE RunBegins(c)  BY <2>1 DEF RunBegins, At
  <2>2. CASE RunFileBegins(c)  BY <2>2 DEF RunFileBegins, At
  <2>3. CASE RunEnds(c)  BY <2>3 DEF RunEnds
  <2>4. QED  BY <2>1, <2>2, <2>3
<1>3. Shaped' /\ \A d \in Calls : CallInv(d)'
  BY <1>1, <1>2, PlaceFrame, DoneFrame
<1>4. QED  BY <1>1, <1>3, StillKeeps

\* The newest of the spilled outputs.
LEMMA PrunedFacts ==
    ASSUME NEW s \in Seq(Nat)
    PROVE  /\ Pruned(s) \in Seq(Nat)
           /\ \E n \in 0 .. Len(s) : Pruned(s) = SubSeq(s, 1, n)
<1>1. SpillKeep \in Nat /\ Len(s) \in Nat
  BY SessionDiskAssumption
<1> DEFINE n == IF Len(s) > SpillKeep THEN SpillKeep ELSE Len(s)
<1>2. n \in 0 .. Len(s)
  BY <1>1
<1>3. Pruned(s) = SubSeq(s, 1, n)
  BY DEF Pruned
<1> HIDE DEF n
<1>4. SubSeq(s, 1, n) \in Seq(Nat)
  BY <1>1, <1>2
<1>5. QED  BY <1>2, <1>3, <1>4

\* A call that notes the directory that the path of the spills leads to.
LEMMA SpotFrame ==
    ASSUME IInv, NEW c \in Calls, NEW pc, Update(c, [pc |-> pc, dir |-> spillDir]),
           spillDir # Outside, call[c].pc # "idle", pc # "idle", call[c].req.op \in {"run", "runfile"}
    PROVE  Shaped' /\ \A d \in Calls : CallInv(d)'
<1> DEFINE new == [pc |-> pc, dir |-> spillDir]
<1>1. DOMAIN new = {"pc", "dir"} /\ new.pc = pc /\ new.dir = spillDir
  OBVIOUS
<1>2. Update(c, new)
  OBVIOUS
<1> HIDE DEF new
<1>3. QED  BY <1>1, <1>2, CallFrame

LEMMA SpillIfTruncatedKeeps == ASSUME IInv, NEW c \in Calls, SpillIfTruncated(c)  PROVE IInv'
<1>1. call[c].pc = "running" /\ call[c].req.op \in {"run", "runfile"}
  BY DEF SpillIfTruncated, IInv, CallInv
<1>2. /\ \/ Update(c, [pc |-> "post"])
         \/ Done(c, "raised")
         \/ spillDir # Outside /\ Update(c, [pc |-> "spill", dir |-> spillDir])
      /\ Still
  BY DEF SpillIfTruncated, Still, Take, IInv
<1>3. Shaped' /\ \A d \in Calls : CallInv(d)'
  BY <1>1, <1>2, PlaceFrame, DoneFrame, SpotFrame
<1>4. QED  BY <1>2, <1>3, StillKeeps

\* What a run spills has a size.
LEMMA CapturedIsNat ==
    ASSUME IInv, NEW c \in Calls, call[c].pc \in Runs
    PROVE  Captured(call[c].req.out) \in Nat
<1>1. call[c].req.out \in Nat
  BY RequestFacts DEF IInv, CallInv
<1>2. QED  BY <1>1, SessionDiskAssumption DEF Captured

LEMMA WriteSpillKeeps == ASSUME IInv, NEW c \in Calls, WriteSpill(c)  PROVE IInv'
<1> DEFINE bytes == Captured(call[c].req.out)
<1>1. call[c].pc = "spill" /\ call[c].req.op \in {"run", "runfile"}
  BY DEF WriteSpill, IInv, CallInv
<1>2. bytes \in Nat
  BY <1>1, CapturedIsNat
<1>3. /\ Update(c, [pc |-> "prune"]) \/ Done(c, "raised")
      /\ spills' \in {spills, <<bytes>> \o spills} /\ strays' \in {strays, <<bytes>> \o strays}
      /\ spillDir' \in {spillDir, "dir"}
      /\ fs' = fs /\ lock' \in {lock, Free}
  BY DEF WriteSpill, Release
<1>4. Shaped' /\ \A d \in Calls : CallInv(d)'
  BY <1>1, <1>3, PlaceFrame, DoneFrame
<1> HIDE DEF bytes
<1>5. SpillInv'
  <2>1. spills \in Seq(Nat) /\ strays \in Seq(Nat) /\ spillDir \in Spots
    BY DEF IInv, SpillInv
  <2>2. <<bytes>> \o spills \in Seq(Nat) /\ <<bytes>> \o strays \in Seq(Nat)
    BY <1>2, <2>1
  <2>3. QED  BY <1>3, <2>1, <2>2 DEF SpillInv, Spots
<1>6. FsInv' /\ lock' \in Calls \cup {Free}
  BY <1>3 DEF IInv, FsInv
<1>7. QED  BY <1>4, <1>5, <1>6 DEF IInv

LEMMA PruneResolvesKeeps == ASSUME IInv, NEW c \in Calls, PruneResolves(c)  PROVE IInv'
<1>1. call[c].pc = "prune" /\ call[c].req.op \in {"run", "runfile"}
  BY DEF PruneResolves, IInv, CallInv
<1>2. /\ \/ Done(c, "raised")
         \/ spillDir # Outside /\ Update(c, [pc |-> "sweep", dir |-> spillDir])
      /\ Still
  BY DEF PruneResolves, Still, Release, IInv
<1>3. Shaped' /\ \A d \in Calls : CallInv(d)'
  BY <1>1, <1>2, DoneFrame, SpotFrame
<1>4. QED  BY <1>2, <1>3, StillKeeps

LEMMA PruneSpillKeeps == ASSUME IInv, NEW c \in Calls, PruneSpill(c)  PROVE IInv'
<1>1. /\ call[c].pc = "sweep" /\ Update(c, [pc |-> "post"]) /\ fs' = fs /\ lock' = Free
      /\ spills' \in {spills, Pruned(spills)} /\ strays' \in {strays, Pruned(strays)}
      /\ spillDir' = spillDir
  BY DEF PruneSpill, Release
<1>2. Shaped' /\ \A d \in Calls : CallInv(d)'
  BY <1>1, PlaceFrame
<1>3. SpillInv'
  BY <1>1, PrunedFacts DEF IInv, SpillInv
<1>4. FsInv' /\ lock' \in Calls \cup {Free}
  BY <1>1 DEF IInv, FsInv
<1>5. QED  BY <1>2, <1>3, <1>4 DEF IInv

LEMMA SnapshotKeeps ==
    ASSUME IInv, NEW c \in Calls,
           \/ SaveScans(c) \/ SaveArchives(c) \/ SnapshotRemoved(c)
           \/ RestorePlans(c) \/ RestoreExtracts(c)
    PROVE  IInv'
<1>1. Still /\ call[c].pc # "idle"
  BY DEF SaveScans, SaveArchives, SnapshotRemoved, RestorePlans, RestoreExtracts, At, Still, IInv
<1>2. ASSUME NEW found, Update(c, [pc |-> "archive", found |-> found])
      PROVE  Shaped' /\ \A d \in Calls : CallInv(d)'
  <2> DEFINE new == [pc |-> "archive", found |-> found]
  <2>1. DOMAIN new = {"pc", "found"} /\ new.pc = "archive" /\ Update(c, new)
    BY <1>2
  <2> HIDE DEF new
  <2>2. QED  BY <1>1, <2>1, CallFrame
<1>3. ASSUME NEW plan, Update(c, [pc |-> "extract", plan |-> plan])
      PROVE  Shaped' /\ \A d \in Calls : CallInv(d)'
  <2> DEFINE new == [pc |-> "extract", plan |-> plan]
  <2>1. DOMAIN new = {"pc", "plan"} /\ new.pc = "extract" /\ Update(c, new)
    BY <1>3
  <2> HIDE DEF new
  <2>2. QED  BY <1>1, <2>1, CallFrame
<1>4. \/ \E found : Update(c, [pc |-> "archive", found |-> found])
      \/ \E plan : Update(c, [pc |-> "extract", plan |-> plan])
      \/ \E answer : Done(c, answer)
  <2>1. CASE SaveScans(c)  BY <2>1, Zenon DEF SaveScans
  <2>2. CASE SaveArchives(c) \/ SnapshotRemoved(c) \/ RestoreExtracts(c)
    BY <2>2 DEF SaveArchives, SnapshotRemoved, RestoreExtracts
  <2>3. CASE RestorePlans(c)  BY <2>3, Zenon DEF RestorePlans
  <2>4. QED  BY <2>1, <2>2, <2>3, Zenon
<1>5. Shaped' /\ \A d \in Calls : CallInv(d)'
  BY <1>1, <1>2, <1>3, <1>4, DoneFrame
<1>6. QED  BY <1>1, <1>5, StillKeeps

\* The session's program has no directory outside to write to.
LEMMA ReplacesEntryFacts == ASSUME IInv, ReplacesEntry  PROVE FsInv' /\ fs'[Outside] = fs[Outside]
<1>1. PICK dir \in InWorkspace, name \in Names \ {"lock"} :
          \E e \in {NoEntry} \cup {File(n) : n \in Sizes} \cup {Link(to) : to \in LinkTargets}
                   \cup (IF dir = Root /\ name = "d" THEN {Dir(s) : s \in Unused} ELSE {}) :
              /\ fs[dir][name] # e
              /\ fs' = [fs EXCEPT ![dir][name] = e]
  BY Zenon DEF ReplacesEntry
<1>2. PICK e \in {NoEntry} \cup {File(n) : n \in Sizes} \cup {Link(to) : to \in LinkTargets}
                 \cup {Dir(s) : s \in SubDirs} :
          fs' = [fs EXCEPT ![dir][name] = e]
  <2>1. Unused \subseteq SubDirs  BY DEF Unused
  <2>2. {Dir(s) : s \in Unused} \subseteq {Dir(s) : s \in SubDirs}  BY <2>1
  <2>3. QED  BY <1>1, <2>2
<1>3. e \in Entries /\ (e.kind = "dir" => e.to \in SubDirs)
  BY EntryTypes, SessionDiskAssumption
<1>4. dir # Outside
  BY WorkspaceInside DEF IInv
<1>5. QED  BY <1>2, <1>3, <1>4, SetEntry DEF IInv

LEMMA ReplacesSpillsFacts ==
    ASSUME IInv, ReplacesSpills
    PROVE  SpillInv' /\ UNCHANGED <<fs, strays>>
<1>1. PICK at \in Spots :
          \E left \in {<<>>} \cup {<<n>> : n \in Sizes} : spillDir' = at /\ spills' = left
  BY DEF ReplacesSpills, Spots
<1>2. spills' \in Seq(Nat) /\ spillDir' \in Spots
  <2>1. <<>> \in Seq(Nat) /\ \A n \in Sizes : <<n>> \in Seq(Nat)
    BY SessionDiskAssumption
  <2>2. QED  BY <1>1, <2>1
<1>3. QED  BY <1>2 DEF IInv, SpillInv, ReplacesSpills

LEMMA ProgramFacts ==
    ASSUME IInv, Program
    PROVE  IInv' /\ fs'[Outside] = fs[Outside] /\ strays' = strays
<1>1. UNCHANGED <<lock, call>>
  BY DEF Program
<1>2. FsInv' /\ SpillInv' /\ fs'[Outside] = fs[Outside] /\ strays' = strays
  <2>1. CASE ReplacesEntry
    <3>1. UNCHANGED spilled
      BY <2>1 DEF ReplacesEntry
    <3>2. QED  BY <2>1, <3>1, ReplacesEntryFacts DEF IInv, SpillInv
  <2>2. CASE ReplacesSpills
    BY <2>2, ReplacesSpillsFacts DEF IInv, FsInv
  <2>3. QED  BY <2>1, <2>2 DEF Program
<1>3. lock' \in Calls \cup {Free} /\ Shaped' /\ \A c \in Calls : CallInv(c)'
  BY <1>1 DEF IInv, Shaped, CallInv
<1>4. QED  BY <1>2, <1>3 DEF IInv

LEMMA IdleKeeps == ASSUME IInv, UNCHANGED <<fs, spilled, lock, call>>  PROVE IInv'
BY DEF IInv, FsInv, SpillInv, Shaped, CallInv

-----------------------------------------------------------------------------
(* Every step, and the theorems.                                           *)

LEMMA NextKeeps == ASSUME IInv, [Next]_vars  PROVE IInv'
<1>1. ASSUME NEW c \in Calls,
             \/ Arrive(c) \/ WriteResolves(c) \/ WriteChecked(c) \/ WriteOpens(c)
             \/ DeleteWalks(c) \/ DeleteUnlinks(c)
      PROVE  IInv'
  BY <1>1, ArriveKeeps, WriteResolvesKeeps, WriteCheckedKeeps, WriteOpensFacts, DeleteWalksKeeps,
     DeleteUnlinksFacts
<1>2. ASSUME NEW c \in Calls,
             \/ ReadResolves(c) \/ ReadOpens(c)
             \/ RunBegins(c) \/ RunFileBegins(c) \/ RunEnds(c)
             \/ SaveScans(c) \/ SaveArchives(c) \/ SnapshotRemoved(c)
             \/ RestorePlans(c) \/ RestoreExtracts(c)
      PROVE  IInv'
  BY <1>2, ReadKeeps, RunKeeps, SnapshotKeeps
<1>3. ASSUME NEW c \in Calls,
             \/ SpillIfTruncated(c) \/ WriteSpill(c) \/ PruneResolves(c) \/ PruneSpill(c)
      PROVE  IInv'
  BY <1>3, SpillIfTruncatedKeeps, WriteSpillKeeps, PruneResolvesKeeps, PruneSpillKeeps
<1>4. CASE Program
  BY <1>4, ProgramFacts
<1>5. CASE Tamper \/ Finished \/ UNCHANGED vars
  BY <1>5, IdleKeeps DEF Tamper, Finished, vars
<1>6. QED  BY <1>1, <1>2, <1>3, <1>4, <1>5 DEF Next

LEMMA InitHolds == Init => IInv
<1>1. SUFFICES ASSUME Init  PROVE IInv
  OBVIOUS
<1>2. FsInv
  <2> DEFINE e(d, n) == CASE d = Root /\ n = "lock" -> File(0)
                          [] d = Root /\ n = "d" -> Dir("s1")
                          [] d = Outside /\ n = "f" -> File(1)
                          [] OTHER -> NoEntry
  <2>1. \A d \in Dirs, n \in Names :
            e(d, n) \in {NoEntry, File(0), File(1), Dir("s1")}
    OBVIOUS
  <2>2. \A x \in {NoEntry, File(0), File(1), Dir("s1")} :
            x \in Entries /\ (x.kind = "dir" => x.to \in SubDirs)
    BY EntryTypes DEF SubDirs
  <2>3. fs = [d \in Dirs |-> [n \in Names |-> e(d, n)]]
    BY <1>1 DEF Init
  <2> HIDE DEF e
  <2>4. QED  BY <2>1, <2>2, <2>3 DEF FsInv
<1>3. SpillInv /\ lock \in Calls \cup {Free}
  BY <1>1 DEF Init, SpillInv, Spots
<1>4. Shaped /\ \A c \in Calls : CallInv(c)
  <2>1. \A c \in Calls : call[c] = Idle
    BY <1>1 DEF Init
  <2>2. /\ DOMAIN Idle = Fields /\ Idle.pc = "idle" /\ Idle.req = [op |-> "none"]
        /\ Idle.dir = "none"
    BY DEF Idle, Fields
  <2>3. call = [c \in Calls |-> call[c]]
    BY <1>1 DEF Init
  <2>4. QED  BY <2>1, <2>2, <2>3 DEF Shaped, CallInv, Outside
<1>5. QED  BY <1>2, <1>3, <1>4 DEF IInv

\* The inductive invariant holds throughout.
THEOREM Invariance == Spec => []IInv
<1>1. Init => IInv  BY InitHolds
<1>2. IInv /\ [Next]_vars => IInv'  BY NextKeeps
<1>3. QED  BY <1>1, <1>2, PTL DEF Spec

\* Entries, spills and the lock have their types.
THEOREM TypeCorrect == Spec => []TypeOK
<1>1. IInv => TypeOK
  BY DEF IInv, FsInv, SpillInv, Spots, TypeOK
<1>2. QED  BY <1>1, Invariance, PTL

OutsideSame == fs'[Outside] = fs[Outside] /\ strays' = strays

\* Only a write, a spill or the removal of old spills can change something
\* outside.
LEMMA OnlyWrites ==
    ASSUME IInv, [Next]_vars, ~OutsideSame
    PROVE  \E c \in Calls : WriteOpens(c) \/ WriteSpill(c) \/ PruneSpill(c)
<1>1. ASSUME fs' = fs, strays' = strays  PROVE FALSE
  BY <1>1 DEF OutsideSame
<1>2. ASSUME NEW c \in Calls,
             \/ Arrive(c) \/ WriteResolves(c) \/ WriteChecked(c)
             \/ DeleteWalks(c) \/ DeleteUnlinks(c)
             \/ ReadResolves(c) \/ ReadOpens(c)
             \/ RunBegins(c) \/ RunFileBegins(c) \/ RunEnds(c)
             \/ SpillIfTruncated(c) \/ PruneResolves(c)
      PROVE  FALSE
  <2>1. CASE DeleteUnlinks(c)
    <3>1. strays' = strays
      BY <2>1 DEF DeleteUnlinks
    <3>2. QED  BY <2>1, <3>1, DeleteUnlinksFacts DEF OutsideSame
  <2>2. CASE Arrive(c) \/ WriteResolves(c) \/ WriteChecked(c) \/ DeleteWalks(c)
    BY <1>1, <2>2 DEF Arrive, WriteResolves, WriteChecked, DeleteWalks
  <2>3. CASE \/ ReadResolves(c) \/ ReadOpens(c)
             \/ RunBegins(c) \/ RunFileBegins(c) \/ RunEnds(c)
             \/ SpillIfTruncated(c) \/ PruneResolves(c)
    BY <1>1, <2>3 DEF ReadResolves, ReadOpens, RunBegins, RunFileBegins, RunEnds,
                      SpillIfTruncated, PruneResolves
  <2>4. QED  BY <1>2, <2>1, <2>2, <2>3
<1>3. ASSUME NEW c \in Calls,
             \/ SaveScans(c) \/ SaveArchives(c) \/ SnapshotRemoved(c)
             \/ RestorePlans(c) \/ RestoreExtracts(c)
      PROVE  FALSE
  BY <1>1, <1>3 DEF SaveScans, SaveArchives, SnapshotRemoved, RestorePlans, RestoreExtracts
<1>4. ~Program
  BY ProgramFacts DEF OutsideSame
<1>5. ~(Tamper \/ Finished \/ UNCHANGED vars)
  BY <1>1 DEF Tamper, Finished, vars
<1>6. QED  BY <1>2, <1>3, <1>4, <1>5 DEF Next

\* A write_file, a delete_file, a spill, the removal of old spills or a restore
\* changes nothing outside the workspace, whatever links and directories the
\* session's program puts in their way, except for a write one of whose parent
\* directories, or a spill or removal whose directory, it replaced after _jail
\* had resolved the path.
THEOREM StaysInside == Spec => OutsideKept
<1> DEFINE Excused(c) ==
        \/ /\ At(c, "write", "open") /\ call'[c].pc = "done"
           /\ Walk(Root, Front(call[c].target)) # call[c].dir
        \/ /\ call[c].pc \in {"spill", "sweep"} /\ call'[c].pc # call[c].pc
           /\ spillDir # call[c].dir
<1>1. ASSUME IInv, [Next]_vars, ~OutsideSame
      PROVE  \E c \in Calls : Excused(c)
  <2>1. PICK c \in Calls : WriteOpens(c) \/ WriteSpill(c) \/ PruneSpill(c)
    BY <1>1, OnlyWrites
  <2>2. call[c].dir # Outside
    BY <1>1 DEF IInv, CallInv
  <2>3. CASE WriteOpens(c)
    <3>1. At(c, "write", "open") /\ strays' = strays
      BY <2>3 DEF WriteOpens
    <3>2. call'[c].pc = "done" /\ Walk(Root, Front(call[c].target)) = Outside
      BY <1>1, <2>3, <3>1, WriteOpensFacts DEF OutsideSame
    <3>3. QED  BY <2>2, <3>1, <3>2
  <2>4. CASE WriteSpill(c)
    <3>1. /\ call[c].pc = "spill" /\ spillDir = Outside /\ Update(c, [pc |-> "prune"])
      BY <1>1, <2>4 DEF WriteSpill, OutsideSame
    <3>2. call'[c].pc = "prune"
      BY <1>1, <3>1, UpdateFacts DEF IInv, Fields
    <3>3. QED  BY <2>2, <3>1, <3>2
  <2>5. CASE PruneSpill(c)
    <3>1. /\ call[c].pc = "sweep" /\ spillDir = Outside /\ Update(c, [pc |-> "post"])
      BY <1>1, <2>5 DEF PruneSpill, OutsideSame
    <3>2. call'[c].pc = "post"
      BY <1>1, <3>1, UpdateFacts DEF IInv, Fields
    <3>3. QED  BY <2>2, <3>1, <3>2
  <2>6. QED  BY <2>1, <2>3, <2>4, <2>5
<1>2. IInv /\ [Next]_vars =>
          [<<fs'[Outside], strays'>> # <<fs[Outside], strays>> => \E c \in Calls : Excused(c)]_vars
  BY <1>1 DEF OutsideSame
<1>3. QED  BY <1>2, Invariance, PTL DEF Spec, OutsideKept

-----------------------------------------------------------------------------
(* Sums and walks: a function over the positions of a sequence.            *)

LEMMA LeastNumber ==
    ASSUME NEW T, T \subseteq Nat, T # {}
    PROVE  \E n \in T : \A m \in T : n <= m
<1> DEFINE R == {p \in Nat \X Nat : p[1] < p[2]}
<1>1. IsWellFoundedOn(R, Nat)
  BY NatLessThanWellFounded DEF OpToRel
<1> HIDE DEF R
<1>2. PICK x \in T : \A y \in T : ~(<<y, x>> \in R)
  BY <1>1, WFMin
<1>3. \A y \in T : ~(y < x)
  BY <1>2 DEF R
<1>4. QED  BY <1>3

\* t sums up the first n elements of s.
SumsTo(s, n, t) == t = [i \in 0 .. n |-> IF i = 0 THEN 0 ELSE t[i - 1] + s[i]]
Total(s) ==
    LET total[i \in 0 .. Len(s)] == IF i = 0 THEN 0 ELSE total[i - 1] + s[i]
    IN total[Len(s)]

LEMMA SumExists ==
    ASSUME NEW s \in Seq(Nat), NEW n \in Nat, n <= Len(s)
    PROVE  \E t : SumsTo(s, n, t)
<1> DEFINE T == {k \in Nat : ~\E t : SumsTo(s, k, t)}
<1>1. SUFFICES ASSUME T # {}  PROVE FALSE
  OBVIOUS
<1>2. PICK k \in T : \A m \in T : k <= m
  BY <1>1, LeastNumber
<1>3. k # 0
  <2>1. SumsTo(s, 0, [i \in 0 .. 0 |-> 0])
    BY DEF SumsTo
  <2>2. QED  BY <2>1
<1>4. PICK t : SumsTo(s, k - 1, t)
  BY <1>2, <1>3
<1> DEFINE u == [i \in 0 .. k |-> IF i = k THEN t[k - 1] + s[k] ELSE t[i]]
<1>5. SumsTo(s, k, u)
  BY <1>2, <1>3, <1>4 DEF SumsTo
<1>6. QED  BY <1>2, <1>5

LEMMA TotalIs ==
    ASSUME NEW s \in Seq(Nat)
    PROVE  \E t : SumsTo(s, Len(s), t) /\ Total(s) = t[Len(s)]
<1>1. \E t : SumsTo(s, Len(s), t)
  BY SumExists
<1>2. QED  BY <1>1 DEF SumsTo, Total

LEMMA SumStep ==
    ASSUME NEW s, NEW n \in Nat, NEW t, SumsTo(s, n, t)
    PROVE  t[0] = 0 /\ \A i \in 1 .. n : t[i] = t[i - 1] + s[i]
<1>1. t[0] = 0
  BY DEF SumsTo
<1>2. SUFFICES ASSUME NEW i \in 1 .. n  PROVE t[i] = t[i - 1] + s[i]
  BY <1>1
<1>3. i \in 0 .. n /\ i # 0
  OBVIOUS
<1>4. QED  BY <1>3 DEF SumsTo

\* A sum of naturals is one, and grows with the positions.
LEMMA SumFacts ==
    ASSUME NEW s \in Seq(Nat), NEW n \in Nat, n <= Len(s), NEW t, SumsTo(s, n, t)
    PROVE  \A i \in 0 .. n : t[i] \in Nat
<1> DEFINE T == {k \in Nat : k <= n /\ t[k] \notin Nat}
<1>1. SUFFICES ASSUME T # {}  PROVE FALSE
  OBVIOUS
<1>2. PICK k \in T : \A m \in T : k <= m
  BY <1>1, LeastNumber
<1>3. t[0] = 0 /\ \A i \in 1 .. n : t[i] = t[i - 1] + s[i]
  BY SumStep
<1>4. k # 0 /\ k - 1 \in 0 .. n
  BY <1>2, <1>3
<1>5. t[k - 1] \in Nat
  BY <1>2, <1>4
<1>6. s[k] \in Nat
  BY <1>2, <1>4
<1>7. QED  BY <1>2, <1>3, <1>4, <1>5, <1>6

\* The sums grow with the positions.
LEMMA SumGrows ==
    ASSUME NEW s \in Seq(Nat), NEW t, SumsTo(s, Len(s), t)
    PROVE  \A i \in 0 .. Len(s) : t[i] <= t[Len(s)]
<1>1. Len(s) \in Nat
  OBVIOUS
<1>2. t[0] = 0 /\ \A i \in 1 .. Len(s) : t[i] = t[i - 1] + s[i]
  BY <1>1, SumStep
<1>3. \A i \in 0 .. Len(s) : t[i] \in Nat
  BY <1>1, SumFacts
<1> DEFINE T == {k \in Nat : k <= Len(s) /\ ~(t[Len(s) - k] <= t[Len(s)])}
<1>4. SUFFICES ASSUME T # {}  PROVE FALSE
  <2>1. SUFFICES ASSUME NEW i \in 0 .. Len(s), T = {}  PROVE t[i] <= t[Len(s)]
    OBVIOUS
  <2>2. Len(s) - i \in Nat /\ Len(s) - i <= Len(s) /\ Len(s) - (Len(s) - i) = i
    OBVIOUS
  <2>3. QED  BY <2>1, <2>2
<1>5. PICK k \in T : \A m \in T : k <= m
  BY <1>4, LeastNumber
<1>6. k # 0
  BY <1>3, <1>5
<1>7. k - 1 \in Nat /\ ~(k <= k - 1)
  BY <1>5, <1>6
<1>8. t[Len(s) - (k - 1)] <= t[Len(s)]
  <2>1. k - 1 <= Len(s)
    BY <1>5
  <2>2. k - 1 \notin T
    <3> HIDE DEF T
    <3>1. QED  BY <1>5, <1>7
  <2>3. QED  BY <1>7, <2>1, <2>2
<1>9. Len(s) - (k - 1) \in 1 .. Len(s) /\ (Len(s) - (k - 1)) - 1 = Len(s) - k
  BY <1>5, <1>6
<1>10. t[Len(s) - (k - 1)] = t[Len(s) - k] + s[Len(s) - (k - 1)]
  BY <1>2, <1>9
<1>11. s[Len(s) - (k - 1)] \in Nat /\ Len(s) - k \in 0 .. Len(s)
  BY <1>5, <1>9
<1>12. t[Len(s) - k] \in Nat /\ t[Len(s)] \in Nat
  BY <1>3, <1>11
<1>13. QED  BY <1>5, <1>8, <1>10, <1>11, <1>12

\* A prefix has no larger sum.
LEMMA SumOfPrefix ==
    ASSUME NEW s \in Seq(Nat), NEW r \in Seq(Nat), Len(r) <= Len(s),
           \A i \in 1 .. Len(r) : r[i] = s[i]
    PROVE  Total(r) <= Total(s)
<1>1. PICK t : SumsTo(s, Len(s), t) /\ Total(s) = t[Len(s)]
  BY TotalIs
<1>2. PICK u : SumsTo(r, Len(r), u) /\ Total(r) = u[Len(r)]
  BY TotalIs
<1>3. Len(s) \in Nat /\ Len(r) \in Nat
  OBVIOUS
<1>4. /\ t[0] = 0 /\ \A i \in 1 .. Len(s) : t[i] = t[i - 1] + s[i]
      /\ u[0] = 0 /\ \A i \in 1 .. Len(r) : u[i] = u[i - 1] + r[i]
  BY <1>1, <1>2, <1>3, SumStep
<1> DEFINE T == {k \in Nat : k <= Len(r) /\ u[k] # t[k]}
<1>5. T = {}
  <2>1. SUFFICES ASSUME T # {}  PROVE FALSE
    OBVIOUS
  <2>2. PICK k \in T : \A m \in T : k <= m
    BY <2>1, LeastNumber
  <2>3. k # 0
    BY <1>4, <2>2
  <2>4. k \in 1 .. Len(r) /\ k \in 1 .. Len(s) /\ k - 1 \in Nat /\ k - 1 <= Len(r) /\ ~(k <= k - 1)
    BY <1>3, <2>2, <2>3
  <2>5. k - 1 \notin T
    <3> HIDE DEF T
    <3>1. QED  BY <2>2, <2>4
  <2>6. u[k - 1] = t[k - 1]
    BY <2>4, <2>5
  <2>7. u[k] = t[k]
    BY <1>4, <2>4, <2>6
  <2>8. QED  BY <2>2, <2>7
<1>6. u[Len(r)] = t[Len(r)]
  BY <1>3, <1>5
<1>7. Len(r) \in 0 .. Len(s)
  BY <1>3
<1>8. QED  BY <1>1, <1>2, <1>6, <1>7, SumGrows

\* One more element in front adds itself.
LEMMA SumOfFront ==
    ASSUME NEW s \in Seq(Nat), NEW b \in Nat
    PROVE  Total(<<b>> \o s) = b + Total(s)
<1> DEFINE r == <<b>> \o s
<1>1. /\ r \in Seq(Nat) /\ Len(r) = Len(s) + 1 /\ Len(s) \in Nat /\ Len(r) \in Nat
      /\ r[1] = b /\ \A i \in 1 .. Len(s) : r[i + 1] = s[i]
  OBVIOUS
<1> HIDE DEF r
<1>2. PICK t : SumsTo(s, Len(s), t) /\ Total(s) = t[Len(s)]
  BY TotalIs
<1>3. PICK u : SumsTo(r, Len(r), u) /\ Total(r) = u[Len(r)]
  BY <1>1, TotalIs
<1>4. t[0] = 0 /\ \A i \in 1 .. Len(s) : t[i] = t[i - 1] + s[i]
  BY <1>1, <1>2, SumStep
<1>5. u[0] = 0 /\ \A i \in 1 .. Len(r) : u[i] = u[i - 1] + r[i]
  BY <1>1, <1>3, SumStep
<1>6. \A i \in 0 .. Len(s) : t[i] \in Nat
  BY <1>1, <1>2, SumFacts
<1> DEFINE T == {k \in Nat : k <= Len(s) /\ u[k + 1] # b + t[k]}
<1>7. T = {}
  <2>1. SUFFICES ASSUME T # {}  PROVE FALSE
    OBVIOUS
  <2>2. PICK k \in T : \A m \in T : k <= m
    BY <2>1, LeastNumber
  <2>3. k # 0
    <3>1. 1 \in 1 .. Len(r)
      BY <1>1
    <3>2. u[1] = u[1 - 1] + r[1]
      BY <1>5, <3>1
    <3>3. u[0 + 1] = b + t[0]
      BY <1>1, <1>4, <1>5, <3>2
    <3>4. QED  BY <2>2, <3>3
  <2>4. k \in 1 .. Len(s) /\ k + 1 \in 1 .. Len(r) /\ k - 1 \in 0 .. Len(s) /\ ~(k <= k - 1)
        /\ (k - 1) + 1 = k /\ (k + 1) - 1 = k
    BY <1>1, <2>2, <2>3
  <2>5. k - 1 \notin T
    <3> HIDE DEF T
    <3>1. QED  BY <2>2, <2>4
  <2>6. u[k] = b + t[k - 1]
    BY <2>4, <2>5
  <2>7. u[k + 1] = u[k] + r[k + 1] /\ r[k + 1] = s[k] /\ t[k] = t[k - 1] + s[k]
    BY <1>1, <1>4, <1>5, <2>4
  <2>8. s[k] \in Nat /\ t[k - 1] \in Nat
    BY <1>6, <2>4
  <2>9. u[k + 1] = b + t[k]
    BY <2>6, <2>7, <2>8
  <2>10. QED  BY <2>2, <2>9
<1>8. u[Len(s) + 1] = b + t[Len(s)]
  BY <1>1, <1>7
<1>9. QED  BY <1>1, <1>2, <1>3, <1>8 DEF r

-----------------------------------------------------------------------------
(* Paths and sums of a given tree g.                                        *)

EnterIn(g, dir, name) ==
    IF dir = "none" THEN "none"
    ELSE LET e == g[dir][name]
         IN IF e.kind \in {"dir", "link"} /\ e.to \in Dirs THEN e.to ELSE "none"
WalkIn(g, start, names) ==
    LET at[i \in 0 .. Len(names)] == IF i = 0 THEN start ELSE EnterIn(g, at[i - 1], names[i])
    IN at[Len(names)]
Walks(g, start, names, n, w) ==
    w = [i \in 0 .. n |-> IF i = 0 THEN start ELSE EnterIn(g, w[i - 1], names[i])]

WorkspaceIn(g) == {Root} \cup {g[Root][n].to : n \in {m \in Names : g[Root][m].kind = "dir"}}
BytesIn(g, d, n) == IF d \in WorkspaceIn(g) /\ g[d][n].kind = "file" THEN g[d][n].size ELSE 0
DirIn(g, d) == BytesIn(g, d, "f") + BytesIn(g, d, "d") + BytesIn(g, d, "lock")
TreeIn(g) == DirIn(g, Root) + DirIn(g, "s1") + DirIn(g, "s2")

LEMMA WalkNow == \A start, names : Walk(start, names) = WalkIn(fs, start, names)
BY DEF Walk, WalkIn, Enter, EnterIn

LEMMA UsageNow == Usage = TreeIn(fs) + Total(spills)
<1>1. SpilledBytes = Total(spills)
  BY DEF SpilledBytes, Total
<1>2. InWorkspace = WorkspaceIn(fs)
  BY DEF InWorkspace, WorkspaceIn
<1>3. \A d, n : n \in Names => FileBytes(d, n) = BytesIn(fs, d, n)
  BY <1>2 DEF FileBytes, FilesIn, BytesIn
<1>4. \A d : DirBytes(d) = DirIn(fs, d)
  BY <1>3 DEF DirBytes, DirIn, Names
<1>5. QED  BY <1>1, <1>4 DEF Usage, TreeIn

LEMMA UsageNext == Usage' = TreeIn(fs') + Total(spills')
<1>1. SpilledBytes' = Total(spills')
  BY DEF SpilledBytes, Total
<1>2. InWorkspace' = WorkspaceIn(fs')
  BY DEF InWorkspace, WorkspaceIn
<1>3. \A d, n : n \in Names => FileBytes(d, n)' = BytesIn(fs', d, n)
  BY <1>2 DEF FileBytes, FilesIn, BytesIn
<1>4. \A d : DirBytes(d)' = DirIn(fs', d)
  BY <1>3 DEF DirBytes, DirIn, Names
<1>5. QED  BY <1>1, <1>4 DEF Usage, TreeIn

\* A tree without links, with directories only below the root.
Flat(g) ==
    /\ g \in [Dirs -> [Names -> Entries]]
    /\ \A d \in Dirs, n \in Names :
        /\ g[d][n].kind # "link"
        /\ g[d][n].kind = "dir" => d = Root /\ g[d][n].to \in SubDirs

LEMMA WalkExists ==
    ASSUME NEW g, NEW start, NEW names, NEW n \in Nat
    PROVE  \E w : Walks(g, start, names, n, w)
<1> DEFINE T == {k \in Nat : ~\E w : Walks(g, start, names, k, w)}
<1>1. SUFFICES ASSUME T # {}  PROVE FALSE
  OBVIOUS
<1>2. PICK k \in T : \A m \in T : k <= m
  BY <1>1, LeastNumber
<1>3. k # 0
  <2>1. Walks(g, start, names, 0, [i \in 0 .. 0 |-> start])
    BY DEF Walks
  <2>2. QED  BY <2>1
<1>4. PICK w : Walks(g, start, names, k - 1, w)
  BY <1>2, <1>3
<1> DEFINE u == [i \in 0 .. k |-> IF i = k THEN EnterIn(g, w[k - 1], names[k]) ELSE w[i]]
<1>5. Walks(g, start, names, k, u)
  BY <1>2, <1>3, <1>4 DEF Walks
<1>6. QED  BY <1>2, <1>5

LEMMA FlatFacts ==
    ASSUME NEW g, Flat(g)
    PROVE  /\ WorkspaceIn(g) \subseteq {Root, "s1", "s2"} /\ {Root, "s1", "s2"} \subseteq Dirs
           /\ "none" \notin Dirs /\ Root \notin SubDirs
BY DEF Flat, WorkspaceIn, Dirs, SubDirs, Root, Outside

LEMMA EnterInside ==
    ASSUME NEW g, Flat(g), NEW d \in WorkspaceIn(g) \cup {"none"}, NEW n \in Names
    PROVE  EnterIn(g, d, n) \in WorkspaceIn(g) \cup {"none"}
<1>1. CASE d = "none"
  BY <1>1 DEF EnterIn
<1>2. CASE d # "none"
  <2>1. d \in Dirs
    BY <1>2, FlatFacts
  <2>2. g[d][n].kind # "link" /\ (g[d][n].kind = "dir" => d = Root)
    BY <2>1 DEF Flat
  <2>3. g[d][n].kind = "dir" => g[d][n].to \in WorkspaceIn(g)
    BY <2>2 DEF WorkspaceIn
  <2>4. QED  BY <1>2, <2>2, <2>3 DEF EnterIn
<1>3. QED  BY <1>1, <1>2

LEMMA WalkInside ==
    ASSUME NEW g, Flat(g), NEW names \in Seq(Names)
    PROVE  WalkIn(g, Root, names) \in WorkspaceIn(g) \cup {"none"}
<1> DEFINE n == Len(names)
<1>1. PICK w : Walks(g, Root, names, n, w) /\ WalkIn(g, Root, names) = w[n]
  <2>1. \E w : Walks(g, Root, names, n, w)
    <3>1. n \in Nat
      OBVIOUS
    <3> HIDE DEF n
    <3>2. QED  BY <3>1, WalkExists
  <2>2. QED  BY <2>1 DEF Walks, WalkIn
<1>2. w[0] = Root /\ \A i \in 1 .. n : w[i] = EnterIn(g, w[i - 1], names[i])
  <2>1. w[0] = Root
    BY <1>1 DEF Walks
  <2>2. SUFFICES ASSUME NEW i \in 1 .. n  PROVE w[i] = EnterIn(g, w[i - 1], names[i])
    BY <2>1
  <2>3. i \in 0 .. n /\ i # 0
    OBVIOUS
  <2>4. QED  BY <1>1, <2>3 DEF Walks
<1> DEFINE W == WorkspaceIn(g) \cup {"none"}
<1> DEFINE T == {k \in Nat : k <= n /\ w[k] \notin W}
<1>3. SUFFICES ASSUME T # {}  PROVE FALSE
  <2>1. SUFFICES ASSUME T = {}  PROVE w[n] \in W
    BY <1>1
  <2>2. n \in Nat /\ n <= n
    OBVIOUS
  <2>3. QED  BY <2>1, <2>2
<1>4. PICK k \in T : \A m \in T : k <= m
  BY <1>3, LeastNumber
<1>5. k # 0
  BY <1>2, <1>4 DEF WorkspaceIn
<1>6. k \in 1 .. n /\ k - 1 \in Nat /\ k - 1 <= n /\ ~(k <= k - 1)
  BY <1>4, <1>5
<1>7. w[k - 1] \in W
  <2>1. k - 1 \notin T
    <3> HIDE DEF T
    <3>1. QED  BY <1>4, <1>6
  <2>2. QED  BY <1>6, <2>1
<1>8. names[k] \in Names
  BY <1>6
<1>9. w[k] = EnterIn(g, w[k - 1], names[k])
  BY <1>2, <1>6
<1>10. w[k] \in W
  BY <1>7, <1>8, <1>9, EnterInside
<1>11. QED  BY <1>4, <1>10

LEMMA BytesNat ==
    ASSUME NEW g, Flat(g)
    PROVE  /\ \A d \in {Root, "s1", "s2"}, n \in Names : BytesIn(g, d, n) \in Nat
           /\ TreeIn(g) \in Nat
<1>1. \A d \in {Root, "s1", "s2"}, n \in Names : BytesIn(g, d, n) \in Nat
  BY FlatFacts DEF Flat, BytesIn, Entries
<1>2. \A d \in {Root, "s1", "s2"} : DirIn(g, d) \in Nat
  BY <1>1 DEF DirIn, Names
<1>3. TreeIn(g) \in Nat
  BY <1>2 DEF TreeIn
<1>4. QED  BY <1>1, <1>3

\* The tree with one entry set, and with a directory made for one file.
SetIn(g, d, n, e) == [g EXCEPT ![d][n] = e]
MadeIn(g, n, s, last, size) ==
    [g EXCEPT ![Root][n] = Dir(s),
              ![s] = [m \in Names |-> IF m = last THEN File(size) ELSE NoEntry]]

\* One file changes by what it grows.
LEMMA TreeSet ==
    ASSUME NEW g, Flat(g), NEW d \in Dirs, NEW n \in Names, NEW e \in Entries,
           e.kind \in {"none", "file"}, g[d][n].kind \in {"none", "file"},
           NEW h, h = SetIn(g, d, n, e)
    PROVE  /\ Flat(h) /\ WorkspaceIn(h) = WorkspaceIn(g)
           /\ \A x \in {Root, "s1", "s2"}, m \in Names :
                <<x, m>> # <<d, n>> => BytesIn(h, x, m) = BytesIn(g, x, m)
           /\ d \in WorkspaceIn(g) => TreeIn(h) = (TreeIn(g) - BytesIn(g, d, n)) + BytesIn(h, d, n)
           /\ d \notin WorkspaceIn(g) => TreeIn(h) = TreeIn(g)
<1>0. h = [g EXCEPT ![d][n] = e]
  BY DEF SetIn
<1>1. Flat(h)
  BY <1>0 DEF Flat
<1>2. WorkspaceIn(h) = WorkspaceIn(g)
  <2>1. \A m \in Names : (h[Root][m].kind = "dir") = (g[Root][m].kind = "dir")
                         /\ (g[Root][m].kind = "dir" => h[Root][m].to = g[Root][m].to)
    BY <1>0, FlatFacts DEF Flat
  <2>2. QED  BY <2>1 DEF WorkspaceIn
<1>3. \A x \in {Root, "s1", "s2"}, m \in Names :
          <<x, m>> # <<d, n>> => BytesIn(h, x, m) = BytesIn(g, x, m)
  BY <1>0, <1>2, FlatFacts DEF Flat, BytesIn
<1>4. (\A x \in {Root, "s1", "s2"}, m \in Names : BytesIn(g, x, m) \in Nat)
      /\ (\A x \in {Root, "s1", "s2"}, m \in Names : BytesIn(h, x, m) \in Nat)
  BY <1>1, BytesNat
<1>5. ASSUME d \in WorkspaceIn(g)
      PROVE  TreeIn(h) = (TreeIn(g) - BytesIn(g, d, n)) + BytesIn(h, d, n)
  <2>1. d \in {Root, "s1", "s2"} /\ n \in {"f", "d", "lock"}
    BY <1>5, FlatFacts DEF Names
  <2>2. \A x \in {Root, "s1", "s2"} : x # d => DirIn(h, x) = DirIn(g, x)
    BY <1>3 DEF DirIn, Names
  <2>3. DirIn(h, d) = (DirIn(g, d) - BytesIn(g, d, n)) + BytesIn(h, d, n)
    BY <1>3, <1>4, <2>1 DEF DirIn, Names
  <2>4. \A x \in {Root, "s1", "s2"} : DirIn(g, x) \in Nat /\ DirIn(h, x) \in Nat
    BY <1>4 DEF DirIn, Names
  <2>5. BytesIn(g, d, n) \in Nat /\ BytesIn(h, d, n) \in Nat
    BY <1>4, <2>1
  <2>6. Root # "s1" /\ Root # "s2"
    BY DEF Root
  <2>7. QED  BY <2>1, <2>2, <2>3, <2>4, <2>5, <2>6 DEF TreeIn
<1>6. ASSUME d \notin WorkspaceIn(g)  PROVE TreeIn(h) = TreeIn(g)
  <2>1. \A x \in {Root, "s1", "s2"}, m \in Names : BytesIn(h, x, m) = BytesIn(g, x, m)
    BY <1>2, <1>3, <1>6 DEF BytesIn
  <2>2. QED  BY <2>1 DEF TreeIn, DirIn, Names
<1>7. QED  BY <1>1, <1>2, <1>3, <1>5, <1>6

\* A directory made for one file adds the file.
LEMMA TreeMade ==
    ASSUME NEW g, Flat(g), NEW n \in Names, g[Root][n].kind = "none",
           NEW s \in SubDirs, \A m \in Names : g[Root][m].to # s,
           NEW last, NEW size \in Nat, NEW h, h = MadeIn(g, n, s, last, size)
    PROVE  Flat(h) /\ TreeIn(h) <= TreeIn(g) + size
<1> DEFINE listing == [m \in Names |-> IF m = last THEN File(size) ELSE NoEntry]
<1>1. /\ listing \in [Names -> Entries]
      /\ \A m \in Names : listing[m] = IF m = last THEN File(size) ELSE NoEntry
  BY EntryTypes
<1>2. /\ Dir(s) \in Entries /\ Dir(s).kind = "dir" /\ Dir(s).to = s
      /\ File(size).kind = "file" /\ File(size).size = size /\ NoEntry.kind = "none"
  BY EntryTypes DEF File
<1>3. h = [g EXCEPT ![Root][n] = Dir(s), ![s] = listing]
  BY DEF MadeIn
<1> HIDE DEF listing
<1>4. s \in {"s1", "s2"} /\ s # Root /\ s \in Dirs /\ Root \in Dirs /\ Root # "s1" /\ Root # "s2"
  BY DEF SubDirs, Dirs, Root
<1>5. g \in [Dirs -> [Names -> Entries]]
  BY DEF Flat
<1>6. /\ h \in [Dirs -> [Names -> Entries]]
      /\ h[s] = listing /\ h[Root] = [g[Root] EXCEPT ![n] = Dir(s)]
      /\ \A x \in Dirs : x # s /\ x # Root => h[x] = g[x]
  <2> DEFINE k == [g EXCEPT ![Root][n] = Dir(s)]
  <2>1. /\ k \in [Dirs -> [Names -> Entries]] /\ k[Root] = [g[Root] EXCEPT ![n] = Dir(s)]
        /\ \A x \in Dirs : x # Root => k[x] = g[x]
    BY <1>2, <1>4, <1>5
  <2>2. h = [k EXCEPT ![s] = listing]
    BY <1>3
  <2> HIDE DEF k
  <2>3. QED  BY <1>1, <1>4, <2>1, <2>2
<1>7. Flat(h)
  BY <1>1, <1>2, <1>4, <1>5, <1>6 DEF Flat
<1>8. s \notin WorkspaceIn(g) /\ WorkspaceIn(h) = WorkspaceIn(g) \cup {s}
  <2>1. /\ h[Root][n] = Dir(s)
        /\ \A m \in Names : m # n => h[Root][m] = g[Root][m]
    BY <1>4, <1>5, <1>6
  <2>2. s \notin WorkspaceIn(g)
    BY <1>4 DEF WorkspaceIn
  <2>3. WorkspaceIn(h) \subseteq WorkspaceIn(g) \cup {s}
    <3>1. ASSUME NEW m \in Names, h[Root][m].kind = "dir"
          PROVE  h[Root][m].to \in WorkspaceIn(g) \cup {s}
      <4>1. CASE m = n
        BY <1>2, <2>1, <4>1
      <4>2. CASE m # n
        BY <2>1, <3>1, <4>2 DEF WorkspaceIn
      <4>3. QED  BY <4>1, <4>2
    <3>2. QED  BY <3>1 DEF WorkspaceIn
  <2>4. WorkspaceIn(g) \cup {s} \subseteq WorkspaceIn(h)
    <3>1. s \in WorkspaceIn(h)
      BY <1>2, <2>1 DEF WorkspaceIn
    <3>2. \A m \in Names : g[Root][m].kind = "dir" => m # n /\ h[Root][m] = g[Root][m]
      BY <2>1
    <3>3. WorkspaceIn(g) \subseteq WorkspaceIn(h)
      BY <3>2 DEF WorkspaceIn
    <3>4. QED  BY <3>1, <3>3
  <2>5. QED  BY <2>2, <2>3, <2>4
<1>9. \A x \in {Root, "s1", "s2"} : x # s => DirIn(h, x) = DirIn(g, x)
  <2>1. \A x \in {Root, "s1", "s2"}, m \in Names : x # s => BytesIn(h, x, m) = BytesIn(g, x, m)
    <3>1. SUFFICES ASSUME NEW x \in {Root, "s1", "s2"}, NEW m \in Names, x # s
                   PROVE  BytesIn(h, x, m) = BytesIn(g, x, m)
      OBVIOUS
    <3>2. x \in WorkspaceIn(h) <=> x \in WorkspaceIn(g)
      BY <1>8, <3>1
    <3>3. h[x][m] = g[x][m] \/ (h[x][m].kind = "dir" /\ g[x][m].kind = "none")
      BY <1>2, <1>4, <1>5, <1>6, <3>1 DEF Dirs, SubDirs
    <3>4. QED  BY <3>2, <3>3 DEF BytesIn
  <2>2. QED  BY <2>1 DEF DirIn, Names
<1>10. DirIn(g, s) = 0
  BY <1>8 DEF DirIn, BytesIn
<1>11. DirIn(h, s) <= size /\ DirIn(h, s) \in Nat
  <2>1. \A m \in Names : BytesIn(h, s, m) = IF m = last THEN size ELSE 0
    BY <1>1, <1>2, <1>6, <1>8 DEF BytesIn
  <2>2. QED  BY <2>1 DEF DirIn, Names
<1>12. \A x \in {Root, "s1", "s2"} : DirIn(g, x) \in Nat
  BY BytesNat DEF DirIn, Names
<1>13. QED  BY <1>4, <1>7, <1>9, <1>10, <1>11, <1>12 DEF TreeIn

-----------------------------------------------------------------------------
(* What the server itself writes stays within the quota.                    *)

\* The entry a write is about to replace.
EntryIn(g, target) ==
    LET dir == WalkIn(g, Root, Front(target))
    IN IF dir = "none" THEN NoEntry ELSE g[dir][Last(target)]
Allowed(c) ==
    LET old == EntryIn(fs, call[c].target).size
        size == call[c].req.size
    IN size <= old \/ (TreeIn(fs) + Total(spills)) + (size - old) <= SessionQuota

\* The calls that hold the lock, and what was measured for the next write.
Holds(c) == At(c, "write", "open") \/ call[c].pc \in {"spill", "prune", "sweep"}
Ready(c) ==
    /\ At(c, "write", "open") => Allowed(c)
    /\ call[c].pc = "spill" =>
        (TreeIn(fs) + Total(spills)) + Captured(call[c].req.out) <= SessionQuota

Sized == \A d \in Dirs, n \in Names : fs[d][n].kind # "file" => fs[d][n].size = 0
TargetInv(c) ==
    /\ At(c, "write", "check") \/ At(c, "write", "open")
        => call[c].target \in Seq(Names) /\ call[c].target # <<>>
    /\ Holds(c) => lock = c
UnderInv ==
    program = 0 => /\ Flat(fs)
                   /\ TreeIn(fs) + Total(spills) <= SessionQuota
                   /\ \A c \in Calls : Ready(c)

QuotaInv ==
    /\ program \in Nat
    /\ Sized
    /\ \A c \in Calls : TargetInv(c)
    /\ UnderInv

\* A step of call c that changes no file.
LEMMA StillUnder ==
    ASSUME IInv, QuotaInv, NEW c \in Calls, UNCHANGED <<fs, spills, program>>,
           \A d \in Calls \ {c} : call'[d] = call[d],
           lock' = lock \/ lock = Free \/ lock = c,
           program = 0 => Ready(c)', TargetInv(c)'
    PROVE  QuotaInv'
<1>1. program' \in Nat /\ Sized'
  BY DEF QuotaInv, Sized
<1>2. ASSUME NEW d \in Calls  PROVE TargetInv(d)'
  <2>1. CASE d = c
    BY <2>1
  <2>2. CASE d # c
    <3>1. call'[d] = call[d]
      BY <2>2
    <3>2. Holds(d) => lock = d /\ lock # Free /\ lock # c
      BY <2>2, SessionDiskAssumption DEF QuotaInv, TargetInv
    <3>3. QED  BY <3>1, <3>2 DEF QuotaInv, TargetInv, At, Holds
  <2>3. QED  BY <2>1, <2>2
<1>3. UnderInv'
  <2>1. SUFFICES ASSUME program' = 0
                 PROVE  /\ Flat(fs')
                        /\ TreeIn(fs') + Total(spills') <= SessionQuota
                        /\ \A d \in Calls : Ready(d)'
    BY DEF UnderInv
  <2>2. /\ Flat(fs) /\ TreeIn(fs) + Total(spills) <= SessionQuota
        /\ \A d \in Calls : Ready(d)
    BY <2>1 DEF QuotaInv, UnderInv
  <2>3. ASSUME NEW d \in Calls, d # c  PROVE Ready(d)'
    <3>1. call'[d] = call[d] /\ Ready(d)
      BY <2>2, <2>3
    <3>2. QED  BY <3>1 DEF Ready, At, Allowed
  <2>4. QED  BY <2>1, <2>2, <2>3
<1>4. QED  BY <1>1, <1>2, <1>3 DEF QuotaInv

LEMMA OtherMove ==
    ASSUME IInv, QuotaInv, NEW c \in Calls, NEW new, Update(c, new), "pc" \in DOMAIN new,
           new.pc \notin {"spill", "prune", "sweep"},
           \/ new.pc \notin {"check", "open"}
           \/ call[c].req.op # "write" /\ "req" \notin DOMAIN new,
           UNCHANGED <<fs, spills, program>>, lock' = lock \/ lock = Free \/ lock = c
    PROVE  QuotaInv'
<1>1. /\ \A d \in Calls \ {c} : call'[d] = call[d]
      /\ \A f \in Fields : call'[c][f] = IF f \in DOMAIN new THEN new[f] ELSE call[c][f]
  BY UpdateFacts DEF IInv
<1>2. ~At(c, "write", "open")' /\ ~At(c, "write", "check")' /\ call'[c].pc = new.pc
  BY <1>1 DEF Fields, At
<1>3. TargetInv(c)' /\ Ready(c)'
  BY <1>2 DEF TargetInv, Holds, Ready
<1>4. QED  BY <1>1, <1>3, StillUnder

LEMMA DoneMove ==
    ASSUME IInv, QuotaInv, NEW c \in Calls, NEW answer, Done(c, answer),
           UNCHANGED <<fs, spills, program>>, lock' = lock \/ lock = Free \/ lock = c
    PROVE  QuotaInv'
<1> DEFINE new == [pc |-> "done", answer |-> answer]
<1>1. Update(c, new) /\ "pc" \in DOMAIN new /\ new.pc = "done"
  BY DEF Done
<1> HIDE DEF new
<1>2. QED  BY <1>1, OtherMove

LEMMA PlaceMove ==
    ASSUME IInv, QuotaInv, NEW c \in Calls, NEW pc, Update(c, [pc |-> pc]),
           pc \notin {"check", "open", "spill", "prune", "sweep"},
           UNCHANGED <<fs, spills, program>>, lock' = lock \/ lock = Free \/ lock = c
    PROVE  QuotaInv'
<1> DEFINE new == [pc |-> pc]
<1>1. Update(c, new) /\ "pc" \in DOMAIN new /\ new.pc = pc
  OBVIOUS
<1> HIDE DEF new
<1>2. QED  BY <1>1, OtherMove

LEMMA ArriveUnder == ASSUME IInv, QuotaInv, NEW c \in Calls, Arrive(c)  PROVE QuotaInv'
<1>1. PICK req \in Requests[c] : Update(c, [pc |-> "begin", req |-> req])
  BY DEF Arrive
<1> DEFINE new == [pc |-> "begin", req |-> req]
<1>2. Update(c, new) /\ "pc" \in DOMAIN new /\ new.pc = "begin"
  BY <1>1
<1> HIDE DEF new
<1>3. UNCHANGED <<fs, spills, program>> /\ lock' = lock
  BY DEF Arrive
<1>4. QED  BY <1>2, <1>3, OtherMove

\* What _jail lets pass is the path as it was written.
LEMMA JailedTarget ==
    ASSUME NEW path \in Seq(Components), Jailed(path)
    PROVE  Tail(Resolved(path)) \in Seq(Names) /\ Tail(Resolved(path)) # <<>>
<1> DEFINE last == Last(path)
<1> DEFINE parent == Front(path)
<1> DEFINE dir == Walk(Root, parent)
<1> DEFINE e == IF dir = "none" THEN NoEntry ELSE fs[dir][last]
<1> DEFINE base == IF dir = Outside THEN <<Outside>> ELSE <<Root>> \o parent
<1>1. /\ path # <<>> /\ Head(Resolved(path)) = Root
      /\ \A i \in DOMAIN path : path[i] \notin {"..", "bad"}
  BY DEF Jailed, Refused
<1>2. path \in Seq(Names)
  BY <1>1 DEF Components
<1>3. parent \in Seq(Names) /\ last \in Names
  BY <1>1, <1>2 DEF Front, Last
<1>4. Resolved(path) = IF e.kind # "link" THEN base \o <<last>>
                       ELSE IF e.to = Outside THEN <<Outside>> ELSE <<Outside, "f">>
  BY DEF Resolved
<1>5. Root # Outside
  BY DEF Root, Outside
<1> HIDE DEF last, parent, e
<1>6. e.kind # "link"
  BY <1>1, <1>4, <1>5
<1>7. dir # Outside
  <2>1. SUFFICES ASSUME dir = Outside  PROVE FALSE
    OBVIOUS
  <2>2. Resolved(path) = <<Outside>> \o <<last>>
    BY <1>4, <1>6, <2>1
  <2>3. Head(<<Outside>> \o <<last>>) = Outside
    OBVIOUS
  <2>4. QED  BY <1>1, <1>5, <2>2, <2>3
<1>8. Resolved(path) = (<<Root>> \o parent) \o <<last>>
  BY <1>4, <1>6, <1>7
<1>9. Tail((<<Root>> \o parent) \o <<last>>) = parent \o <<last>>
  BY <1>3
<1>10. parent \o <<last>> \in Seq(Names) /\ parent \o <<last>> # <<>>
  BY <1>3
<1>11. QED  BY <1>8, <1>9, <1>10

LEMMA WriteResolvesUnder ==
    ASSUME IInv, QuotaInv, NEW c \in Calls, WriteResolves(c)
    PROVE  QuotaInv'
<1> DEFINE path == call[c].req.path
<1> DEFINE target == Tail(Resolved(path))
<1> DEFINE new == [pc |-> "check", target |-> target, dir |-> Walk(Root, Front(target))]
<1>1. call[c].req.op = "write" /\ call[c].pc = "begin" /\ UNCHANGED <<fs, spills, program, lock>>
  BY DEF WriteResolves, At
<1>2. path \in Seq(Components)
  BY <1>1, Asked, RequestFacts
<1>3. \/ Jailed(path) /\ Update(c, new)
      \/ Done(c, "permission")
  BY DEF WriteResolves
<1>4. CASE Jailed(path) /\ Update(c, new)
  <2>1. target \in Seq(Names) /\ target # <<>>
    BY <1>2, <1>4, JailedTarget
  <2> HIDE DEF target, path
  <2>2. "pc" \in DOMAIN new /\ "target" \in DOMAIN new /\ new.pc = "check" /\ new.target = target
    OBVIOUS
  <2> HIDE DEF new
  <2>3. /\ \A d \in Calls \ {c} : call'[d] = call[d]
        /\ \A f \in Fields : call'[c][f] = IF f \in DOMAIN new THEN new[f] ELSE call[c][f]
    BY <1>4, UpdateFacts DEF IInv
  <2>4. call'[c].pc = "check" /\ call'[c].target = target
    BY <2>2, <2>3 DEF Fields
  <2>5. Ready(c)' /\ TargetInv(c)'
    BY <2>1, <2>4 DEF At, TargetInv, Holds, Ready
  <2>6. QED  BY <1>1, <2>3, <2>5, StillUnder
<1>5. CASE Done(c, "permission")
  BY <1>1, <1>5, DoneMove
<1>6. QED  BY <1>3, <1>4, <1>5

LEMMA TotalNat == ASSUME NEW s \in Seq(Nat)  PROVE Total(s) \in Nat
<1>1. PICK t : SumsTo(s, Len(s), t) /\ Total(s) = t[Len(s)]
  BY TotalIs
<1>2. Len(s) \in Nat /\ Len(s) <= Len(s) /\ Len(s) \in 0 .. Len(s)
  OBVIOUS
<1>3. \A i \in 0 .. Len(s) : t[i] \in Nat
  BY <1>1, <1>2, SumFacts
<1>4. QED  BY <1>1, <1>2, <1>3

\* Under the quota everything is a number.
LEMMA UnderFacts ==
    ASSUME IInv, QuotaInv, program = 0
    PROVE  /\ Flat(fs) /\ TreeIn(fs) \in Nat /\ Total(spills) \in Nat /\ SessionQuota \in Nat
           /\ Usage = TreeIn(fs) + Total(spills) /\ Usage \in Nat /\ Usage <= SessionQuota
<1>1. Flat(fs) /\ TreeIn(fs) + Total(spills) <= SessionQuota
  BY DEF QuotaInv, UnderInv
<1>2. TreeIn(fs) \in Nat
  BY <1>1, BytesNat
<1>3. Total(spills) \in Nat
  BY TotalNat DEF IInv, SpillInv
<1>4. SessionQuota \in Nat
  BY SessionDiskAssumption
<1>5. QED  BY <1>1, <1>2, <1>3, <1>4, UsageNow

\* The entry at the target of a write is a file or empty, or lets nothing be
\* opened.
LEMMA EntrySize ==
    ASSUME IInv, QuotaInv, program = 0, NEW target \in Seq(Names), target # <<>>
    PROVE  /\ EntryIn(fs, target).size \in Nat
           /\ WalkIn(fs, Root, Front(target)) \in WorkspaceIn(fs) \cup {"none"}
           /\ Last(target) \in Names /\ Head(target) \in Names
<1>1. Front(target) \in Seq(Names) /\ Last(target) \in Names /\ Head(target) \in Names
  BY DEF Front, Last
<1>2. Flat(fs)
  BY UnderFacts
<1>3. WalkIn(fs, Root, Front(target)) \in WorkspaceIn(fs) \cup {"none"}
  BY <1>1, <1>2, WalkInside
<1> DEFINE dir == WalkIn(fs, Root, Front(target))
<1>4. dir \in Dirs \cup {"none"}
  BY <1>2, <1>3, FlatFacts
<1>5. EntryIn(fs, target) = IF dir = "none" THEN NoEntry ELSE fs[dir][Last(target)]
  BY DEF EntryIn
<1> HIDE DEF dir
<1>6. EntryIn(fs, target) \in Entries
  BY <1>1, <1>2, <1>4, <1>5, EntryTypes DEF Flat
<1>7. EntryIn(fs, target).size \in Nat
  BY <1>6 DEF Entries
<1>8. QED  BY <1>1, <1>3, <1>7

LEMMA WriteCheckedUnder ==
    ASSUME IInv, QuotaInv, NEW c \in Calls, WriteChecked(c)
    PROVE  QuotaInv'
<1> DEFINE target == call[c].target
<1> DEFINE old == EntryIn(fs, target)
<1> DEFINE size == call[c].req.size
<1>1. /\ call[c].req.op = "write" /\ call[c].pc = "check" /\ lock = Free
      /\ UNCHANGED <<fs, spills, program>>
  BY DEF WriteChecked, At
<1>2. size \in Nat /\ target \in Seq(Names) /\ target # <<>>
  BY <1>1, Asked, RequestFacts DEF QuotaInv, TargetInv, At
<1>3. \/ /\ WriteGuard(size, old.size, old.kind = "none")
         /\ lock' = c /\ Update(c, [pc |-> "open"])
      \/ UNCHANGED lock /\ Done(c, "exhausted")
  BY WalkNow DEF WriteChecked, EntryIn, Take
<1>4. CASE UNCHANGED lock /\ Done(c, "exhausted")
  BY <1>1, <1>4, DoneMove
<1>5. CASE /\ WriteGuard(size, old.size, old.kind = "none")
           /\ lock' = c /\ Update(c, [pc |-> "open"])
  <2> DEFINE new == [pc |-> "open"]
  <2>1. DOMAIN new = {"pc"} /\ new.pc = "open" /\ Update(c, new)
    BY <1>5
  <2> HIDE DEF new
  <2>2. /\ \A d \in Calls \ {c} : call'[d] = call[d]
        /\ \A f \in Fields : call'[c][f] = IF f \in DOMAIN new THEN new[f] ELSE call[c][f]
    BY <2>1, UpdateFacts DEF IInv
  <2>3. call'[c].pc = "open" /\ call'[c].target = target /\ call'[c].req = call[c].req
    BY <2>1, <2>2 DEF Fields
  <2>4. TargetInv(c)'
    BY <1>2, <1>5, <2>3 DEF TargetInv, Holds
  <2>7. program = 0 => Allowed(c)'
    <3>1. SUFFICES ASSUME program = 0  PROVE Allowed(c)'
      OBVIOUS
    <3>2. old.size \in Nat
      BY <1>2, <3>1, EntrySize
    <3>3. size <= old.size \/ ~(Usage + (size - old.size) > SessionQuota)
      BY <1>5 DEF WriteGuard, DiskQuotaRefusal
    <3> HIDE DEF old, size
    <3>4. size <= old.size \/ (TreeIn(fs) + Total(spills)) + (size - old.size) <= SessionQuota
      BY <1>2, <3>1, <3>2, <3>3, UnderFacts
    <3>5. QED  BY <1>1, <2>3, <3>4 DEF Allowed, old, size
  <2>8. program = 0 => Ready(c)'
    BY <2>3, <2>7 DEF Ready
  <2>9. QED  BY <1>1, <2>2, <2>4, <2>8, StillUnder
<1>6. QED  BY <1>3, <1>4, <1>5

\* A step of call c, which holds the lock or finds it free, when files or
\* spills change: no other write is about to open.
LEMMA AloneUnder ==
    ASSUME IInv, QuotaInv, NEW c \in Calls, lock = c \/ lock = Free,
           \A d \in Calls \ {c} : call'[d] = call[d],
           call'[c].pc \notin {"check", "open", "spill"},
           call'[c].pc \in {"prune", "sweep"} => lock' = c,
           program' = program, Sized', Flat(fs) /\ program = 0 => Flat(fs'),
           program = 0 => TreeIn(fs') + Total(spills') <= SessionQuota
    PROVE  QuotaInv'
<1>1. \A d \in Calls \ {c} : ~Holds(d)
  BY SessionDiskAssumption DEF QuotaInv, TargetInv
<1>2. \A d \in Calls \ {c} : ~Holds(d)'
  BY <1>1 DEF At, Holds
<1>3. \A d \in Calls : TargetInv(d)'
  <2>1. ASSUME NEW d \in Calls, d # c  PROVE TargetInv(d)'
    BY <1>2, <2>1 DEF QuotaInv, TargetInv, At
  <2>2. TargetInv(c)'
    BY DEF TargetInv, At, Holds
  <2>3. QED  BY <2>1, <2>2
<1>4. UnderInv'
  <2>1. \A d \in Calls \ {c} : Ready(d)'
    BY <1>2 DEF Holds, Ready
  <2>2. Ready(c)'
    BY DEF Ready, At
  <2>3. QED  BY <2>1, <2>2 DEF QuotaInv, UnderInv
<1>5. QED  BY <1>3, <1>4 DEF QuotaInv

LEMMA DoneFacts ==
    ASSUME IInv, NEW c \in Calls, NEW answer, Done(c, answer)
    PROVE  (\A d \in Calls \ {c} : call'[d] = call[d]) /\ call'[c].pc = "done"
<1> DEFINE new == [pc |-> "done", answer |-> answer]
<1>1. Update(c, new) /\ "pc" \in DOMAIN new /\ new.pc = "done"
  BY DEF Done
<1> HIDE DEF new
<1>2. QED  BY <1>1, UpdateFacts DEF IInv, Fields

LEMMA SizedSet ==
    ASSUME IInv, QuotaInv, NEW d, NEW n, NEW e, e.kind = "file" \/ e.size = 0,
           fs' = [fs EXCEPT ![d][n] = e]
    PROVE  Sized'
<1>1. fs \in [Dirs -> [Names -> Entries]] /\ Sized
  BY DEF IInv, FsInv, QuotaInv
<1>2. QED  BY <1>1 DEF Sized

LEMMA WriteOpensUnder ==
    ASSUME IInv, QuotaInv, NEW c \in Calls, WriteOpens(c)
    PROVE  QuotaInv'
<1> DEFINE target == call[c].target
<1> DEFINE dir == WalkIn(fs, Root, Front(target))
<1> DEFINE size == call[c].req.size
<1> DEFINE last == Last(target)
<1> DEFINE old == EntryIn(fs, target).size
<1>1. /\ At(c, "write", "open") /\ call[c].req.op = "write"
      /\ spills' = spills /\ program' = program
  BY DEF WriteOpens, At
<1>2. size \in Nat /\ target \in Seq(Names) /\ target # <<>> /\ lock = c
  BY <1>1, Asked, RequestFacts DEF QuotaInv, TargetInv, Holds
<1>3. \/ dir # "none" /\ fs' \in Opened(dir, last, size)
      \/ /\ dir = "none" /\ fs[Root][Head(target)].kind = "none"
         /\ fs' \in MadeAndOpened(Head(target), last, size)
      \/ fs' = fs
  BY WalkNow DEF WriteOpens
<1>4. (\A d \in Calls \ {c} : call'[d] = call[d]) /\ call'[c].pc = "done"
  <2>1. Done(c, "ok") \/ Done(c, "raised")
    BY DEF WriteOpens
  <2>2. QED  BY <2>1, DoneFacts
<1>5. dir = "none" => old = 0
  BY DEF EntryIn, NoEntry
<1>6. dir # "none" => old = fs[dir][last].size
  BY DEF EntryIn
<1>7. program = 0 => size <= old \/ (TreeIn(fs) + Total(spills)) + (size - old) <= SessionQuota
  BY <1>1 DEF QuotaInv, UnderInv, Ready, Allowed
<1>8. program = 0 => old \in Nat /\ dir \in WorkspaceIn(fs) \cup {"none"}
                     /\ last \in Names /\ Head(target) \in Names
  BY <1>2, EntrySize
<1>9. File(size) \in Entries /\ File(size).kind = "file" /\ File(size).size = size
  BY <1>2, EntryTypes DEF File
<1> HIDE DEF target, dir, size, last, old
<1>10. CASE fs' = fs
  <2>1. Sized'
    BY <1>10 DEF QuotaInv, Sized
  <2>2. program = 0 => TreeIn(fs') + Total(spills') <= SessionQuota
    BY <1>1, <1>10 DEF QuotaInv, UnderInv
  <2>3. QED  BY <1>1, <1>2, <1>4, <1>10, <2>1, <2>2, AloneUnder
<1>11. CASE dir # "none" /\ fs' \in Opened(dir, last, size)
  <2>1. fs[dir][last].kind \in {"none", "file"} /\ fs' = [fs EXCEPT ![dir][last] = File(size)]
    BY <1>11 DEF Opened
  <2>2. Sized'
    BY <1>9, <2>1, SizedSet
  <2>3. ASSUME program = 0
        PROVE  Flat(fs') /\ TreeIn(fs') + Total(spills') <= SessionQuota
    <3>1. dir \in WorkspaceIn(fs) /\ dir \in Dirs /\ last \in Names /\ Flat(fs) /\ old \in Nat
      BY <1>8, <1>11, <2>3, UnderFacts, FlatFacts
    <3>2. /\ Flat(fs') /\ WorkspaceIn(fs') = WorkspaceIn(fs)
          /\ TreeIn(fs') = (TreeIn(fs) - BytesIn(fs, dir, last)) + BytesIn(fs', dir, last)
      <4> DEFINE e == File(size)
      <4>1. e \in Entries /\ e.kind \in {"none", "file"} /\ fs' = SetIn(fs, dir, last, e)
        BY <1>9, <2>1 DEF SetIn
      <4>2. fs[dir][last].kind \in {"none", "file"}
        BY <2>1
      <4> HIDE DEF e
      <4>3. /\ Flat(fs') /\ WorkspaceIn(fs') = WorkspaceIn(fs)
            /\ dir \in WorkspaceIn(fs)
                => TreeIn(fs') = (TreeIn(fs) - BytesIn(fs, dir, last)) + BytesIn(fs', dir, last)
        BY <3>1, <4>1, <4>2, TreeSet
      <4>4. QED  BY <3>1, <4>3
    <3>3. BytesIn(fs, dir, last) = old
      BY <1>6, <1>11, <2>1, <3>1 DEF BytesIn, QuotaInv, Sized
    <3>4. fs'[dir][last] = File(size)
      BY <2>1, <3>1 DEF Flat
    <3>5. BytesIn(fs', dir, last) = size
      BY <1>9, <3>1, <3>2, <3>4 DEF BytesIn
    <3>6. QED  BY <1>1, <1>2, <1>7, <2>3, <3>1, <3>2, <3>3, <3>5, UnderFacts
  <2>4. QED  BY <1>1, <1>2, <1>4, <2>2, <2>3, AloneUnder
<1>12. CASE /\ dir = "none" /\ fs[Root][Head(target)].kind = "none"
            /\ fs' \in MadeAndOpened(Head(target), last, size)
  <2> DEFINE n == Head(target)
  <2> DEFINE listing == [m \in Names |-> IF m = last THEN File(size) ELSE NoEntry]
  <2>1. PICK s \in Unused : fs' = [fs EXCEPT ![Root][n] = Dir(s), ![s] = listing]
    BY <1>12 DEF MadeAndOpened
  <2>2. s \in SubDirs /\ \A m \in Names : fs[Root][m].to # s
    BY DEF Unused
  <2>3. Sized'
    <3>1. fs \in [Dirs -> [Names -> Entries]] /\ Sized
      BY DEF IInv, FsInv, QuotaInv
    <3>2. \A m \in Names : listing[m].kind # "file" => listing[m].size = 0
      BY <1>9 DEF NoEntry
    <3>3. Dir(s).size = 0
      BY DEF Dir
    <3> HIDE DEF listing, n
    <3>4. QED  BY <2>1, <3>1, <3>2, <3>3 DEF Sized
  <2>4. ASSUME program = 0
        PROVE  Flat(fs') /\ TreeIn(fs') + Total(spills') <= SessionQuota
    <3>1. Flat(fs) /\ n \in Names
      BY <1>8, <2>4, UnderFacts
    <3>2. Flat(fs') /\ TreeIn(fs') <= TreeIn(fs) + size
      <4>1. fs[Root][n].kind = "none"
        BY <1>12
      <4>2. fs' = MadeIn(fs, n, s, last, size)
        BY <2>1 DEF MadeIn
      <4> HIDE DEF n
      <4>3. QED  BY <1>2, <2>2, <3>1, <4>1, <4>2, TreeMade
    <3>3. TreeIn(fs') \in Nat
      BY <3>2, BytesNat
    <3>4. QED  BY <1>1, <1>2, <1>5, <1>7, <1>12, <2>4, <3>2, <3>3, UnderFacts
  <2>5. QED  BY <1>1, <1>2, <1>4, <2>3, <2>4, AloneUnder
<1>13. QED  BY <1>3, <1>10, <1>11, <1>12

LEMMA DeleteWalksUnder ==
    ASSUME IInv, QuotaInv, NEW c \in Calls, DeleteWalks(c)
    PROVE  QuotaInv'
<1>1. UNCHANGED <<fs, spills, program>> /\ lock = Free
  BY DEF DeleteWalks
<1>2. \/ \E answer : Done(c, answer)
      \/ \E dir : Update(c, [pc |-> "unlink", dir |-> dir])
  BY Zenon DEF DeleteWalks
<1>3. ASSUME NEW dir, Update(c, [pc |-> "unlink", dir |-> dir])  PROVE QuotaInv'
  <2> DEFINE new == [pc |-> "unlink", dir |-> dir]
  <2>1. Update(c, new) /\ "pc" \in DOMAIN new /\ new.pc = "unlink"
    BY <1>3
  <2> HIDE DEF new
  <2>2. QED  BY <1>1, <2>1, OtherMove
<1>4. QED  BY <1>1, <1>2, <1>3, DoneMove

LEMMA DeleteUnlinksUnder ==
    ASSUME IInv, QuotaInv, NEW c \in Calls, DeleteUnlinks(c)
    PROVE  QuotaInv'
<1> DEFINE dir == call[c].dir
<1> DEFINE name == Last(call[c].req.path)
<1>1. /\ lock = c /\ spills' = spills /\ program' = program
      /\ \/ fs' = fs
         \/ /\ fs[dir][name].kind \in {"file", "link"}
            /\ fs' = [fs EXCEPT ![dir][name] = NoEntry]
      /\ Done(c, "ok") \/ Done(c, "no_file")
  BY DEF DeleteUnlinks, Pinned, Release
<1>2. (\A d \in Calls \ {c} : call'[d] = call[d]) /\ call'[c].pc = "done"
  BY <1>1, DoneFacts
<1> HIDE DEF dir, name
<1>3. CASE fs' = fs
  <2>1. Sized' /\ (program = 0 => TreeIn(fs') + Total(spills') <= SessionQuota)
    BY <1>1, <1>3 DEF QuotaInv, Sized, UnderInv
  <2>2. QED  BY <1>1, <1>2, <1>3, <2>1, AloneUnder
<1>4. CASE /\ fs[dir][name].kind \in {"file", "link"}
           /\ fs' = [fs EXCEPT ![dir][name] = NoEntry]
  <2>1. NoEntry \in Entries /\ NoEntry.kind = "none" /\ NoEntry.size = 0
    BY EntryTypes DEF NoEntry
  <2>2. Sized'
    BY <1>4, <2>1, SizedSet
  <2>3. ASSUME program = 0
        PROVE  Flat(fs') /\ TreeIn(fs') + Total(spills') <= SessionQuota
    <3>1. Flat(fs) /\ TreeIn(fs) \in Nat /\ Total(spills) \in Nat /\ SessionQuota \in Nat
          /\ TreeIn(fs) + Total(spills) <= SessionQuota
      BY <2>3, UnderFacts
    <3>2. CASE ~(dir \in Dirs /\ name \in Names)
      <4>1. fs' = fs
        BY <1>4, <3>1, <3>2 DEF Flat
      <4>2. QED  BY <1>1, <3>1, <4>1
    <3>3. CASE dir \in Dirs /\ name \in Names
      <4>1. fs[dir][name].kind \in {"none", "file"}
        BY <1>4, <3>1, <3>3 DEF Flat
      <4> DEFINE e == NoEntry
      <4>2. e \in Entries /\ e.kind \in {"none", "file"} /\ fs' = SetIn(fs, dir, name, e)
        BY <1>4, <2>1 DEF SetIn
      <4>3. BytesIn(fs', dir, name) = 0
        <5>1. fs'[dir][name] = NoEntry
          BY <1>4, <3>1, <3>3 DEF Flat
        <5>2. QED  BY <2>1, <5>1 DEF BytesIn
      <4> HIDE DEF e
      <4>4. /\ Flat(fs')
            /\ dir \in WorkspaceIn(fs)
                => TreeIn(fs') = (TreeIn(fs) - BytesIn(fs, dir, name)) + BytesIn(fs', dir, name)
            /\ dir \notin WorkspaceIn(fs) => TreeIn(fs') = TreeIn(fs)
        BY <3>1, <3>3, <4>1, <4>2, TreeSet
      <4>5. dir \in WorkspaceIn(fs) => BytesIn(fs, dir, name) \in Nat
        BY <3>1, <3>3, FlatFacts, BytesNat
      <4>6. QED  BY <1>1, <3>1, <4>3, <4>4, <4>5
    <3>4. QED  BY <3>2, <3>3
  <2>4. QED  BY <1>1, <1>2, <2>2, <2>3, AloneUnder
<1>5. QED  BY <1>1, <1>3, <1>4

LEMMA ReadUnder ==
    ASSUME IInv, QuotaInv, NEW c \in Calls, ReadResolves(c) \/ ReadOpens(c)
    PROVE  QuotaInv'
<1>1. UNCHANGED <<fs, spills, program, lock>> /\ call[c].req.op # "write"
  BY DEF ReadResolves, ReadOpens, At
<1> DEFINE target == Tail(Resolved(call[c].req.path))
<1> DEFINE new == [pc |-> "open", target |-> target]
<1>2. Update(c, new) \/ \E answer : Done(c, answer)
  BY DEF ReadResolves, ReadOpens
<1> HIDE DEF target
<1>3. "pc" \in DOMAIN new /\ "req" \notin DOMAIN new /\ new.pc = "open"
  OBVIOUS
<1> HIDE DEF new
<1>4. QED  BY <1>1, <1>2, <1>3, OtherMove, DoneMove

LEMMA RunUnder ==
    ASSUME IInv, QuotaInv, NEW c \in Calls, RunBegins(c) \/ RunFileBegins(c) \/ RunEnds(c)
    PROVE  QuotaInv'
<1>1. UNCHANGED <<fs, spills, program, lock>>
  BY DEF RunBegins, RunFileBegins, RunEnds
<1>2. Update(c, [pc |-> "running"]) \/ \E answer : Done(c, answer)
  <2>1. CASE RunBegins(c)  BY <2>1 DEF RunBegins
  <2>2. CASE RunFileBegins(c)  BY <2>2 DEF RunFileBegins
  <2>3. CASE RunEnds(c)  BY <2>3 DEF RunEnds
  <2>4. QED  BY <2>1, <2>2, <2>3
<1>3. QED  BY <1>1, <1>2, PlaceMove, DoneMove

LEMMA SnapshotUnder ==
    ASSUME IInv, QuotaInv, NEW c \in Calls,
           \/ SaveScans(c) \/ SaveArchives(c) \/ SnapshotRemoved(c)
           \/ RestorePlans(c) \/ RestoreExtracts(c)
    PROVE  QuotaInv'
<1>1. UNCHANGED <<fs, spills, program, lock>>
  BY DEF SaveScans, SaveArchives, SnapshotRemoved, RestorePlans, RestoreExtracts
<1>2. ASSUME NEW found, Update(c, [pc |-> "archive", found |-> found])  PROVE QuotaInv'
  <2> DEFINE new == [pc |-> "archive", found |-> found]
  <2>1. Update(c, new) /\ "pc" \in DOMAIN new /\ new.pc = "archive"
    BY <1>2
  <2> HIDE DEF new
  <2>2. QED  BY <1>1, <2>1, OtherMove
<1>3. ASSUME NEW plan, Update(c, [pc |-> "extract", plan |-> plan])  PROVE QuotaInv'
  <2> DEFINE new == [pc |-> "extract", plan |-> plan]
  <2>1. Update(c, new) /\ "pc" \in DOMAIN new /\ new.pc = "extract"
    BY <1>3
  <2> HIDE DEF new
  <2>2. QED  BY <1>1, <2>1, OtherMove
<1>4. \/ \E found : Update(c, [pc |-> "archive", found |-> found])
      \/ \E plan : Update(c, [pc |-> "extract", plan |-> plan])
      \/ \E answer : Done(c, answer)
  <2>1. CASE SaveScans(c)  BY <2>1, Zenon DEF SaveScans
  <2>2. CASE SaveArchives(c) \/ SnapshotRemoved(c) \/ RestoreExtracts(c)
    BY <2>2 DEF SaveArchives, SnapshotRemoved, RestoreExtracts
  <2>3. CASE RestorePlans(c)  BY <2>3, Zenon DEF RestorePlans
  <2>4. QED  BY <2>1, <2>2, <2>3
<1>5. QED  BY <1>1, <1>2, <1>3, <1>4, DoneMove

\* The check under the lock: the output to spill fits.
LEMMA SpillIfTruncatedUnder ==
    ASSUME IInv, QuotaInv, NEW c \in Calls, SpillIfTruncated(c)
    PROVE  QuotaInv'
<1> DEFINE bytes == Captured(call[c].req.out)
<1>1. call[c].pc = "running" /\ UNCHANGED <<fs, spills, program>>
  BY DEF SpillIfTruncated
<1>2. bytes \in Nat
  BY <1>1, CapturedIsNat
<1> DEFINE new == [pc |-> "spill", dir |-> spillDir]
<1>3. \/ Update(c, [pc |-> "post"]) /\ lock' = lock
      \/ Done(c, "raised") /\ lock' = lock
      \/ WriteGuard(bytes, 0, TRUE) /\ Update(c, new) /\ lock = Free /\ lock' = c
  BY DEF SpillIfTruncated, Take
<1>4. CASE Update(c, [pc |-> "post"]) /\ lock' = lock
  BY <1>1, <1>4, PlaceMove
<1>5. CASE Done(c, "raised") /\ lock' = lock
  BY <1>1, <1>5, DoneMove
<1>6. CASE WriteGuard(bytes, 0, TRUE) /\ Update(c, new) /\ lock = Free /\ lock' = c
  <2>1. DOMAIN new = {"pc", "dir"} /\ new.pc = "spill"
    OBVIOUS
  <2> HIDE DEF new
  <2>2. /\ \A d \in Calls \ {c} : call'[d] = call[d]
        /\ \A f \in Fields : call'[c][f] = IF f \in DOMAIN new THEN new[f] ELSE call[c][f]
    BY <1>6, UpdateFacts DEF IInv
  <2>3. call'[c].pc = "spill" /\ call'[c].req = call[c].req
    BY <2>1, <2>2 DEF Fields
  <2>4. TargetInv(c)'
    BY <1>6, <2>3 DEF TargetInv, At
  <2>5. bytes <= 0 \/ ~(Usage + (bytes - 0) > SessionQuota)
    BY <1>6 DEF WriteGuard, DiskQuotaRefusal
  <2> HIDE DEF bytes
  <2>6. program = 0 => (TreeIn(fs) + Total(spills)) + bytes <= SessionQuota
    BY <1>2, <2>5, UnderFacts
  <2>7. program = 0 => Ready(c)'
    BY <1>1, <2>3, <2>6 DEF Ready, At, bytes
  <2>8. QED  BY <1>1, <1>6, <2>2, <2>4, <2>7, StillUnder
<1>7. QED  BY <1>3, <1>4, <1>5, <1>6

\* What was measured under the lock is written under it.
LEMMA WriteSpillUnder ==
    ASSUME IInv, QuotaInv, NEW c \in Calls, WriteSpill(c)
    PROVE  QuotaInv'
<1> DEFINE bytes == Captured(call[c].req.out)
<1>1. /\ call[c].pc = "spill" /\ UNCHANGED <<fs, program>>
      /\ \/ Update(c, [pc |-> "prune"]) /\ lock' = lock
         \/ Done(c, "raised")
      /\ spills' = spills \/ spills' = <<bytes>> \o spills
  BY DEF WriteSpill
<1>2. lock = c
  BY <1>1 DEF QuotaInv, TargetInv, Holds
<1>3. bytes \in Nat /\ spills \in Seq(Nat)
  BY <1>1, CapturedIsNat DEF IInv, SpillInv
<1>4. program = 0 => (TreeIn(fs) + Total(spills)) + bytes <= SessionQuota
  BY <1>1 DEF QuotaInv, UnderInv, Ready
<1>5. /\ \A d \in Calls \ {c} : call'[d] = call[d]
      /\ call'[c].pc = "done" \/ (call'[c].pc = "prune" /\ lock' = c)
  <2> DEFINE new == [pc |-> "prune"]
  <2>1. Done(c, "raised") \/ (Update(c, new) /\ lock' = c)
    BY <1>1, <1>2
  <2>2. DOMAIN new = {"pc"} /\ new.pc = "prune"
    OBVIOUS
  <2> HIDE DEF new
  <2>3. QED  BY <2>1, <2>2, DoneFacts, UpdateFacts DEF IInv, Fields
<1> HIDE DEF bytes
<1>6. program = 0 => TreeIn(fs') + Total(spills') <= SessionQuota
  <2>1. Total(<<bytes>> \o spills) = bytes + Total(spills)
    BY <1>3, SumOfFront
  <2>2. ASSUME program = 0
        PROVE  TreeIn(fs) \in Nat /\ Total(spills) \in Nat /\ SessionQuota \in Nat
    BY <2>2, UnderFacts
  <2>3. ASSUME program = 0, spills' = spills
        PROVE  TreeIn(fs) + Total(spills') <= SessionQuota
    BY <1>3, <1>4, <2>2, <2>3
  <2>4. ASSUME program = 0, spills' = <<bytes>> \o spills
        PROVE  TreeIn(fs) + Total(spills') <= SessionQuota
    BY <1>3, <1>4, <2>1, <2>2, <2>4
  <2>5. QED  BY <1>1, <2>3, <2>4
<1>7. Sized' /\ program' = program /\ (Flat(fs) => Flat(fs'))
  BY <1>1 DEF QuotaInv, Sized
<1>8. QED  BY <1>2, <1>5, <1>6, <1>7, AloneUnder

LEMMA PruneResolvesUnder ==
    ASSUME IInv, QuotaInv, NEW c \in Calls, PruneResolves(c)
    PROVE  QuotaInv'
<1> DEFINE new == [pc |-> "sweep", dir |-> spillDir]
<1>1. /\ call[c].pc = "prune" /\ UNCHANGED <<fs, spills, program>>
      /\ Done(c, "raised") \/ (Update(c, new) /\ lock' = lock)
  BY DEF PruneResolves
<1>2. lock = c
  BY <1>1 DEF QuotaInv, TargetInv, Holds
<1>3. DOMAIN new = {"pc", "dir"} /\ new.pc = "sweep"
  OBVIOUS
<1> HIDE DEF new
<1>4. /\ \A d \in Calls \ {c} : call'[d] = call[d]
      /\ call'[c].pc = "done" \/ (call'[c].pc = "sweep" /\ lock' = c)
  BY <1>1, <1>2, <1>3, DoneFacts, UpdateFacts DEF IInv, Fields
<1>5. /\ Sized' /\ program' = program /\ (Flat(fs) => Flat(fs'))
      /\ program = 0 => TreeIn(fs') + Total(spills') <= SessionQuota
  BY <1>1 DEF QuotaInv, Sized, UnderInv
<1>6. QED  BY <1>2, <1>4, <1>5, AloneUnder

\* What is pruned is no more than what was there.
LEMMA TotalPruned ==
    ASSUME NEW s \in Seq(Nat)
    PROVE  Total(Pruned(s)) <= Total(s) /\ Total(Pruned(s)) \in Nat
<1>1. Pruned(s) \in Seq(Nat)
  BY PrunedFacts
<1>2. PICK n \in 0 .. Len(s) : Pruned(s) = SubSeq(s, 1, n)
  BY PrunedFacts
<1>3. Len(SubSeq(s, 1, n)) = n /\ \A i \in 1 .. n : SubSeq(s, 1, n)[i] = s[i]
  OBVIOUS
<1> DEFINE r == Pruned(s)
<1>4. r \in Seq(Nat) /\ Len(r) <= Len(s) /\ \A i \in 1 .. Len(r) : r[i] = s[i]
  BY <1>1, <1>2, <1>3
<1> HIDE DEF r
<1>5. Total(r) <= Total(s) /\ Total(r) \in Nat
  BY <1>4, SumOfPrefix, TotalNat
<1>6. QED  BY <1>5 DEF r

LEMMA PruneSpillUnder ==
    ASSUME IInv, QuotaInv, NEW c \in Calls, PruneSpill(c)
    PROVE  QuotaInv'
<1> DEFINE new == [pc |-> "post"]
<1>1. /\ lock = c /\ UNCHANGED <<fs, program>> /\ Update(c, new)
      /\ spills' = spills \/ spills' = Pruned(spills)
  BY DEF PruneSpill, Release
<1>2. DOMAIN new = {"pc"} /\ new.pc = "post"
  OBVIOUS
<1> HIDE DEF new
<1>3. (\A d \in Calls \ {c} : call'[d] = call[d]) /\ call'[c].pc = "post"
  BY <1>1, <1>2, UpdateFacts DEF IInv, Fields
<1>4. spills \in Seq(Nat)
  BY DEF IInv, SpillInv
<1>5. Total(Pruned(spills)) <= Total(spills) /\ Total(Pruned(spills)) \in Nat
  BY <1>4, TotalPruned
<1>6. program = 0 => TreeIn(fs') + Total(spills') <= SessionQuota
  BY <1>1, <1>5, UnderFacts
<1>7. Sized' /\ program' = program /\ (Flat(fs) => Flat(fs'))
  BY <1>1 DEF QuotaInv, Sized
<1>8. QED  BY <1>1, <1>3, <1>6, <1>7, AloneUnder

LEMMA ProgramUnder == ASSUME IInv, QuotaInv, Program  PROVE QuotaInv'
<1>1. UNCHANGED <<lock, call>> /\ program' = program + 1
  BY DEF Program
<1>2. Sized'
  <2>1. CASE ReplacesSpills
    BY <2>1 DEF ReplacesSpills, QuotaInv, Sized
  <2>2. CASE ReplacesEntry
    <3>1. PICK dir \in InWorkspace, name \in Names \ {"lock"} :
              \E e \in {NoEntry} \cup {File(n) : n \in Sizes} \cup {Link(to) : to \in LinkTargets}
                       \cup (IF dir = Root /\ name = "d" THEN {Dir(s) : s \in Unused} ELSE {}) :
                  /\ fs[dir][name] # e
                  /\ fs' = [fs EXCEPT ![dir][name] = e]
      BY <2>2, Zenon DEF ReplacesEntry
    <3>2. PICK e \in {NoEntry} \cup {File(n) : n \in Sizes} \cup {Link(to) : to \in LinkTargets}
                     \cup {Dir(s) : s \in Unused} :
              fs' = [fs EXCEPT ![dir][name] = e]
      BY <3>1
    <3>3. e.kind = "file" \/ e.size = 0
      BY DEF NoEntry, File, Link, Dir
    <3>4. QED  BY <3>2, <3>3, SizedSet
  <2>3. QED  BY <2>1, <2>2 DEF Program
<1>3. program' \in Nat /\ program' # 0
  BY <1>1 DEF QuotaInv
<1>4. \A c \in Calls : TargetInv(c)'
  BY <1>1 DEF QuotaInv, TargetInv, At, Holds
<1>5. UnderInv'
  BY <1>3 DEF UnderInv
<1>6. QED  BY <1>2, <1>3, <1>4, <1>5 DEF QuotaInv

LEMMA IdleUnder ==
    ASSUME IInv, QuotaInv, UNCHANGED <<fs, spills, lock, call, program>>
    PROVE  QuotaInv'
BY DEF QuotaInv, Sized, TargetInv, UnderInv, Ready, Holds, Allowed, At

LEMMA NextUnder == ASSUME IInv, QuotaInv, [Next]_vars  PROVE QuotaInv'
<1>1. ASSUME NEW c \in Calls,
             \/ Arrive(c) \/ WriteResolves(c) \/ WriteChecked(c) \/ WriteOpens(c)
             \/ DeleteWalks(c) \/ DeleteUnlinks(c)
      PROVE  QuotaInv'
  BY <1>1, ArriveUnder, WriteResolvesUnder, WriteCheckedUnder, WriteOpensUnder, DeleteWalksUnder,
     DeleteUnlinksUnder
<1>2. ASSUME NEW c \in Calls,
             \/ ReadResolves(c) \/ ReadOpens(c)
             \/ RunBegins(c) \/ RunFileBegins(c) \/ RunEnds(c)
             \/ SaveScans(c) \/ SaveArchives(c) \/ SnapshotRemoved(c)
             \/ RestorePlans(c) \/ RestoreExtracts(c)
      PROVE  QuotaInv'
  BY <1>2, ReadUnder, RunUnder, SnapshotUnder
<1>3. ASSUME NEW c \in Calls,
             \/ SpillIfTruncated(c) \/ WriteSpill(c) \/ PruneResolves(c) \/ PruneSpill(c)
      PROVE  QuotaInv'
  BY <1>3, SpillIfTruncatedUnder, WriteSpillUnder, PruneResolvesUnder, PruneSpillUnder
<1>4. CASE Program
  BY <1>4, ProgramUnder
<1>5. CASE Tamper \/ Finished \/ UNCHANGED vars
  BY <1>5, IdleUnder DEF Tamper, Finished, vars
<1>6. QED  BY <1>1, <1>2, <1>3, <1>4, <1>5 DEF Next

LEMMA InitUnder == Init => QuotaInv
<1>1. SUFFICES ASSUME Init  PROVE QuotaInv
  OBVIOUS
<1>2. program = 0 /\ spills = <<>> /\ \A c \in Calls : call[c].pc = "idle"
  BY <1>1 DEF Init, Idle
<1>3. \A c \in Calls : TargetInv(c) /\ Ready(c)
  BY <1>2 DEF TargetInv, At, Holds, Ready
<1> DEFINE e(d, n) == CASE d = Root /\ n = "lock" -> File(0)
                        [] d = Root /\ n = "d" -> Dir("s1")
                        [] d = Outside /\ n = "f" -> File(1)
                        [] OTHER -> NoEntry
<1>4. \A d \in Dirs, n \in Names : fs[d][n] = e(d, n)
  BY <1>1 DEF Init
<1>5. \A d \in Dirs, n \in Names : d # Outside =>
          e(d, n) \in {NoEntry, File(0)} \/ (d = Root /\ e(d, n) = Dir("s1"))
  OBVIOUS
<1>6. \A d \in Dirs, n \in Names : d = Outside => e(d, n) \in {NoEntry, File(1)}
  BY DEF Root, Outside
<1> HIDE DEF e
<1>7. /\ NoEntry.kind = "none" /\ NoEntry.size = 0
      /\ \A n \in Nat : File(n).kind = "file" /\ File(n).size = n
      /\ Dir("s1").kind = "dir" /\ Dir("s1").size = 0 /\ Dir("s1").to = "s1"
  BY DEF NoEntry, File, Dir
<1>8. Sized
  BY <1>4, <1>5, <1>6, <1>7 DEF Sized
<1>9. Flat(fs)
  <2>1. fs \in [Dirs -> [Names -> Entries]]
    BY <1>1, InitHolds DEF IInv, FsInv
  <2>2. QED  BY <1>4, <1>5, <1>6, <1>7, <2>1 DEF Flat, SubDirs
<1>10. TreeIn(fs) = 0
  <2>1. \A d \in {Root, "s1", "s2"}, n \in Names : BytesIn(fs, d, n) = 0
    <3>1. \A d \in {Root, "s1", "s2"} : d \in Dirs /\ d # Outside
      BY DEF Dirs, SubDirs, Root, Outside
    <3>2. \A d \in {Root, "s1", "s2"}, n \in Names : fs[d][n].size = 0
      BY <1>4, <1>5, <1>7, <3>1
    <3>3. QED  BY <3>2 DEF BytesIn
  <2>2. QED  BY <2>1 DEF TreeIn, DirIn, Names
<1>11. Total(spills) = 0
  <2>1. spills \in Seq(Nat) /\ Len(spills) = 0
    BY <1>2
  <2>2. PICK t : SumsTo(spills, Len(spills), t) /\ Total(spills) = t[Len(spills)]
    BY <2>1, TotalIs
  <2>3. QED  BY <2>1, <2>2, SumStep
<1>12. UnderInv
  BY <1>3, <1>9, <1>10, <1>11, SessionDiskAssumption DEF UnderInv
<1>13. QED  BY <1>2, <1>3, <1>8, <1>12 DEF QuotaInv

\* What write_file and spill_if_truncated write never takes the workspace over
\* the session's quota, however many calls write at once, as long as the
\* session's program itself writes nothing.
THEOREM WithinQuota == Spec => []QuotaKept
<1>1. IInv /\ QuotaInv => QuotaKept
  BY UnderFacts DEF QuotaKept
<1>2. IInv /\ QuotaInv /\ [Next]_vars => QuotaInv'
  BY NextUnder
<1>3. QED  BY <1>1, <1>2, InitUnder, Invariance, PTL DEF Spec

-----------------------------------------------------------------------------
(* The plan of an archive, member by member.                               *)

Plans(a, n, p) == p = [i \in 0 .. n |-> IF i = 0 THEN EmptyPlan ELSE PlanMember(p[i - 1], a[i])]

LEMMA PlanExists == ASSUME NEW a, NEW n \in Nat  PROVE \E p : Plans(a, n, p)
<1> DEFINE T == {k \in Nat : ~\E p : Plans(a, k, p)}
<1>1. SUFFICES ASSUME T # {}  PROVE FALSE
  OBVIOUS
<1>2. PICK k \in T : \A m \in T : k <= m
  BY <1>1, LeastNumber
<1>3. k # 0
  <2>1. Plans(a, 0, [i \in 0 .. 0 |-> EmptyPlan])
    BY DEF Plans
  <2>2. QED  BY <2>1
<1>4. PICK p : Plans(a, k - 1, p)
  BY <1>2, <1>3
<1> DEFINE q == [i \in 0 .. k |-> IF i = k THEN PlanMember(p[k - 1], a[k]) ELSE p[i]]
<1>5. Plans(a, k, q)
  BY <1>2, <1>3, <1>4 DEF Plans
<1>6. QED  BY <1>2, <1>5

LEMMA PlanStep ==
    ASSUME NEW a, NEW n \in Nat, NEW p, Plans(a, n, p)
    PROVE  p[0] = EmptyPlan /\ \A i \in 1 .. n : p[i] = PlanMember(p[i - 1], a[i])
<1>1. p[0] = EmptyPlan
  BY DEF Plans
<1>2. SUFFICES ASSUME NEW i \in 1 .. n  PROVE p[i] = PlanMember(p[i - 1], a[i])
  BY <1>1
<1>3. i \in 0 .. n /\ i # 0
  OBVIOUS
<1>4. QED  BY <1>3 DEF Plans

LEMMA PlanIs ==
    ASSUME NEW a, Len(a) \in Nat
    PROVE  \E p : Plans(a, Len(a), p) /\ PlanTarExtraction(a) = p[Len(a)]
<1>1. \E p : Plans(a, Len(a), p)
  BY PlanExists
<1>2. QED  BY <1>1 DEF Plans, PlanTarExtraction

PlanFields == {"ok", "known", "total", "members"}
IsPlan(x) == DOMAIN x = PlanFields /\ x.ok \in BOOLEAN

SizeOf(m) == IF m.kind = "dir" THEN 0 ELSE m.size
\* What a member must be to be added to plan x.
Fits(x, m) ==
    /\ x.ok /\ ~(Len(x.members) >= MaxArtifactCount) /\ ~Refused(m.path) /\ m.kind \in {"dir", "reg"}
    /\ ~(SizeOf(m) > MaxArtifactBytes) /\ ~(x.total + SizeOf(m) > ExtractionBudget)
    /\ ~Collides(x.known, m)

LEMMA PlanCases ==
    ASSUME NEW x, NEW m
    PROVE  PlanMember(x, m) = IF Fits(x, m)
                              THEN [ok |-> TRUE, known |-> x.known \cup Known(m),
                                    total |-> x.total + SizeOf(m), members |-> Append(x.members, m)]
                              ELSE [x EXCEPT !.ok = FALSE]
<1>1. CASE Fits(x, m)
  BY <1>1 DEF PlanMember, Fits, SizeOf
<1>2. CASE ~Fits(x, m)
  BY <1>2 DEF PlanMember, Fits, SizeOf
<1>3. QED  BY <1>1, <1>2

LEMMA PlanFacts ==
    ASSUME NEW x, IsPlan(x), NEW m
    PROVE  /\ IsPlan(PlanMember(x, m))
           /\ PlanMember(x, m).ok =>
                /\ Fits(x, m) /\ PlanMember(x, m).known = x.known \cup Known(m)
                /\ PlanMember(x, m).total = x.total + SizeOf(m)
                /\ PlanMember(x, m).members = Append(x.members, m)
<1> DEFINE y == PlanMember(x, m)
<1>1. CASE Fits(x, m)
  <2>1. y = [ok |-> TRUE, known |-> x.known \cup Known(m),
             total |-> x.total + SizeOf(m), members |-> Append(x.members, m)]
    BY <1>1, PlanCases
  <2> HIDE DEF y
  <2>2. QED  BY <1>1, <2>1 DEF IsPlan, PlanFields, y
<1>2. CASE ~Fits(x, m)
  <2>1. y = [x EXCEPT !.ok = FALSE]
    BY <1>2, PlanCases
  <2> HIDE DEF y
  <2>2. DOMAIN y = PlanFields /\ y.ok = FALSE
    BY <2>1 DEF IsPlan, PlanFields
  <2>3. QED  BY <2>2 DEF IsPlan, y
<1>3. QED  BY <1>1, <1>2

\* A plan that is complete lists the members of the archive.
LEMMA PlanLists ==
    ASSUME NEW a, NEW n \in Nat, NEW p, Plans(a, n, p)
    PROVE  \A i \in 0 .. n :
              /\ IsPlan(p[i])
              /\ p[i].ok => /\ p[i].members \in Seq({a[j] : j \in 1 .. n}) /\ Len(p[i].members) = i
                            /\ \A j \in 1 .. i : /\ p[i].members[j] = a[j]
                                                /\ a[j].kind \in {"dir", "reg"}
<1> DEFINE S == {a[j] : j \in 1 .. n}
<1> DEFINE Good(i) ==
        /\ IsPlan(p[i])
        /\ p[i].ok => /\ p[i].members \in Seq(S) /\ Len(p[i].members) = i
                      /\ \A j \in 1 .. i : /\ p[i].members[j] = a[j]
                                          /\ a[j].kind \in {"dir", "reg"}
<1> DEFINE T == {k \in Nat : k <= n /\ ~Good(k)}
<1>1. SUFFICES ASSUME T # {}  PROVE FALSE
  <2>1. SUFFICES ASSUME T = {}, NEW i \in 0 .. n  PROVE Good(i)
    OBVIOUS
  <2>2. i \in Nat /\ i <= n
    OBVIOUS
  <2> HIDE DEF Good
  <2>3. QED  BY <2>1, <2>2
<1>2. PICK k \in T : \A m \in T : k <= m
  BY <1>1, LeastNumber
<1>3. p[0] = EmptyPlan /\ \A i \in 1 .. n : p[i] = PlanMember(p[i - 1], a[i])
  BY PlanStep
<1>4. Good(0)
  <2>1. IsPlan(EmptyPlan) /\ EmptyPlan.members = <<>>
    BY DEF IsPlan, PlanFields, EmptyPlan
  <2>2. <<>> \in Seq(S) /\ Len(<<>>) = 0
    OBVIOUS
  <2> HIDE DEF S
  <2>3. QED  BY <1>3, <2>1, <2>2
<1>5. k # 0 /\ k <= n
  <2> HIDE DEF Good
  <2>1. QED  BY <1>2, <1>4
<1>6. k \in 1 .. n /\ k - 1 \in Nat /\ k - 1 <= n /\ ~(k <= k - 1)
  BY <1>5
<1>7. Good(k - 1)
  <2>1. k - 1 \notin T
    <3> HIDE DEF T
    <3>1. QED  BY <1>2, <1>6
  <2> HIDE DEF Good
  <2>2. QED  BY <1>6, <2>1
<1>8. p[k] = PlanMember(p[k - 1], a[k])
  BY <1>3, <1>6
<1>9. Good(k)
  <2> DEFINE x == p[k - 1]
  <2>1. /\ IsPlan(p[k])
        /\ p[k].ok => /\ x.ok /\ p[k].members = Append(x.members, a[k])
                      /\ a[k].kind \in {"dir", "reg"}
    <3>1. IsPlan(x) /\ p[k] = PlanMember(x, a[k])
      BY <1>7, <1>8
    <3> HIDE DEF x
    <3>2. /\ IsPlan(PlanMember(x, a[k]))
          /\ PlanMember(x, a[k]).ok => /\ Fits(x, a[k])
                                       /\ PlanMember(x, a[k]).members = Append(x.members, a[k])
      BY <3>1, PlanFacts
    <3>3. Fits(x, a[k]) => x.ok /\ a[k].kind \in {"dir", "reg"}
      BY DEF Fits
    <3>4. QED  BY <3>1, <3>2, <3>3
  <2>2. a[k] \in S
    BY <1>6
  <2>3. SUFFICES ASSUME p[k].ok
                 PROVE  /\ p[k].members \in Seq(S) /\ Len(p[k].members) = k
                        /\ \A j \in 1 .. k : /\ p[k].members[j] = a[j]
                                            /\ a[j].kind \in {"dir", "reg"}
    BY <2>1
  <2>4. /\ x.members \in Seq(S) /\ Len(x.members) = k - 1
        /\ \A j \in 1 .. k - 1 : x.members[j] = a[j] /\ a[j].kind \in {"dir", "reg"}
    BY <1>7, <2>1, <2>3
  <2>5. p[k].members = Append(x.members, a[k]) /\ a[k].kind \in {"dir", "reg"}
    BY <2>1, <2>3
  <2> HIDE DEF S, x
  <2>6. /\ p[k].members \in Seq(S) /\ Len(p[k].members) = k
        /\ \A j \in 1 .. k : p[k].members[j] = a[j]
    BY <1>6, <2>2, <2>4, <2>5
  <2>7. \A j \in 1 .. k : a[j].kind \in {"dir", "reg"}
    BY <1>6, <2>4, <2>5
  <2>8. QED  BY <2>6, <2>7
<1>10. QED
  <2> HIDE DEF Good
  <2>1. QED  BY <1>2, <1>9

\* Two archives whose members are the same to the plan are planned alike.
Alike(x, y) ==
    /\ y.ok /\ y.known = x.known /\ y.total = x.total /\ Len(y.members) = Len(x.members)

LEMMA SameFits ==
    ASSUME NEW x, NEW y, Alike(x, y), NEW m, NEW u, Fits(x, m), SameMember(u, m),
           u.kind \in {"dir", "reg"}
    PROVE  Fits(y, u) /\ Known(u) = Known(m) /\ SizeOf(u) = SizeOf(m)
<1>1. u.path = m.path /\ (u.kind = "dir") = (m.kind = "dir") /\ (u.kind # "dir" => u.size = m.size)
  BY DEF SameMember
<1>2. SizeOf(u) = SizeOf(m)
  BY <1>1 DEF SizeOf
<1>3. Known(u) = Known(m)
  BY <1>1 DEF Known
<1>4. Collides(y.known, u) = Collides(x.known, m)
  BY <1>1 DEF Alike, Collides
<1>5. Fits(y, u)
  BY <1>1, <1>2, <1>4 DEF Fits, Alike
<1>6. QED  BY <1>2, <1>3, <1>5

LEMMA SamePlan ==
    ASSUME NEW a, NEW b, NEW n \in Nat, NEW p, Plans(a, n, p), NEW q, Plans(b, n, q),
           \A i \in 1 .. n : SameMember(b[i], a[i]) /\ b[i].kind \in {"dir", "reg"},
           p[n].ok
    PROVE  q[n].ok
<1> DEFINE Good(i) == p[i].ok => Alike(p[i], q[i])
<1> DEFINE T == {k \in Nat : k <= n /\ ~Good(k)}
<1>1. SUFFICES ASSUME T # {}  PROVE FALSE
  <2>1. SUFFICES ASSUME T = {}  PROVE Good(n)
    BY DEF Alike
  <2>2. n <= n
    OBVIOUS
  <2> HIDE DEF Good
  <2>3. QED  BY <2>1, <2>2
<1>2. PICK k \in T : \A m \in T : k <= m
  BY <1>1, LeastNumber
<1>3. /\ p[0] = EmptyPlan /\ \A i \in 1 .. n : p[i] = PlanMember(p[i - 1], a[i])
      /\ q[0] = EmptyPlan /\ \A i \in 1 .. n : q[i] = PlanMember(q[i - 1], b[i])
  BY PlanStep
<1>4. Good(0)
  BY <1>3 DEF Alike, EmptyPlan
<1>5. k # 0 /\ k <= n
  <2> HIDE DEF Good
  <2>1. QED  BY <1>2, <1>4
<1>6. k \in 1 .. n /\ k - 1 \in Nat /\ k - 1 \in 0 .. n /\ k - 1 <= n /\ ~(k <= k - 1)
  BY <1>5
<1>7. Good(k - 1)
  <2>1. k - 1 \notin T
    <3> HIDE DEF T
    <3>1. QED  BY <1>2, <1>6
  <2> HIDE DEF Good
  <2>2. QED  BY <1>6, <2>1
<1>8. Good(k)
  <2> DEFINE x == p[k - 1]
  <2> DEFINE y == q[k - 1]
  <2> DEFINE m == a[k]
  <2> DEFINE u == b[k]
  <2> DEFINE S == {a[j] : j \in 1 .. n}
  <2> DEFINE R == {b[j] : j \in 1 .. n}
  <2>1. p[k] = PlanMember(x, m) /\ q[k] = PlanMember(y, u)
    BY <1>3, <1>6
  <2>2. SameMember(u, m) /\ u.kind \in {"dir", "reg"}
    BY <1>6
  <2>3. /\ IsPlan(x) /\ IsPlan(y)
        /\ x.ok => x.members \in Seq(S)
        /\ y.ok => y.members \in Seq(R)
    <3>1. \A i \in 0 .. n : IsPlan(p[i]) /\ (p[i].ok => p[i].members \in Seq(S))
      BY PlanLists
    <3>2. \A i \in 0 .. n : IsPlan(q[i]) /\ (q[i].ok => q[i].members \in Seq(R))
      BY PlanLists
    <3> HIDE DEF S, R
    <3>3. QED  BY <1>6, <3>1, <3>2
  <2>4. m \in S /\ u \in R
    BY <1>6
  <2>5. x.ok => Alike(x, y)
    BY <1>7
  <2>6. SUFFICES ASSUME p[k].ok  PROVE Alike(p[k], q[k])
    OBVIOUS
  <2> HIDE DEF x, y, m, u, S, R
  <2>7. /\ Fits(x, m) /\ PlanMember(x, m).known = x.known \cup Known(m)
        /\ PlanMember(x, m).total = x.total + SizeOf(m)
        /\ PlanMember(x, m).members = Append(x.members, m)
    BY <2>1, <2>3, <2>6, PlanFacts
  <2>8. x.ok /\ Alike(x, y)
    BY <2>5, <2>7 DEF Fits
  <2>9. Fits(y, u) /\ Known(u) = Known(m) /\ SizeOf(u) = SizeOf(m)
    BY <2>2, <2>7, <2>8, SameFits
  <2>10. q[k] = [ok |-> TRUE, known |-> y.known \cup Known(u),
                 total |-> y.total + SizeOf(u), members |-> Append(y.members, u)]
    BY <2>1, <2>9, PlanCases
  <2>11. Len(Append(x.members, m)) = Len(Append(y.members, u))
    <3>1. Len(x.members) = Len(y.members) /\ y.ok
      BY <2>8 DEF Alike
    <3>2. x.members \in Seq(S) /\ y.members \in Seq(R)
      BY <2>3, <2>8, <3>1
    <3>3. /\ Len(Append(x.members, m)) = Len(x.members) + 1
          /\ Len(Append(y.members, u)) = Len(y.members) + 1
      BY <2>4, <3>2
    <3>4. QED  BY <3>1, <3>3
  <2>12. QED  BY <2>1, <2>7, <2>8, <2>9, <2>10, <2>11 DEF Alike
<1>9. QED
  <2> HIDE DEF Good
  <2>1. QED  BY <1>2, <1>8

\* The members of a complete plan are an archive with a complete plan.
LEMMA PlanOfPlan ==
    ASSUME NEW a, Len(a) \in Nat, PlanTarExtraction(a).ok
    PROVE  LET b == PlanTarExtraction(a).members
           IN /\ Len(b) \in Nat /\ DOMAIN b = 1 .. Len(b)
              /\ PlanTarExtraction(b).ok
              /\ Len(b) = Len(a) /\ \A j \in 1 .. Len(b) : b[j] = a[j] /\ a[j].kind \in {"dir", "reg"}
<1> DEFINE n == Len(a)
<1> DEFINE b == PlanTarExtraction(a).members
<1> DEFINE S == {a[j] : j \in 1 .. n}
<1>1. PICK p : Plans(a, n, p) /\ PlanTarExtraction(a) = p[n]
  BY PlanIs
<1>2. /\ p[n].members \in Seq(S) /\ Len(p[n].members) = n
      /\ \A j \in 1 .. n : p[n].members[j] = a[j] /\ a[j].kind \in {"dir", "reg"}
  <2>1. n \in 0 .. n /\ p[n].ok
    BY <1>1
  <2>2. QED  BY <1>1, <2>1, PlanLists
<1>3. /\ b \in Seq(S) /\ Len(b) = n
      /\ \A j \in 1 .. n : b[j] = a[j] /\ a[j].kind \in {"dir", "reg"}
  BY <1>1, <1>2
<1> HIDE DEF n, b, S
<1>4. Len(b) \in Nat /\ DOMAIN b = 1 .. Len(b)
  BY <1>3
<1>5. PICK q : Plans(b, n, q) /\ PlanTarExtraction(b) = q[n]
  BY <1>3, <1>4, PlanIs
<1>6. \A i \in 1 .. n : SameMember(b[i], a[i]) /\ b[i].kind \in {"dir", "reg"}
  BY <1>3 DEF SameMember
<1>7. n \in Nat /\ p[n].ok
  BY <1>1 DEF n
<1>8. q[n].ok
  BY <1>1, <1>5, <1>6, <1>7, SamePlan
<1>9. QED  BY <1>3, <1>4, <1>5, <1>8 DEF b, n

IsMember(m) ==
    /\ m = Member(m.path, m.kind, m.size) /\ m.kind \in {"dir", "reg", "link"}
    /\ m.kind = "dir" => m.size = 0
IsArchive(a) == Len(a) \in Nat /\ DOMAIN a = 1 .. Len(a) /\ \A i \in 1 .. Len(a) : IsMember(a[i])
\* What the first pass leaves to the second.
IsComplete(plan) ==
    /\ IsArchive(plan) /\ PlanTarExtraction(plan).ok
    /\ \A i \in 1 .. Len(plan) : plan[i].kind \in {"dir", "reg"}
\* What w may be for the plan: RestoredAsPlanned, for one call.
AsPlanned(w, plan) ==
    LET files == {i \in DOMAIN plan : plan[i].kind = "reg"}
    IN  /\ PlanTarExtraction(plan).ok
        /\ DOMAIN w = DOMAIN plan
        /\ \A i \in DOMAIN plan :
            \/ w[i] = plan[i]
            \/ i \in files /\ w[i] = Member(plan[i].path, "none", 0)
            \/ i \in files /\ \E j \in files : w[i] = Member(plan[i].path, "copy", plan[j].size)

\* The second pass writes the plan, but for the links that it does not notice.
LEMMA ExtractsPlanned ==
    ASSUME NEW a, IsArchive(a), NEW plan, IsComplete(plan), Extracts(a, plan), NEW w \in Extracted(a)
    PROVE  AsPlanned(w, plan)
<1> DEFINE files == {i \in DOMAIN plan : plan[i].kind = "reg"}
<1>1. /\ Len(a) = Len(plan) /\ DOMAIN plan = 1 .. Len(plan) /\ DOMAIN a = 1 .. Len(plan)
      /\ \A i \in 1 .. Len(plan) : SameMember(a[i], plan[i]) /\ IsMember(a[i]) /\ IsMember(plan[i])
      /\ \A i \in 1 .. Len(plan) : plan[i].kind \in {"dir", "reg"}
  BY DEF IsComplete, IsArchive, Extracts
<1>2. DOMAIN w = 1 .. Len(plan) /\ \A i \in 1 .. Len(plan) : w[i] \in Outcomes(a[i], a)
  BY <1>1 DEF Extracted
<1>3. ASSUME NEW i \in 1 .. Len(plan)
      PROVE  \/ w[i] = plan[i]
             \/ i \in files /\ w[i] = Member(plan[i].path, "none", 0)
             \/ i \in files /\ \E j \in files : w[i] = Member(plan[i].path, "copy", plan[j].size)
  <2>1. /\ a[i].path = plan[i].path /\ (a[i].kind = "dir") = (plan[i].kind = "dir")
        /\ a[i].kind = "dir" \/ a[i].size = plan[i].size
    BY <1>1 DEF SameMember
  <2>2. CASE a[i].kind # "link"
    <3>1. w[i] = a[i]
      BY <1>2, <2>2 DEF Outcomes
    <3>2. a[i].kind = plan[i].kind /\ a[i].size = plan[i].size
      BY <1>1, <2>1, <2>2 DEF IsMember
    <3>3. a[i] = Member(a[i].path, a[i].kind, a[i].size)
          /\ plan[i] = Member(plan[i].path, plan[i].kind, plan[i].size)
      BY <1>1 DEF IsMember
    <3>4. QED  BY <2>1, <3>1, <3>2, <3>3
  <2>3. CASE a[i].kind = "link"
    <3>1. i \in files
      BY <1>1, <2>1, <2>3
    <3>2. w[i] \in {Member(a[i].path, "none", 0)}
                   \cup {Member(a[i].path, "copy", n) : n \in RegularSizes(a)}
      BY <1>2, <2>3 DEF Outcomes
    <3>3. ASSUME NEW n \in RegularSizes(a)
          PROVE  \E j \in files : n = plan[j].size
      <4>1. PICK j \in 1 .. Len(plan) : a[j].kind = "reg" /\ n = a[j].size
        BY <1>1 DEF RegularSizes
      <4>2. plan[j].kind = "reg" /\ plan[j].size = n
        BY <1>1, <4>1 DEF SameMember
      <4>3. QED  BY <1>1, <4>2
    <3> HIDE DEF files
    <3>4. QED  BY <2>1, <3>1, <3>2, <3>3
  <2>4. QED  BY <2>2, <2>3
<1>4. PlanTarExtraction(plan).ok
  BY DEF IsComplete
<1>5. QED  BY <1>1, <1>2, <1>3, <1>4 DEF AsPlanned

-----------------------------------------------------------------------------
(* Snapshots are finite.                                                   *)

LEMMA FiniteImage ==
    ASSUME NEW S, IsFiniteSet(S), NEW f, DOMAIN f = S
    PROVE  IsFiniteSet({f[x] : x \in S})
<1> DEFINE T == {f[x] : x \in S}
<1> DEFINE g == [x \in S |-> f[x]]
<1>1. g \in Surjection(S, T)
  BY DEF Surjection
<1>2. QED  BY <1>1, FS_Surjection

LEMMA FiniteScan == ASSUME IInv  PROVE IsFiniteSet({PathOf(p) : p \in Scanned})
<1>1. IsFiniteSet(Names) /\ IsFiniteSet(Dirs)
  <2>1. \A x, y, z : IsFiniteSet({x, y, z})
    <3>1. SUFFICES ASSUME NEW x, NEW y, NEW z  PROVE IsFiniteSet({x, y, z})
      OBVIOUS
    <3>2. IsFiniteSet({x}) /\ IsFiniteSet({y}) /\ IsFiniteSet({z})
      BY FS_Singleton
    <3>3. IsFiniteSet(({x} \cup {y}) \cup {z})
      BY <3>2, FS_Union
    <3>4. ({x} \cup {y}) \cup {z} = {x, y, z}
      OBVIOUS
    <3>5. QED  BY <3>3, <3>4
  <2>2. IsFiniteSet({Root, Outside, "s1"}) /\ IsFiniteSet({"s1", "s1", "s2"})
    BY <2>1, Zenon
  <2>3. Dirs = {Root, Outside, "s1"} \cup {"s1", "s1", "s2"}
    BY DEF Dirs, SubDirs
  <2>4. IsFiniteSet({Root, Outside, "s1"} \cup {"s1", "s1", "s2"})
    BY <2>2, FS_Union
  <2>5. IsFiniteSet({"f", "d", "lock"})
    BY <2>1, Zenon
  <2>6. QED  BY <2>3, <2>4, <2>5 DEF Names
<1>2. IsFiniteSet(Dirs \X Names)
  BY <1>1, FS_Product
<1>3. Scanned \subseteq Dirs \X Names
  BY WorkspaceInside DEF IInv, Scanned, FilesIn
<1>4. IsFiniteSet(Scanned)
  BY <1>2, <1>3, FS_Subset
<1> DEFINE f == [p \in Scanned |-> PathOf(p)]
<1>5. IsFiniteSet({f[p] : p \in Scanned})
  <2>1. DOMAIN f = Scanned
    OBVIOUS
  <2> HIDE DEF f
  <2>2. QED  BY <1>4, <2>1, FiniteImage
<1>6. {f[p] : p \in Scanned} = {PathOf(p) : p \in Scanned}
  OBVIOUS
<1> HIDE DEF f
<1>7. QED  BY <1>5, <1>6

\* The paths of the scan are paths of the workspace.
LEMMA ScanPaths == ASSUME IInv  PROVE {PathOf(p) : p \in Scanned} \subseteq Seq(Names) \ {<<>>}
<1>1. SUFFICES ASSUME NEW p \in Scanned  PROVE PathOf(p) \in Seq(Names) /\ PathOf(p) # <<>>
  OBVIOUS
<1>2. p[1] \in InWorkspace /\ p[2] \in Names
  BY DEF Scanned, FilesIn
<1>3. CASE p[1] = Root
  BY <1>2, <1>3 DEF PathOf
<1>4. CASE p[1] # Root
  <2> DEFINE n == CHOOSE n \in Names : fs[Root][n].to = p[1]
  <2>1. \E m \in Names : fs[Root][m].to = p[1]
    BY <1>2, <1>4 DEF InWorkspace
  <2>2. n \in Names
    BY <2>1
  <2>3. PathOf(p) = <<n, p[2]>>
    BY <1>4 DEF PathOf
  <2> HIDE DEF n
  <2>4. QED  BY <1>2, <2>2, <2>3
<1>5. QED  BY <1>3, <1>4

\* What a path leads to is an entry.
LEMMA WalkTyped ==
    ASSUME NEW names \in Seq(Names)
    PROVE  Walk(Root, names) \in Dirs \cup {"none"}
<1> DEFINE n == Len(names)
<1>1. n \in Nat
  OBVIOUS
<1>2. \E w : Walks(fs, Root, names, n, w)
  <2> HIDE DEF n
  <2>1. QED  BY <1>1, WalkExists
<1>3. PICK w : Walks(fs, Root, names, n, w) /\ WalkIn(fs, Root, names) = w[n]
  BY <1>2 DEF Walks, WalkIn
<1>4. n \in 0 .. n
  BY <1>1
<1>5. w[n] = IF n = 0 THEN Root ELSE EnterIn(fs, w[n - 1], names[n])
  <2> HIDE DEF n
  <2>1. QED  BY <1>3, <1>4 DEF Walks
<1>6. w[n] \in Dirs \cup {"none"}
  BY <1>5 DEF EnterIn, Dirs
<1>7. QED  BY <1>3, <1>6, WalkNow

LEMMA AddedMembers ==
    ASSUME IInv, NEW path \in Seq(Names) \ {<<>>}, NEW m \in Added(path)
    PROVE  IsMember(m)
<1> DEFINE dir == Walk(Root, Front(path))
<1> DEFINE e == IF dir = "none" THEN NoEntry ELSE fs[dir][Last(path)]
<1>1. Front(path) \in Seq(Names) /\ Last(path) \in Names
  BY DEF Front, Last
<1>2. dir \in Dirs \cup {"none"}
  BY <1>1, WalkTyped
<1>3. e \in Entries
  BY <1>1, <1>2, EntryTypes DEF IInv, FsInv
<1>4. Added(path) = CASE e.kind = "none" -> {}
                      [] e.kind = "file" -> {Member(path, "reg", e.size)}
                      [] OTHER -> {Member(path, e.kind, 0)}
  BY DEF Added
<1> HIDE DEF e
<1>5. m = Member(path, "reg", e.size)
      \/ (e.kind \in {"dir", "link"} /\ m = Member(path, e.kind, 0))
  BY <1>3, <1>4 DEF Entries
<1>6. QED  BY <1>5 DEF IsMember, Member

\* A finite set is listed by a sequence.
LEMMA Listing ==
    ASSUME NEW S, IsFiniteSet(S)
    PROVE  LET a == SetToSeq(S)
           IN Len(a) \in Nat /\ DOMAIN a = 1 .. Len(a) /\ \A i \in 1 .. Len(a) : a[i] \in S
<1> DEFINE n == Cardinality(S)
<1>1. n \in Nat /\ ExistsBijection(1 .. n, S)
  BY FS_CardinalityType
<1>2. \E f \in [1 .. n -> S] : IsInjective(f)
  BY <1>1 DEF ExistsBijection, Bijection, Injection
<1>3. SetToSeq(S) \in [1 .. n -> S]
  BY <1>2 DEF SetToSeq
<1> HIDE DEF n
<1>4. Len(SetToSeq(S)) = n
  BY <1>1, <1>3
<1>5. QED  BY <1>1, <1>3, <1>4

LEMMA FiniteArchive ==
    ASSUME IInv, NEW found, IsFiniteSet(found), found \subseteq Seq(Names) \ {<<>>}
    PROVE  IsArchive(SetToSeq(UNION {Added(path) : path \in found}))
<1> DEFINE f == [path \in found |-> Added(path)]
<1> DEFINE T == {f[path] : path \in found}
<1>1. IsFiniteSet(T)
  <2>1. DOMAIN f = found
    OBVIOUS
  <2> HIDE DEF f
  <2>2. QED  BY <2>1, FiniteImage
<1>2. T = {Added(path) : path \in found}
  OBVIOUS
<1>3. \A path : IsFiniteSet(Added(path))
  <2>1. SUFFICES ASSUME NEW path  PROVE IsFiniteSet(Added(path))
    OBVIOUS
  <2>2. Added(path) = {} \/ \E x : Added(path) = {x}
    BY DEF Added
  <2>3. IsFiniteSet({}) /\ \A x : IsFiniteSet({x})
    BY FS_EmptySet, FS_Singleton
  <2>4. QED  BY <2>2, <2>3, Zenon
<1>4. \A s \in T : IsFiniteSet(s)
  BY <1>3
<1>5. \A m \in UNION T : IsMember(m)
  BY <1>2, AddedMembers
<1> HIDE DEF T, f
<1>6. IsFiniteSet(UNION T)
  BY <1>1, <1>4, FS_UNION
<1>7. IsArchive(SetToSeq(UNION T))
  BY <1>5, <1>6, Listing DEF IsArchive
<1>8. QED  BY <1>2, <1>7

-----------------------------------------------------------------------------
(* What a restore wrote was planned.                                       *)

SnapshotShape ==
    /\ snapshots = [s \in Calls |-> snapshots[s]]
    /\ \A s \in Calls : DOMAIN snapshots[s] = {"saved", "archive"}
    /\ restored = [c \in Calls |-> restored[c]]

\* Between its two passes a restore has a complete plan, and what it has written
\* is what that plan allows.
RestoreInv(c) ==
    /\ IsFiniteSet(call[c].found) /\ call[c].found \subseteq Seq(Names) \ {<<>>}
    /\ restored[c] # <<>> => call[c].pc = "done" /\ AsPlanned(restored[c], call[c].plan)
    /\ At(c, "restore", "extract") => IsComplete(call[c].plan)

ArchiveInv ==
    /\ SnapshotShape
    /\ \A s \in Calls : IsArchive(snapshots[s].archive)
    /\ \A c \in Calls : RestoreInv(c)

\* A step of a call that restores nothing.
LEMMA StepArchives ==
    ASSUME IInv, ArchiveInv, NEW c \in Calls, call[c].pc # "done", NEW new, Update(c, new),
           "pc" \in DOMAIN new,
           "found" \in DOMAIN new
               => IsFiniteSet(new.found) /\ new.found \subseteq Seq(Names) \ {<<>>},
           new.pc = "extract" => "plan" \in DOMAIN new /\ IsComplete(new.plan),
           SnapshotShape', \A s \in Calls : IsArchive(snapshots'[s].archive), restored' = restored
    PROVE  ArchiveInv'
<1>1. /\ \A d \in Calls \ {c} : call'[d] = call[d]
      /\ \A f \in Fields : call'[c][f] = IF f \in DOMAIN new THEN new[f] ELSE call[c][f]
  BY UpdateFacts DEF IInv
<1>2. /\ call'[c].pc = new.pc
      /\ IsFiniteSet(call'[c].found) /\ call'[c].found \subseteq Seq(Names) \ {<<>>}
      /\ new.pc = "extract" => IsComplete(call'[c].plan)
  BY <1>1 DEF Fields, ArchiveInv, RestoreInv
<1>3. RestoreInv(c)'
  BY <1>2 DEF ArchiveInv, RestoreInv, At
<1>4. ASSUME NEW d \in Calls, d # c  PROVE RestoreInv(d)'
  <2>1. call'[d] = call[d] /\ RestoreInv(d)
    BY <1>1, <1>4 DEF ArchiveInv
  <2>2. QED  BY <2>1 DEF RestoreInv, At
<1>5. QED  BY <1>3, <1>4 DEF ArchiveInv

\* A step of a call that neither saves, removes nor restores.
LEMMA OtherArchives ==
    ASSUME IInv, ArchiveInv, NEW c \in Calls, call[c].pc # "done", NEW new, Update(c, new),
           "pc" \in DOMAIN new, new.pc # "extract", "found" \notin DOMAIN new,
           UNCHANGED <<snapshots, restored>>
    PROVE  ArchiveInv'
<1>1. SnapshotShape' /\ \A s \in Calls : IsArchive(snapshots'[s].archive)
  BY DEF ArchiveInv, SnapshotShape
<1>2. QED  BY <1>1, StepArchives

LEMMA DoneArchives ==
    ASSUME IInv, ArchiveInv, NEW c \in Calls, call[c].pc # "done", NEW answer, Done(c, answer),
           UNCHANGED <<snapshots, restored>>
    PROVE  ArchiveInv'
<1> DEFINE new == [pc |-> "done", answer |-> answer]
<1>1. Update(c, new) /\ DOMAIN new = {"pc", "answer"} /\ new.pc = "done"
  BY DEF Done
<1> HIDE DEF new
<1>2. QED  BY <1>1, OtherArchives

LEMMA PlaceArchives ==
    ASSUME IInv, ArchiveInv, NEW c \in Calls, call[c].pc # "done", NEW pc, Update(c, [pc |-> pc]),
           pc # "extract", UNCHANGED <<snapshots, restored>>
    PROVE  ArchiveInv'
<1> DEFINE new == [pc |-> pc]
<1>1. Update(c, new) /\ DOMAIN new = {"pc"} /\ new.pc = pc
  OBVIOUS
<1> HIDE DEF new
<1>2. QED  BY <1>1, OtherArchives

LEMMA FileArchives ==
    ASSUME IInv, ArchiveInv, NEW c \in Calls,
           \/ Arrive(c) \/ WriteResolves(c) \/ WriteChecked(c) \/ WriteOpens(c)
           \/ DeleteWalks(c) \/ DeleteUnlinks(c) \/ ReadResolves(c) \/ ReadOpens(c)
    PROVE  ArchiveInv'
<1>1. UNCHANGED <<snapshots, restored>> /\ call[c].pc # "done"
  BY DEF Arrive, WriteResolves, WriteChecked, WriteOpens, DeleteWalks, DeleteUnlinks,
         ReadResolves, ReadOpens, At
<1>2. ASSUME NEW req, Update(c, [pc |-> "begin", req |-> req])  PROVE ArchiveInv'
  <2> DEFINE new == [pc |-> "begin", req |-> req]
  <2>1. Update(c, new) /\ DOMAIN new = {"pc", "req"} /\ new.pc = "begin"
    BY <1>2
  <2> HIDE DEF new
  <2>2. QED  BY <1>1, <2>1, OtherArchives
<1>3. ASSUME NEW target, NEW dir, Update(c, [pc |-> "check", target |-> target, dir |-> dir])
      PROVE  ArchiveInv'
  <2> DEFINE new == [pc |-> "check", target |-> target, dir |-> dir]
  <2>1. Update(c, new) /\ DOMAIN new = {"pc", "target", "dir"} /\ new.pc = "check"
    BY <1>3
  <2> HIDE DEF new
  <2>2. QED  BY <1>1, <2>1, OtherArchives
<1>4. ASSUME NEW dir, Update(c, [pc |-> "unlink", dir |-> dir])  PROVE ArchiveInv'
  <2> DEFINE new == [pc |-> "unlink", dir |-> dir]
  <2>1. Update(c, new) /\ DOMAIN new = {"pc", "dir"} /\ new.pc = "unlink"
    BY <1>4
  <2> HIDE DEF new
  <2>2. QED  BY <1>1, <2>1, OtherArchives
<1>5. ASSUME NEW target, Update(c, [pc |-> "open", target |-> target])  PROVE ArchiveInv'
  <2> DEFINE new == [pc |-> "open", target |-> target]
  <2>1. Update(c, new) /\ DOMAIN new = {"pc", "target"} /\ new.pc = "open"
    BY <1>5
  <2> HIDE DEF new
  <2>2. QED  BY <1>1, <2>1, OtherArchives
<1>6. CASE Arrive(c)
  BY <1>2, <1>6 DEF Arrive
<1>7. CASE WriteResolves(c)
  <2>1. \/ \E target, dir : Update(c, [pc |-> "check", target |-> target, dir |-> dir])
        \/ \E answer : Done(c, answer)
    BY <1>7, Zenon DEF WriteResolves
  <2>2. QED  BY <1>1, <1>3, <2>1, DoneArchives
<1>8. CASE WriteChecked(c) \/ WriteOpens(c)
  <2>1. Update(c, [pc |-> "open"]) \/ \E answer : Done(c, answer)
    <3>1. CASE WriteChecked(c)  BY <3>1 DEF WriteChecked
    <3>2. CASE WriteOpens(c)  BY <3>2 DEF WriteOpens
    <3>3. QED  BY <1>8, <3>1, <3>2
  <2>2. QED  BY <1>1, <2>1, PlaceArchives, DoneArchives
<1>9. CASE DeleteWalks(c) \/ DeleteUnlinks(c)
  <2>1. \/ \E dir : Update(c, [pc |-> "unlink", dir |-> dir])
        \/ \E answer : Done(c, answer)
    <3>1. CASE DeleteWalks(c)  BY <3>1, Zenon DEF DeleteWalks
    <3>2. CASE DeleteUnlinks(c)  BY <3>2, Zenon DEF DeleteUnlinks
    <3>3. QED  BY <1>9, <3>1, <3>2
  <2>2. QED  BY <1>1, <1>4, <2>1, DoneArchives
<1>10. CASE ReadResolves(c) \/ ReadOpens(c)
  <2>1. \/ \E target : Update(c, [pc |-> "open", target |-> target])
        \/ \E answer : Done(c, answer)
    <3>1. CASE ReadResolves(c)  BY <3>1, Zenon DEF ReadResolves
    <3>2. CASE ReadOpens(c)  BY <3>2, Zenon DEF ReadOpens
    <3>3. QED  BY <1>10, <3>1, <3>2
  <2>2. QED  BY <1>1, <1>5, <2>1, DoneArchives
<1>11. QED  BY <1>6, <1>7, <1>8, <1>9, <1>10

LEMMA RunArchives ==
    ASSUME IInv, ArchiveInv, NEW c \in Calls,
           \/ RunBegins(c) \/ RunFileBegins(c) \/ RunEnds(c)
           \/ SpillIfTruncated(c) \/ WriteSpill(c) \/ PruneResolves(c) \/ PruneSpill(c)
    PROVE  ArchiveInv'
<1>1. UNCHANGED <<snapshots, restored>> /\ call[c].pc # "done"
  BY DEF RunBegins, RunFileBegins, RunEnds, SpillIfTruncated, WriteSpill, PruneResolves,
         PruneSpill, At
<1>2. ASSUME NEW pc, Update(c, [pc |-> pc, dir |-> spillDir]), pc # "extract"  PROVE ArchiveInv'
  <2> DEFINE new == [pc |-> pc, dir |-> spillDir]
  <2>1. Update(c, new) /\ DOMAIN new = {"pc", "dir"} /\ new.pc = pc
    BY <1>2
  <2> HIDE DEF new
  <2>2. QED  BY <1>1, <1>2, <2>1, OtherArchives
<1>3. \/ Update(c, [pc |-> "running"]) \/ Update(c, [pc |-> "post"]) \/ Update(c, [pc |-> "prune"])
      \/ Update(c, [pc |-> "spill", dir |-> spillDir])
      \/ Update(c, [pc |-> "sweep", dir |-> spillDir])
      \/ \E answer : Done(c, answer)
  <2>1. CASE RunBegins(c)  BY <2>1 DEF RunBegins
  <2>2. CASE RunFileBegins(c)  BY <2>2 DEF RunFileBegins
  <2>3. CASE SpillIfTruncated(c)  BY <2>3 DEF SpillIfTruncated
  <2>4. CASE RunEnds(c)  BY <2>4 DEF RunEnds
  <2>5. CASE WriteSpill(c)  BY <2>5 DEF WriteSpill
  <2>6. CASE PruneResolves(c)  BY <2>6 DEF PruneResolves
  <2>7. CASE PruneSpill(c)  BY <2>7 DEF PruneSpill
  <2>8. QED  BY <2>1, <2>2, <2>3, <2>4, <2>5, <2>6, <2>7
<1>4. QED  BY <1>1, <1>2, <1>3, PlaceArchives, DoneArchives

LEMMA SaveScansArchives ==
    ASSUME IInv, ArchiveInv, NEW c \in Calls, SaveScans(c)
    PROVE  ArchiveInv'
<1>1. UNCHANGED <<snapshots, restored>> /\ call[c].pc # "done"
  BY DEF SaveScans, At
<1> DEFINE found == {PathOf(p) : p \in Scanned}
<1> DEFINE new == [pc |-> "archive", found |-> found]
<1>2. Update(c, new) \/ \E answer : Done(c, answer)
  BY Zenon DEF SaveScans
<1>3. IsFiniteSet(found) /\ found \subseteq Seq(Names) \ {<<>>}
  BY FiniteScan, ScanPaths
<1> HIDE DEF found
<1>4. DOMAIN new = {"pc", "found"} /\ new.pc = "archive" /\ new.found = found
  OBVIOUS
<1> HIDE DEF new
<1>5. SnapshotShape' /\ \A s \in Calls : IsArchive(snapshots'[s].archive)
  BY <1>1 DEF ArchiveInv, SnapshotShape
<1>6. QED  BY <1>1, <1>2, <1>3, <1>4, <1>5, StepArchives, DoneArchives

\* A call that ends and changes the snapshots.
LEMMA EndArchives ==
    ASSUME IInv, ArchiveInv, NEW c \in Calls, call[c].pc # "done", NEW answer, Done(c, answer),
           restored' = restored, SnapshotShape', \A s \in Calls : IsArchive(snapshots'[s].archive)
    PROVE  ArchiveInv'
<1> DEFINE new == [pc |-> "done", answer |-> answer]
<1>1. Update(c, new) /\ DOMAIN new = {"pc", "answer"} /\ new.pc = "done"
  BY DEF Done
<1> HIDE DEF new
<1>2. QED  BY <1>1, StepArchives

LEMMA SaveArchivesArchives ==
    ASSUME IInv, ArchiveInv, NEW c \in Calls, SaveArchives(c)
    PROVE  ArchiveInv'
<1> DEFINE members == SetToSeq(UNION {Added(path) : path \in call[c].found})
<1>1. restored' = restored /\ call[c].pc # "done"
  BY DEF SaveArchives, At
<1>2. \/ snapshots' = snapshots /\ Done(c, "internal")
      \/ /\ snapshots' = [snapshots EXCEPT ![c] = [saved |-> TRUE, archive |-> members]]
         /\ Done(c, "ok")
  BY DEF SaveArchives
<1>3. IsArchive(members)
  BY FiniteArchive DEF ArchiveInv, RestoreInv
<1> HIDE DEF members
<1>4. CASE snapshots' = snapshots /\ Done(c, "internal")
  BY <1>1, <1>4, DoneArchives
<1>5. CASE /\ snapshots' = [snapshots EXCEPT ![c] = [saved |-> TRUE, archive |-> members]]
           /\ Done(c, "ok")
  <2>1. /\ snapshots'[c] = [saved |-> TRUE, archive |-> members]
        /\ \A s \in Calls \ {c} : snapshots'[s] = snapshots[s]
        /\ snapshots' = [s \in Calls |-> snapshots'[s]]
    BY <1>5 DEF ArchiveInv, SnapshotShape
  <2>2. SnapshotShape'
    BY <1>1, <2>1 DEF ArchiveInv, SnapshotShape
  <2>3. \A s \in Calls : IsArchive(snapshots'[s].archive)
    BY <1>3, <2>1 DEF ArchiveInv
  <2>4. QED  BY <1>1, <1>5, <2>2, <2>3, EndArchives
<1>6. QED  BY <1>2, <1>4, <1>5

LEMMA SnapshotRemovedArchives ==
    ASSUME IInv, ArchiveInv, NEW c \in Calls, SnapshotRemoved(c)
    PROVE  ArchiveInv'
<1>1. /\ restored' = restored /\ call[c].pc # "done" /\ Done(c, "ok")
      /\ snapshots' = [s \in Calls |-> IF s \in call[c].req.ids THEN NoSnapshot ELSE snapshots[s]]
  BY DEF SnapshotRemoved, At
<1>2. DOMAIN NoSnapshot = {"saved", "archive"} /\ IsArchive(NoSnapshot.archive)
  BY DEF NoSnapshot, IsArchive
<1>3. /\ snapshots' = [s \in Calls |-> snapshots'[s]]
      /\ \A s \in Calls : snapshots'[s] = NoSnapshot \/ snapshots'[s] = snapshots[s]
  BY <1>1
<1>4. SnapshotShape'
  BY <1>1, <1>2, <1>3 DEF ArchiveInv, SnapshotShape
<1>5. \A s \in Calls : IsArchive(snapshots'[s].archive)
  BY <1>2, <1>3 DEF ArchiveInv
<1>6. QED  BY <1>1, <1>4, <1>5, EndArchives

\* The first pass: the plan lists the archive, and can be planned again.
LEMMA RestorePlansArchives ==
    ASSUME IInv, ArchiveInv, NEW c \in Calls, RestorePlans(c)
    PROVE  ArchiveInv'
<1> DEFINE id == call[c].req.id
<1> DEFINE archive == snapshots[id].archive
<1> DEFINE plan == PlanTarExtraction(archive).members
<1> DEFINE new == [pc |-> "extract", plan |-> plan]
<1>1. /\ UNCHANGED <<snapshots, restored>> /\ call[c].pc = "begin" /\ call[c].req.op = "restore"
  BY DEF RestorePlans, At
<1>2. id \in Calls
  <2>1. call[c].req \in RequestType
    BY <1>1, Asked
  <2>2. QED  BY <1>1, <2>1 DEF RequestType
<1>3. \/ PlanTarExtraction(archive).ok /\ Update(c, new)
      \/ \E answer : Done(c, answer)
  BY Zenon DEF RestorePlans
<1>4. CASE \E answer : Done(c, answer)
  BY <1>1, <1>4, DoneArchives
<1>5. CASE PlanTarExtraction(archive).ok /\ Update(c, new)
  <2>1. IsArchive(archive)
    BY <1>2 DEF ArchiveInv
  <2> HIDE DEF archive
  <2>2. /\ Len(plan) \in Nat /\ DOMAIN plan = 1 .. Len(plan)
        /\ PlanTarExtraction(plan).ok /\ Len(plan) = Len(archive)
        /\ \A j \in 1 .. Len(plan) : plan[j] = archive[j] /\ archive[j].kind \in {"dir", "reg"}
    BY <1>5, <2>1, PlanOfPlan DEF IsArchive
  <2> HIDE DEF plan
  <2>3. IsComplete(plan)
    BY <2>1, <2>2 DEF IsComplete, IsArchive
  <2>4. DOMAIN new = {"pc", "plan"} /\ new.pc = "extract" /\ new.plan = plan
    OBVIOUS
  <2> HIDE DEF new
  <2>5. SnapshotShape' /\ \A s \in Calls : IsArchive(snapshots'[s].archive)
    BY <1>1 DEF ArchiveInv, SnapshotShape
  <2>6. QED  BY <1>1, <1>5, <2>3, <2>4, <2>5, StepArchives
<1>6. QED  BY <1>3, <1>4, <1>5

\* The second pass writes what the plan allows.
LEMMA RestoreExtractsArchives ==
    ASSUME IInv, ArchiveInv, NEW c \in Calls, RestoreExtracts(c)
    PROVE  ArchiveInv'
<1> DEFINE id == call[c].req.id
<1> DEFINE archive == snapshots[id].archive
<1>1. /\ snapshots' = snapshots /\ call[c].pc = "extract" /\ At(c, "restore", "extract")
      /\ call[c].req.op = "restore"
  BY DEF RestoreExtracts, At
<1>2. \/ restored' = restored /\ \E answer : Done(c, answer)
      \/ /\ Extracts(archive, call[c].plan) /\ Done(c, "ok")
         /\ \E w \in Extracted(archive) : restored' = [restored EXCEPT ![c] = w]
  BY Zenon DEF RestoreExtracts
<1>3. CASE restored' = restored /\ \E answer : Done(c, answer)
  BY <1>1, <1>3, DoneArchives
<1>4. CASE /\ Extracts(archive, call[c].plan) /\ Done(c, "ok")
           /\ \E w \in Extracted(archive) : restored' = [restored EXCEPT ![c] = w]
  <2>1. id \in Calls
    <3>1. call[c].req \in RequestType
      BY <1>1, Asked
    <3>2. QED  BY <1>1, <3>1 DEF RequestType
  <2>2. IsArchive(archive) /\ IsComplete(call[c].plan)
    BY <1>1, <2>1 DEF ArchiveInv, RestoreInv
  <2>3. PICK w \in Extracted(archive) : restored' = [restored EXCEPT ![c] = w]
    BY <1>4
  <2> HIDE DEF archive
  <2>4. AsPlanned(w, call[c].plan)
    BY <1>4, <2>2, ExtractsPlanned
  <2>5. /\ restored' = [d \in Calls |-> restored'[d]]
        /\ restored'[c] = w /\ \A d \in Calls \ {c} : restored'[d] = restored[d]
    BY <2>3 DEF ArchiveInv, SnapshotShape
  <2>6. SnapshotShape' /\ \A s \in Calls : IsArchive(snapshots'[s].archive)
    BY <1>1, <2>5 DEF ArchiveInv, SnapshotShape
  <2>7. /\ \A d \in Calls \ {c} : call'[d] = call[d]
        /\ call'[c].pc = "done" /\ call'[c].plan = call[c].plan /\ call'[c].found = call[c].found
    <3> DEFINE new == [pc |-> "done", answer |-> "ok"]
    <3>1. Update(c, new) /\ DOMAIN new = {"pc", "answer"} /\ new.pc = "done"
      BY <1>4 DEF Done
    <3> HIDE DEF new
    <3>2. QED  BY <3>1, UpdateFacts DEF IInv, Fields
  <2>8. RestoreInv(c)'
    BY <2>4, <2>5, <2>7 DEF ArchiveInv, RestoreInv, At
  <2>9. ASSUME NEW d \in Calls, d # c  PROVE RestoreInv(d)'
    <3>1. call'[d] = call[d] /\ restored'[d] = restored[d] /\ RestoreInv(d)
      BY <2>5, <2>7, <2>9 DEF ArchiveInv
    <3>2. QED  BY <3>1 DEF RestoreInv, At
  <2>10. QED  BY <2>6, <2>8, <2>9 DEF ArchiveInv
<1>5. QED  BY <1>2, <1>3, <1>4

LEMMA TamperArchives == ASSUME IInv, ArchiveInv, Tamper  PROVE ArchiveInv'
<1>1. UNCHANGED <<restored, call>>
  BY DEF Tamper
<1>2. PICK c \in Calls, a \in Archives :
          snapshots[c].saved /\ snapshots' = [snapshots EXCEPT ![c].archive = a]
  BY DEF Tamper
<1>3. /\ snapshots' = [s \in Calls |-> snapshots'[s]]
      /\ \A s \in Calls : DOMAIN snapshots'[s] = {"saved", "archive"}
      /\ snapshots'[c].archive = a
      /\ \A s \in Calls \ {c} : snapshots'[s] = snapshots[s]
  BY <1>2 DEF ArchiveInv, SnapshotShape
<1>4. SnapshotShape'
  BY <1>1, <1>3 DEF ArchiveInv, SnapshotShape
<1>5. IsArchive(a)
  <2>1. a \in Seq(MemberType)
    BY SessionDiskAssumption
  <2>2. \A m \in MemberType : IsMember(m)
    BY DEF MemberType, IsMember, Member
  <2> HIDE DEF MemberType
  <2>3. QED  BY <2>1, <2>2 DEF IsArchive
<1>6. \A s \in Calls : IsArchive(snapshots'[s].archive)
  BY <1>3, <1>5 DEF ArchiveInv
<1>7. \A d \in Calls : RestoreInv(d)'
  BY <1>1 DEF ArchiveInv, RestoreInv, At
<1>8. QED  BY <1>4, <1>6, <1>7 DEF ArchiveInv

LEMMA IdleArchives ==
    ASSUME ArchiveInv, UNCHANGED <<snapshots, restored, call>>
    PROVE  ArchiveInv'
BY DEF ArchiveInv, SnapshotShape, RestoreInv, At

LEMMA NextArchives ==
    ASSUME IInv, ArchiveInv, [Next]_vars
    PROVE  ArchiveInv'
<1>1. ASSUME NEW c \in Calls,
             \/ Arrive(c) \/ WriteResolves(c) \/ WriteChecked(c) \/ WriteOpens(c)
             \/ DeleteWalks(c) \/ DeleteUnlinks(c) \/ ReadResolves(c) \/ ReadOpens(c)
             \/ RunBegins(c) \/ RunFileBegins(c) \/ RunEnds(c)
             \/ SpillIfTruncated(c) \/ WriteSpill(c) \/ PruneResolves(c) \/ PruneSpill(c)
      PROVE  ArchiveInv'
  BY <1>1, FileArchives, RunArchives
<1>2. ASSUME NEW c \in Calls,
             \/ SaveScans(c) \/ SaveArchives(c) \/ SnapshotRemoved(c)
             \/ RestorePlans(c) \/ RestoreExtracts(c)
      PROVE  ArchiveInv'
  BY <1>2, SaveScansArchives, SaveArchivesArchives, SnapshotRemovedArchives,
     RestorePlansArchives, RestoreExtractsArchives
<1>3. CASE Tamper
  BY <1>3, TamperArchives
<1>4. CASE Program \/ Finished \/ UNCHANGED vars
  BY <1>4, IdleArchives DEF Program, Finished, vars
<1>5. QED  BY <1>1, <1>2, <1>3, <1>4 DEF Next

LEMMA InitArchives == Init => ArchiveInv
<1>1. SUFFICES ASSUME Init  PROVE ArchiveInv
  OBVIOUS
<1>2. \A c \in Calls : snapshots[c] = NoSnapshot /\ restored[c] = <<>> /\ call[c] = Idle
  BY <1>1 DEF Init
<1>3. DOMAIN NoSnapshot = {"saved", "archive"} /\ IsArchive(NoSnapshot.archive)
  BY DEF NoSnapshot, IsArchive
<1>4. Idle.pc = "idle" /\ Idle.found = {} /\ IsFiniteSet(Idle.found)
  BY FS_EmptySet DEF Idle
<1>5. SnapshotShape
  <2>1. snapshots = [s \in Calls |-> snapshots[s]] /\ restored = [c \in Calls |-> restored[c]]
    BY <1>1 DEF Init
  <2>2. QED  BY <1>2, <1>3, <2>1 DEF SnapshotShape
<1>6. \A c \in Calls : RestoreInv(c)
  BY <1>2, <1>4 DEF RestoreInv, At
<1>7. QED  BY <1>2, <1>3, <1>5, <1>6 DEF ArchiveInv

\* What snapshot_restore wrote is the plan of the first pass, member for member,
\* whatever archive is there for the second: only where that archive has a link
\* or a special file in the place of a planned file, the file is missing or is a
\* copy of another file of the plan.
THEOREM RestoresPlanned == Spec => []RestoredAsPlanned
<1>1. ArchiveInv => RestoredAsPlanned
  BY DEF ArchiveInv, RestoreInv, RestoredAsPlanned, AsPlanned
<1>2. IInv /\ ArchiveInv /\ [Next]_vars => ArchiveInv'
  BY NextArchives
<1>3. QED  BY <1>1, <1>2, InitArchives, Invariance, PTL DEF Spec
=============================================================================
