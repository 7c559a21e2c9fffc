----------------------- MODULE SessionLifecycleProofs -----------------------
(***************************************************************************)
(* Proofs about SessionLifecycle, for any number of sessions, threads,     *)
(* directories, workers and restarts, any size of the expired cache, and   *)
(* with restores over live sessions.                                       *)
(***************************************************************************)
EXTENDS SessionLifecycle, TLAPS

ClientState ==
    [call : AllCalls \cup {"none"}, pc : Pcs, s : 0 .. MaxSessions,
     w : 0 .. MaxWorkers, g : 0 .. MaxDirs, old : 0 .. MaxDirs]

\* The types of what the first proofs are about: the idle clock, the expired
\* cache and the markers come with the last one.
Typed ==
    /\ worker \in [Sessions -> 0 .. MaxWorkers]
    /\ identity \in [Sessions -> 0 .. MaxDirs]
    /\ client \in [Clients -> ClientState]
    /\ proc \in [WorkerIds -> {"unborn", "live", "dead"}]
    /\ dir \in [Sessions -> 0 .. MaxDirs]
    /\ eligible \in [Sessions -> 0 .. MaxDirs]
    /\ used \in 0 .. MaxSessions /\ dirs \in 0 .. MaxDirs
    /\ spawned \in 0 .. MaxWorkers
    /\ home \in [WorkerIds -> 0 .. MaxSessions]

HoldPcs == {"lock", "publish", "reap_close", "close"}

\* Where a session that has no worker yet may have a directory.
FreshPcs == {"identify", "spawn", "lock", "publish"}

\* A restore has extracted its archive and not yet put it into place.
Extracted(x) ==
    \/ x.pc \in {"pop", "aside", "swap_in"}
    \/ x.pc \in {"close", "unlock"} /\ x.call = "restore"

\* A call that is under way knows its session; a restore that has extracted
\* the archive has a directory, and one that set the old workspace aside has
\* that as well.
CallOK(x, n) ==
    /\ x.pc # "idle" => x.s \in 1 .. n
    /\ x.pc \in {"verify", "pop", "aside", "swap_in", "identify"} => x.call = "restore"
    /\ x.pc \in {"close", "unlock"} => x.call \in {"stop", "restore"}
    /\ Extracted(x) => x.g # 0
    /\ x.pc = "swap_in" => x.old # 0
CallInv == \A c \in Clients : CallOK(client[c], used)

\* One call at a time makes or takes the worker of a session, and then there is
\* none in the table; unless a restore took the session over.
OwnerInv ==
    /\ \A c, d \in Clients :
           /\ client[c].pc \in ActivePcs /\ client[d].pc \in ActivePcs
           /\ client[c].s = client[d].s /\ client[c].s \notin contended
           => c = d
    /\ \A c \in Clients : client[c].pc \in ActivePcs /\ client[c].s \notin contended =>
           worker[client[c].s] = 0
    /\ \A s \in Sessions : s > used => worker[s] = 0

\* A worker is in the table of, or in the hands of a call on, its own session.
HomeInv ==
    /\ \A s \in Sessions : worker[s] # 0 => worker[s] <= spawned /\ home[worker[s]] = s
    /\ \A c \in Clients : client[c].pc \in HoldPcs =>
           /\ client[c].w # 0 /\ client[c].w <= spawned
           /\ home[client[c].w] = client[c].s

\* A live worker is in the table or held by a call that publishes or closes it.
Kept(w) ==
    \/ \E s \in Sessions : worker[s] = w
    \/ \E c \in Clients : client[c].w = w /\ client[c].pc \in HoldPcs
KeptInv == \A w \in WorkerIds : proc[w] = "live" /\ home[w] \notin contended => Kept(w)

\* A directory is at the path of one session at most, or is what one restore
\* extracted or set aside.
DirInv ==
    /\ \A s \in Sessions : s > used => dir[s] = 0 /\ eligible[s] = 0
    /\ \A s, t \in Sessions : dir[s] = dir[t] /\ dir[s] # 0 => s = t
    /\ \A s \in Sessions : dir[s] <= dirs /\ eligible[s] <= dirs
    /\ aged \subseteq 1 .. dirs
NewInv ==
    /\ \A c \in Clients : Extracted(client[c]) =>
           /\ client[c].g <= dirs /\ client[c].g \notin aged
           /\ \A s \in Sessions : dir[s] # client[c].g /\ eligible[s] # client[c].g
    /\ \A c, d \in Clients :
           Extracted(client[c]) /\ Extracted(client[d]) /\ client[c].g = client[d].g => c = d
OldInv ==
    /\ \A c \in Clients : client[c].pc = "swap_in" =>
           /\ client[c].old <= dirs
           /\ \A s \in Sessions : dir[s] # client[c].old
           /\ \A d \in Clients : Extracted(client[d]) => client[d].g # client[c].old
    /\ \A c, d \in Clients :
           client[c].pc = "swap_in" /\ client[d].pc = "swap_in" /\ client[c].old = client[d].old => c = d

\* The directory of a session with a worker is locked, and what cleanup found
\* belongs to no session that has a worker or is about to get one.
TableLocked ==
    \A s \in Sessions : worker[s] # 0 /\ dir[s] # 0 /\ s \notin contended \cup unguarded =>
        dir[s] \in locked /\ eligible[s] # dir[s]
FreshLocked ==
    \A c \in Clients :
        client[c].pc \in FreshPcs /\ dir[client[c].s] # 0 /\ client[c].s \notin contended =>
           /\ dir[client[c].s] \notin aged
           /\ eligible[client[c].s] # dir[client[c].s]
           /\ client[c].pc = "publish" /\ client[c].s \notin unguarded => dir[client[c].s] \in locked
LockedInv == TableLocked /\ FreshLocked

IInv ==
    /\ Typed
    /\ CallInv
    /\ NeverWithoutWorkspace
    /\ OwnerInv
    /\ HomeInv
    /\ KeptInv
    /\ DirInv /\ NewInv /\ OldInv
    /\ LockedInv

Others(c) == \A d \in Clients : d # c => client'[d] = client[d]

LEMMA Bounds ==
    /\ MaxSessions \in Nat /\ MaxDirs \in Nat /\ MaxWorkers \in Nat /\ MaxRestarts \in Nat
    /\ Sessions = 1 .. MaxSessions /\ WorkerIds = 1 .. MaxWorkers
BY SessionLifecycleAssumption DEF Sessions, WorkerIds

LEMMA IdleFacts ==
    /\ Idle \in ClientState
    /\ Idle.pc = "idle" /\ Idle.call = "none" /\ Idle.s = 0 /\ Idle.w = 0 /\ Idle.g = 0 /\ Idle.old = 0
    /\ ~Extracted(Idle)
    /\ \A n : CallOK(Idle, n)
BY Bounds DEF Idle, InCall, ClientState, Pcs, AllCalls, CallOK, Extracted

LEMMA GotoFacts ==
    ASSUME Typed, NEW c \in Clients, NEW pc \in Pcs, Goto(c, pc)
    PROVE  /\ client' \in [Clients -> ClientState] /\ Others(c)
           /\ client'[c].pc = pc /\ client'[c].call = client[c].call /\ client'[c].s = client[c].s
           /\ client'[c].w = client[c].w /\ client'[c].g = client[c].g /\ client'[c].old = client[c].old
BY DEF Typed, Goto, Others, ClientState

LEMMA ReturnFacts ==
    ASSUME Typed, NEW c \in Clients, Return(c)
    PROVE  client' \in [Clients -> ClientState] /\ Others(c) /\ client'[c] = Idle
BY IdleFacts DEF Typed, Return, Others

LEMMA SetFacts ==
    ASSUME Typed, NEW c \in Clients, NEW x \in ClientState, client' = [client EXCEPT ![c] = x]
    PROVE  client' \in [Clients -> ClientState] /\ Others(c) /\ client'[c] = x
BY DEF Typed, Others

LEMMA InCallFacts ==
    ASSUME NEW call \in AllCalls, NEW pc \in Pcs, NEW s \in Sessions, NEW w \in 0 .. MaxWorkers,
           NEW g \in 0 .. MaxDirs
    PROVE  LET x == InCall(call, pc, s, w, g)
           IN /\ x \in ClientState
              /\ x.call = call /\ x.pc = pc /\ x.s = s /\ x.w = w /\ x.g = g /\ x.old = 0
BY Bounds DEF InCall, ClientState, Sessions

LEMMA SomePcs ==
    {"idle", "spawn", "lock", "publish", "close", "unlock", "rmtree", "lookup", "marker", "run",
     "fresh", "note", "save", "reap_close", "reap_mark", "reap_unlock", "verify", "pop", "aside",
     "swap_in", "identify"} \subseteq Pcs
BY DEF Pcs

----------------------------------------------------------------------------
(* What a step of thread c must respect for each part of the invariant.    *)

LEMMA CallStays ==
    ASSUME IInv, NEW c \in Clients, Others(c), CallOK(client'[c], used'), used' \in Nat, used <= used'
    PROVE  CallInv'
<1>1. used \in Nat  BY Bounds DEF IInv, Typed
<1>2. \A d \in Clients : CallOK(client[d], used) => CallOK(client[d], used')
  BY <1>1 DEF CallOK
<1>3. QED  BY <1>2 DEF IInv, CallInv, Others

LEMMA SessionOf ==
    ASSUME IInv, NEW c \in Clients, client[c].pc # "idle"
    PROVE  client[c].s \in Sessions /\ client[c].s \in 1 .. used /\ client[c].s # 0
<1>1. client[c].s \in 1 .. used  BY DEF IInv, CallInv, CallOK
<1>2. used \in 0 .. MaxSessions  BY DEF IInv, Typed
<1>3. QED  BY <1>1, <1>2, Bounds

LEMMA WorkspaceStays ==
    ASSUME IInv, NEW c \in Clients, Others(c), UNCHANGED <<dir, used>>,
           removed \cup mislaid \subseteq removed' \cup mislaid',
           client[c].pc = "swap_in" => client'[c].pc = "swap_in" /\ client'[c].s = client[c].s
    PROVE  NeverWithoutWorkspace'
<1>1. SUFFICES ASSUME NEW s \in 1 .. used, dir[s] = 0, s \notin removed \cup mislaid
               PROVE  \E d \in Clients : client'[d].s = s /\ client'[d].pc = "swap_in"
  BY DEF NeverWithoutWorkspace
<1>2. PICK d \in Clients : client[d].s = s /\ client[d].pc = "swap_in"
  BY <1>1 DEF IInv, NeverWithoutWorkspace
<1>3. QED  BY <1>2 DEF Others

\* A call becomes one that makes or takes a worker only where no other is.
LEMMA OwnerStays ==
    ASSUME IInv, NEW c \in Clients, Others(c), contended \subseteq contended',
           used' \in Nat, used <= used',
           \A s \in Sessions : worker'[s] \in {0, worker[s]},
           client'[c].pc \in ActivePcs =>
              \/ client[c].pc \in ActivePcs /\ client'[c].s = client[c].s
              \/ client'[c].s \in contended'
              \/ /\ worker'[client'[c].s] = 0
                 /\ \A d \in Clients \ {c} : client[d].pc \in ActivePcs => client[d].s # client'[c].s
    PROVE  OwnerInv'
<1>1. \A d \in Clients : client[d].pc \in ActivePcs => client[d].s \in Sessions
  BY SessionOf DEF ActivePcs
<1>2. \A s \in Sessions : s > used' => worker'[s] = 0
  <2>1. used \in Nat  BY Bounds DEF IInv, Typed
  <2>2. QED  BY <2>1, Bounds DEF IInv, OwnerInv
<1>3. \A d \in Clients : client'[d].pc \in ActivePcs /\ client'[d].s \notin contended' =>
          worker'[client'[d].s] = 0
  BY <1>1 DEF IInv, OwnerInv, Others
<1>4. ASSUME NEW a \in Clients, NEW b \in Clients, client'[a].pc \in ActivePcs,
             client'[b].pc \in ActivePcs, client'[a].s = client'[b].s, client'[a].s \notin contended',
             a # b
      PROVE  FALSE
  BY <1>4 DEF IInv, OwnerInv, Others
<1>5. QED  BY <1>2, <1>3, <1>4 DEF OwnerInv

LEMMA HomeStays ==
    ASSUME IInv, NEW c \in Clients, Others(c), spawned' \in Nat, spawned <= spawned',
           \A w \in WorkerIds : w <= spawned => home'[w] = home[w],
           \A s \in Sessions : worker'[s] \in {0, worker[s]},
           client'[c].pc \in HoldPcs =>
              \/ client[c].pc \in HoldPcs /\ client'[c].w = client[c].w /\ client'[c].s = client[c].s
              \/ /\ client'[c].w # 0 /\ client'[c].w <= spawned' /\ home'[client'[c].w] = client'[c].s
    PROVE  HomeInv'
<1>1. /\ spawned \in Nat
      /\ \A s \in Sessions : worker[s] \in Nat /\ (worker[s] # 0 => worker[s] \in WorkerIds)
      /\ \A d \in Clients : client[d].w \in Nat /\ (client[d].w # 0 => client[d].w \in WorkerIds)
  <2>1. spawned \in 0 .. MaxWorkers /\ (\A s \in Sessions : worker[s] \in 0 .. MaxWorkers)
    BY DEF IInv, Typed
  <2>2. \A d \in Clients : client[d].w \in 0 .. MaxWorkers
    BY DEF IInv, Typed, ClientState
  <2>3. \A w \in 0 .. MaxWorkers : w \in Nat /\ (w # 0 => w \in WorkerIds)
    BY Bounds
  <2>4. QED  BY <2>1, <2>2, <2>3
<1>2. \A s \in Sessions : worker'[s] # 0 => worker'[s] <= spawned' /\ home'[worker'[s]] = s
  BY <1>1 DEF IInv, HomeInv
<1>3. \A d \in Clients : client[d].pc \in HoldPcs =>
          client[d].w # 0 /\ client[d].w <= spawned' /\ home'[client[d].w] = client[d].s
  BY <1>1 DEF IInv, HomeInv
<1>4. QED  BY <1>2, <1>3 DEF HomeInv, Others

\* A worker leaves the table for a call's hands, and those for the table or death.
LEMMA KeptStays ==
    ASSUME IInv, NEW c \in Clients, Others(c), contended \subseteq contended',
           \A w \in WorkerIds : proc'[w] = "live" =>
              \/ proc[w] = "live" /\ home'[w] = home[w]
              \/ client'[c].w = w /\ client'[c].pc \in HoldPcs,
           \A s \in Sessions : worker[s] # 0 =>
              \/ worker'[s] = worker[s]
              \/ client'[c].w = worker[s] /\ client'[c].pc \in HoldPcs
              \/ s \in contended',
           client[c].pc \in HoldPcs =>
              \/ client'[c].pc \in HoldPcs /\ client'[c].w = client[c].w
              \/ proc'[client[c].w] # "live"
              \/ \E s \in Sessions : worker'[s] = client[c].w
    PROVE  KeptInv'
<1>1. SUFFICES ASSUME NEW w \in WorkerIds, proc'[w] = "live", home'[w] \notin contended',
                      ~(client'[c].w = w /\ client'[c].pc \in HoldPcs)
               PROVE  Kept(w)'
  BY DEF KeptInv, Kept
<1>2. Kept(w) /\ home[w] \notin contended' /\ w # 0
  BY <1>1, Bounds DEF IInv, KeptInv
<1>3. CASE \E s \in Sessions : worker[s] = w
  <2>1. PICK s \in Sessions : worker[s] = w  BY <1>3
  <2>2. home[w] = s  BY <1>2, <2>1 DEF IInv, HomeInv
  <2>3. worker'[s] = w  BY <1>1, <1>2, <2>1, <2>2
  <2>4. QED  BY <2>3 DEF Kept
<1>4. CASE \E d \in Clients : client[d].w = w /\ client[d].pc \in HoldPcs
  BY <1>1, <1>4 DEF Kept, Others
<1>5. QED  BY <1>2, <1>3, <1>4 DEF Kept

LEMMA DirTypes ==
    ASSUME IInv
    PROVE  /\ dirs \in Nat /\ used \in Nat
           /\ \A s \in Sessions : dir[s] \in Nat /\ eligible[s] \in Nat /\ dir[s] <= dirs /\ eligible[s] <= dirs
           /\ \A c \in Clients : client[c].g \in Nat /\ client[c].old \in Nat
BY Bounds DEF IInv, Typed, DirInv, ClientState

\* Directories only go, and cleanup and time only mark what is there.
Shrinks ==
    /\ \A s \in Sessions : dir'[s] \in {0, dir[s]} /\ eligible'[s] \in {0, eligible[s], dir[s]}
    /\ \A g \in aged' : g \in aged \/ (g # 0 /\ \E s \in Sessions : dir[s] = g)
    /\ dirs' \in Nat /\ dirs <= dirs'

LEMMA DirStays ==
    ASSUME IInv, Shrinks, used' = used
    PROVE  DirInv'
<1>1. \A s \in Sessions : s > used => dir'[s] = 0 /\ eligible'[s] = 0
  BY DEF IInv, DirInv, Shrinks
<1>2. \A s, t \in Sessions : dir'[s] = dir'[t] /\ dir'[s] # 0 => s = t
  BY DEF IInv, DirInv, Shrinks
<1>3. \A s \in Sessions : dir'[s] <= dirs' /\ eligible'[s] <= dirs'
  BY DirTypes DEF Shrinks
<1>4. ASSUME NEW g \in aged'  PROVE g \in 1 .. dirs'
  <2>1. g \in 1 .. dirs
    <3>1. aged \subseteq 1 .. dirs  BY DEF IInv, DirInv
    <3>2. CASE g \in aged  BY <3>1, <3>2
    <3>3. CASE g # 0 /\ \E s \in Sessions : dir[s] = g  BY <3>3, DirTypes
    <3>4. QED  BY <1>4, <3>2, <3>3 DEF Shrinks
  <2>2. QED  BY <2>1, DirTypes DEF Shrinks
<1>5. QED  BY <1>1, <1>2, <1>3, <1>4 DEF DirInv

LEMMA NewStays ==
    ASSUME IInv, NEW c \in Clients, Others(c), Shrinks,
           Extracted(client'[c]) =>
              \/ Extracted(client[c]) /\ client'[c].g = client[c].g
              \/ client'[c].g = dirs + 1 /\ dirs' = dirs + 1
    PROVE  NewInv'
<1>1. ASSUME NEW d \in Clients, Extracted(client'[d])
      PROVE  /\ client'[d].g <= dirs' /\ client'[d].g \notin aged'
             /\ \A s \in Sessions : dir'[s] # client'[d].g /\ eligible'[s] # client'[d].g
  <2>1. CASE Extracted(client[d]) /\ client'[d].g = client[d].g
    <3>1. client[d].g <= dirs' /\ client[d].g # 0
      BY <2>1, DirTypes DEF IInv, NewInv, Shrinks, CallInv, CallOK
    <3>2. client[d].g \notin aged'
      BY <2>1 DEF IInv, NewInv, Shrinks
    <3>3. \A s \in Sessions : dir'[s] # client[d].g /\ eligible'[s] # client[d].g
      BY <2>1, <3>1 DEF IInv, NewInv, Shrinks
    <3>4. QED  BY <2>1, <3>1, <3>2, <3>3
  <2>2. CASE client'[d].g = dirs + 1 /\ dirs' = dirs + 1
    <3>1. ASSUME NEW g \in aged'  PROVE g <= dirs
      <4>1. aged \subseteq 1 .. dirs  BY DEF IInv, DirInv
      <4>2. CASE g \in aged
        <5>1. g \in 1 .. dirs  BY <4>1, <4>2
        <5>2. QED  BY <5>1, DirTypes
      <4>3. CASE \E s \in Sessions : dir[s] = g  BY <4>3, DirTypes
      <4>4. QED  BY <3>1, <4>2, <4>3 DEF Shrinks
    <3>2. QED  BY <2>2, <3>1, DirTypes DEF Shrinks
  <2>3. QED  BY <1>1, <2>1, <2>2 DEF Others
<1>2. ASSUME NEW a \in Clients, NEW b \in Clients, Extracted(client'[a]), Extracted(client'[b]),
             client'[a].g = client'[b].g, a # b
      PROVE  FALSE
  <2>1. \A d \in Clients : Extracted(client[d]) => client[d].g # dirs + 1
    BY DirTypes DEF IInv, NewInv
  <2>2. QED  BY <1>2, <2>1 DEF IInv, NewInv, Others
<1>3. QED  BY <1>1, <1>2 DEF NewInv

LEMMA OldStays ==
    ASSUME IInv, NEW c \in Clients, Others(c), Shrinks,
           Extracted(client'[c]) =>
              \/ Extracted(client[c]) /\ client'[c].g = client[c].g
              \/ client'[c].g = dirs + 1 /\ dirs' = dirs + 1,
           client'[c].pc = "swap_in" => client[c].pc = "swap_in" /\ client'[c].old = client[c].old
    PROVE  OldInv'
<1>1. \A d \in Clients : client'[d].pc = "swap_in" => client[d].pc = "swap_in" /\ client'[d].old = client[d].old
  BY DEF Others
<1>2. \A d \in Clients : Extracted(client'[d]) =>
          \/ Extracted(client[d]) /\ client'[d].g = client[d].g
          \/ client'[d].g = dirs + 1
  BY DEF Others
<1>3. ASSUME NEW d \in Clients, client[d].pc = "swap_in"
      PROVE  /\ client[d].old <= dirs' /\ client[d].old # dirs + 1
             /\ \A s \in Sessions : dir'[s] # client[d].old
  BY <1>3, DirTypes DEF IInv, OldInv, CallInv, CallOK, Shrinks
<1>4. \A d, e \in Clients : client'[d].pc = "swap_in" /\ Extracted(client'[e]) =>
          client'[e].g # client'[d].old
  BY <1>1, <1>2, <1>3 DEF IInv, OldInv
<1>5. QED  BY <1>1, <1>3, <1>4 DEF IInv, OldInv

LEMMA TableStays ==
    ASSUME IInv, contended \subseteq contended', unguarded \subseteq unguarded',
           locked \subseteq locked',
           \A s \in Sessions : /\ worker'[s] \in {0, worker[s]}
                               /\ dir'[s] \in {0, dir[s]} /\ eligible'[s] \in {0, eligible[s]}
    PROVE  TableLocked'
BY DEF IInv, LockedInv, TableLocked

LEMMA FreshStays ==
    ASSUME IInv, NEW c \in Clients, Others(c),
           contended \subseteq contended', unguarded \subseteq unguarded',
           locked \subseteq locked', aged' \subseteq aged,
           \A s \in Sessions : dir'[s] \in {0, dir[s]} /\ eligible'[s] \in {0, eligible[s]},
           client'[c].pc \in FreshPcs =>
              /\ client[c].pc \in FreshPcs /\ client'[c].s = client[c].s
              /\ client'[c].pc = "publish" => client[c].pc = "publish"
    PROVE  FreshLocked'
<1>1. \A d \in Clients : client'[d].pc \in FreshPcs =>
          /\ client[d].pc \in FreshPcs /\ client'[d].s = client[d].s
          /\ client'[d].pc = "publish" => client[d].pc = "publish"
          /\ client[d].s \in Sessions
  BY SessionOf DEF Others, FreshPcs
<1>2. QED  BY <1>1 DEF IInv, LockedInv, FreshLocked

\* A thread moves on and nothing is won by it.
Moves(c) ==
    LET x == client'[c]
        y == client[c]
    IN /\ x.pc \in ActivePcs => y.pc \in ActivePcs /\ x.s = y.s
       /\ x.pc \in FreshPcs => y.pc \in FreshPcs /\ x.s = y.s
       /\ Extracted(x) => Extracted(y) /\ x.g = y.g
       /\ x.pc = "swap_in" => y.pc = "swap_in" /\ x.old = y.old
       /\ x.pc \in HoldPcs => y.pc \in HoldPcs /\ x.w = y.w /\ x.s = y.s

\* A step that changes neither the tables nor the directories.
LEMMA QuietStep ==
    ASSUME IInv, NEW c \in Clients, client' \in [Clients -> ClientState], Others(c), Moves(c),
           CallOK(client'[c], used),
           UNCHANGED <<worker, identity, proc, dir, eligible, used, dirs, spawned, home, contended>>,
           aged' \subseteq aged, locked \subseteq locked', unguarded \subseteq unguarded',
           removed \subseteq removed', mislaid \subseteq mislaid',
           client[c].pc \notin {"swap_in"} \cup HoldPcs, client'[c].pc # "publish"
    PROVE  IInv'
<1>1. Typed'
  BY DEF IInv, Typed
<1>2. /\ used' \in Nat /\ used <= used' /\ dirs' \in Nat /\ dirs <= dirs'
      /\ spawned' \in Nat /\ spawned <= spawned'
  BY Bounds DEF IInv, Typed
<1>3. Shrinks
  BY <1>2 DEF Shrinks
<1>4. CallInv' /\ NeverWithoutWorkspace'
  BY <1>2, CallStays, WorkspaceStays
<1>5. OwnerInv' /\ HomeInv' /\ KeptInv'
  BY <1>2, OwnerStays, HomeStays, KeptStays DEF Moves
<1>6. DirInv' /\ NewInv' /\ OldInv'
  BY <1>3, DirStays, NewStays, OldStays DEF Moves
<1>7. LockedInv'
  BY TableStays, FreshStays DEF Moves, LockedInv
<1>8. QED  BY <1>1, <1>4, <1>5, <1>6, <1>7 DEF IInv

----------------------------------------------------------------------------
(* Steps that only move a thread.                                          *)

\* A call on session s begins.
LEMMA QuietBegins ==
    ASSUME IInv, NEW c \in Clients, NEW call \in AllCalls, NEW pc \in Pcs, NEW s \in Sessions,
           client[c] = Idle, s \in 1 .. used, pc \in {"note", "lookup"},
           client' = [client EXCEPT ![c] = InCall(call, pc, s, 0, 0)],
           UNCHANGED <<table, proc, disk, eligible, counts, history>>
    PROVE  IInv'
<1> DEFINE x == InCall(call, pc, s, 0, 0)
<1>1. x \in ClientState /\ x.call = call /\ x.pc = pc /\ x.s = s
  <2>1. 0 \in 0 .. MaxWorkers /\ 0 \in 0 .. MaxDirs  BY Bounds
  <2>2. QED  BY <2>1, InCallFacts
<1>2. client' \in [Clients -> ClientState] /\ Others(c) /\ client'[c] = x
  <2> HIDE DEF x
  <2>1. client' = [client EXCEPT ![c] = x]  BY DEF x
  <2>2. QED  BY <1>1, <2>1, SetFacts DEF IInv
<1> HIDE DEF x
<1>3. Moves(c) /\ CallOK(client'[c], used)
  BY <1>1, <1>2 DEF Moves, CallOK, ActivePcs, FreshPcs, HoldPcs, Extracted
<1>4. client[c].pc \notin {"swap_in"} \cup HoldPcs /\ client'[c].pc # "publish"
  BY <1>1, <1>2, IdleFacts DEF HoldPcs
<1>5. QED  BY <1>2, <1>3, <1>4, QuietStep DEF table, disk, counts, history, mishaps

\* A call goes on, or returns, without touching a table or a directory.
LEMMA QuietGoes ==
    ASSUME IInv, NEW c \in Clients, NEW pc \in Pcs, Goto(c, pc) \/ Return(c),
           client[c].pc \notin {"swap_in"} \cup HoldPcs,
           \/ pc \in {"note", "save", "fresh"}
           \/ pc = "reap_unlock" /\ client[c].pc = "reap_mark"
           \/ pc = "verify" /\ client[c].call = "restore" /\ client[c].pc = "note",
           client[c].pc # "idle",
           UNCHANGED <<worker, identity, proc, dir, eligible, used, dirs, spawned, home, contended>>,
           aged' \subseteq aged, locked \subseteq locked', unguarded \subseteq unguarded',
           removed \subseteq removed', mislaid \subseteq mislaid'
    PROVE  IInv'
<1>1. CallOK(client[c], used)
  BY DEF IInv, CallInv
<1>3. CASE Goto(c, pc)
  <2>1. /\ client' \in [Clients -> ClientState] /\ Others(c)
        /\ client'[c].pc = pc /\ client'[c].call = client[c].call /\ client'[c].s = client[c].s
    BY <1>3, GotoFacts DEF IInv
  <2>2. Moves(c) /\ CallOK(client'[c], used) /\ client'[c].pc # "publish"
    BY <1>1, <2>1 DEF Moves, CallOK, ActivePcs, FreshPcs, HoldPcs, Extracted
  <2>3. QED  BY <2>1, <2>2, QuietStep
<1>4. CASE Return(c)
  <2>1. client' \in [Clients -> ClientState] /\ Others(c) /\ client'[c] = Idle
    BY <1>4, ReturnFacts DEF IInv
  <2>2. Moves(c) /\ CallOK(client'[c], used) /\ client'[c].pc # "publish"
    BY <2>1, IdleFacts DEF Moves, ActivePcs, FreshPcs, HoldPcs
  <2>3. QED  BY <2>1, <2>2, QuietStep
<1>5. QED  BY <1>3, <1>4

LEMMA WriteMarkerKeeps == ASSUME IInv, NEW c \in Clients, WriteMarker(c)  PROVE IInv'
<1>1. /\ Goto(c, "reap_unlock") /\ client[c].pc = "reap_mark"
      /\ UNCHANGED <<worker, identity, proc, dir, eligible, used, dirs, spawned, home, contended>>
      /\ UNCHANGED <<locked, unguarded, removed, mislaid>> /\ aged' \subseteq aged
  BY DEF WriteMarker, At, Modified, table, counts, history, mishaps
<1>2. QED  BY <1>1, QuietGoes, SomePcs DEF HoldPcs

LEMMA NoteKeeps == ASSUME IInv, NEW c \in Clients, Note(c)  PROVE IInv'
<1>1. /\ client[c].pc = "note"
      /\ UNCHANGED <<worker, identity, proc, dir, eligible, used, dirs, spawned, home, contended>>
      /\ UNCHANGED <<locked, aged, unguarded, removed, mislaid>>
  BY DEF Note, At, disk, counts, history, mishaps
<1>2. \/ Goto(c, "save") \/ Return(c)
      \/ Goto(c, "verify") /\ client[c].call = "restore"
  BY DEF Note
<1>3. QED  BY <1>1, <1>2, QuietGoes, SomePcs DEF HoldPcs

LEMMA CheckMarkerKeeps == ASSUME IInv, NEW c \in Clients, CheckMarker(c)  PROVE IInv'
<1>1. /\ client[c].pc = "marker"
      /\ UNCHANGED <<worker, identity, proc, dir, eligible, used, dirs, spawned, home, contended>>
      /\ UNCHANGED <<locked, aged, unguarded, removed, mislaid>>
  BY DEF CheckMarker, At, table, disk, counts, history, mishaps
<1>2. Return(c) \/ Goto(c, "fresh")
  BY DEF CheckMarker
<1>3. QED  BY <1>1, <1>2, QuietGoes, SomePcs DEF HoldPcs

LEMMA RunFreshKeeps == ASSUME IInv, NEW c \in Clients, RunFresh(c)  PROVE IInv'
<1>1. /\ client[c].pc = "fresh" /\ Return(c)
      /\ UNCHANGED <<worker, identity, proc, dir, eligible, used, dirs, spawned, home, contended>>
      /\ UNCHANGED <<locked, aged, unguarded, removed, mislaid>>
  BY DEF RunFresh, At, table, disk, counts, history, mishaps
<1>2. QED  BY <1>1, QuietGoes, SomePcs DEF HoldPcs

LEMMA SaveKeeps == ASSUME IInv, NEW c \in Clients, Save(c)  PROVE IInv'
<1>1. /\ client[c].pc = "save" /\ Return(c)
      /\ UNCHANGED <<worker, identity, proc, dir, eligible, used, dirs, spawned, home, contended>>
      /\ UNCHANGED <<locked, aged, unguarded, removed, mislaid>>
  BY DEF Save, At, table, counts, history, mishaps
<1>2. QED  BY <1>1, QuietGoes, SomePcs DEF HoldPcs

LEMMA ExecuteBeginsKeeps ==
    ASSUME IInv, NEW c \in Clients, NEW s \in Sessions, ExecuteBegins(c, s)
    PROVE  IInv'
<1>1. client[c] = Idle /\ s \in 1 .. used /\ "execute" \in AllCalls
  BY DEF ExecuteBegins, CanCall, AllCalls
<1>2. QED  BY <1>1, QuietBegins, SomePcs DEF ExecuteBegins

\* The worker a run uses stays in the table.
LEMMA FindWorkerKeeps ==
    ASSUME IInv, NEW c \in Clients, client[c].pc = "lookup", FindWorker(c, client[c].s)
    PROVE  IInv'
<1>1. CallOK(client[c], used)
  BY DEF IInv, CallInv
<1> DEFINE s == client[c].s
<1> DEFINE pc == IF worker[s] # 0 THEN "run" ELSE "marker"
<1>2. s \in Sessions /\ worker[s] \in 0 .. MaxWorkers /\ pc \in Pcs /\ pc \in {"run", "marker"}
  BY SessionOf, SomePcs DEF IInv, Typed
<1>3. /\ client' \in [Clients -> ClientState] /\ Others(c)
      /\ client'[c].pc = pc /\ client'[c].call = client[c].call /\ client'[c].s = client[c].s
  <2>1. client' = [client EXCEPT ![c].pc = pc, ![c].w = worker[s]]
    BY DEF FindWorker
  <2> HIDE DEF s, pc
  <2>2. QED  BY <1>2, <2>1 DEF IInv, Typed, ClientState, Others
<1>4. Moves(c) /\ CallOK(client'[c], used) /\ client'[c].pc # "publish"
  BY <1>1, <1>2, <1>3 DEF Moves, CallOK, ActivePcs, FreshPcs, HoldPcs, Extracted
<1>5. client[c].pc \notin {"swap_in"} \cup HoldPcs
  BY DEF HoldPcs
<1>6. QED  BY <1>3, <1>4, <1>5, QuietStep DEF FindWorker, table, disk, counts, history, mishaps

\* The worker a run asked is still in the table: only the call's note of it goes.
LEMMA HandFacts ==
    ASSUME IInv, NEW c \in Clients, NEW pc \in Pcs,
           client' = [client EXCEPT ![c].pc = pc, ![c].w = 0]
    PROVE  /\ client' \in [Clients -> ClientState] /\ Others(c)
           /\ client'[c].pc = pc /\ client'[c].call = client[c].call /\ client'[c].s = client[c].s
           /\ client'[c].w = 0 /\ client'[c].g = client[c].g /\ client'[c].old = client[c].old
<1>1. 0 \in 0 .. MaxWorkers  BY Bounds
<1>2. QED  BY <1>1 DEF IInv, Typed, ClientState, Others

----------------------------------------------------------------------------
(* start() and the tail of a restore.                                      *)

LEMMA MakeSessionKeeps ==
    ASSUME IInv, NEW c \in Clients, NEW call \in {"start", "restore_new"}, MakeSession(c, call)
    PROVE  IInv'
<1> DEFINE s == used + 1
<1> DEFINE g == dirs + 1
<1> DEFINE x == IF s \in Stateful THEN InCall(call, "spawn", s, 0, 0) ELSE Idle
<1>1. /\ client[c] = Idle
      /\ UNCHANGED <<worker, proc, aged, locked, eligible, spawned, home, contended>>
      /\ UNCHANGED <<unguarded, removed, mislaid>>
      /\ used' = s /\ dirs' = g /\ dir' = [dir EXCEPT ![s] = g]
      /\ identity' = [identity EXCEPT ![s] = g] /\ client' = [client EXCEPT ![c] = x]
      /\ used < MaxSessions /\ dirs < MaxDirs
  BY DEF MakeSession, history, mishaps
<1>2. /\ used \in Nat /\ dirs \in Nat /\ s \in Sessions /\ s \in Nat /\ g \in 0 .. MaxDirs /\ g # 0
      /\ s \in 0 .. MaxSessions /\ g \in Nat /\ used <= s
  BY <1>1, Bounds DEF IInv, Typed
<1>3. /\ x \in ClientState /\ CallOK(x, s) /\ x.pc \notin HoldPcs /\ x.pc # "swap_in" /\ ~Extracted(x)
      /\ x.pc # "publish"
      /\ x.pc \in ActivePcs \cup FreshPcs => x.s = s
  <2>1. CASE s \in Stateful
    <3>1. call \in AllCalls /\ "spawn" \in Pcs /\ 0 \in 0 .. MaxWorkers /\ 0 \in 0 .. MaxDirs
      BY Bounds, SomePcs DEF AllCalls
    <3>2. x \in ClientState /\ x.call = call /\ x.pc = "spawn" /\ x.s = s
      BY <1>2, <2>1, <3>1, InCallFacts
    <3>3. s \in 1 .. s  BY <1>2
    <3> HIDE DEF x, s
    <3>4. QED  BY <3>2, <3>3 DEF CallOK, HoldPcs, Extracted
  <2>2. CASE s \notin Stateful
    BY <2>2, IdleFacts DEF ActivePcs, FreshPcs, HoldPcs
  <2>3. QED  BY <2>1, <2>2
<1> HIDE DEF x, s, g
<1>4. client' \in [Clients -> ClientState] /\ Others(c) /\ client'[c] = x
  BY <1>1, <1>3, SetFacts DEF IInv
<1>5. /\ dir' \in [Sessions -> 0 .. MaxDirs] /\ dir'[s] = g
      /\ \A t \in Sessions : t # s => dir'[t] = dir[t]
  BY <1>1, <1>2 DEF IInv, Typed
<1>6. Typed'
  BY <1>1, <1>2, <1>4, <1>5 DEF IInv, Typed, g
<1>7. CallInv'
  BY <1>1, <1>2, <1>3, <1>4, CallStays
<1>8. NeverWithoutWorkspace'
  <2>1. SUFFICES ASSUME NEW t \in 1 .. s, dir'[t] = 0, t \notin removed \cup mislaid
                 PROVE  \E d \in Clients : client'[d].s = t /\ client'[d].pc = "swap_in"
    BY <1>1 DEF NeverWithoutWorkspace
  <2>2. t \in Sessions /\ t # s
    BY <1>2, <1>5, <2>1, Bounds
  <2>3. t \in 1 .. used /\ dir[t] = 0
    BY <1>2, <1>5, <2>1, <2>2 DEF s
  <2>4. PICK d \in Clients : client[d].s = t /\ client[d].pc = "swap_in"
    BY <2>1, <2>3 DEF IInv, NeverWithoutWorkspace
  <2>5. QED  BY <1>1, <1>4, <2>4, IdleFacts DEF Others
<1>9. \A d \in Clients : client[d].pc # "idle" => client[d].s # s
  <2>1. \A d \in Clients : client[d].pc # "idle" => client[d].s \in 1 .. used
    BY SessionOf
  <2>2. QED  BY <1>2, <2>1 DEF s
<1>10. worker[s] = 0 /\ eligible[s] = 0 /\ dir[s] = 0
  BY <1>2 DEF IInv, OwnerInv, DirInv, s, Sessions
<1>11. OwnerInv'
  <2>1. \A d \in Clients \ {c} : client[d].pc \in ActivePcs => client[d].s # s
    BY <1>9 DEF ActivePcs
  <2>2. QED  BY <1>1, <1>2, <1>3, <1>4, <1>10, <2>1, OwnerStays
<1>12. HomeInv' /\ KeptInv'
  <2>1. spawned' \in Nat /\ spawned <= spawned'  BY <1>1, Bounds DEF IInv, Typed
  <2>2. client[c].pc \notin HoldPcs  BY <1>1, IdleFacts DEF HoldPcs
  <2>3. HomeInv'  BY <1>1, <1>3, <1>4, <2>1, HomeStays
  <2>4. KeptInv'  BY <1>1, <1>4, <2>2, KeptStays
  <2>5. QED  BY <2>3, <2>4
<1>13. \A t \in Sessions : dir[t] \in Nat /\ eligible[t] \in Nat /\ dir[t] # g /\ eligible[t] # g
                           /\ dir[t] <= g /\ eligible[t] <= g
  <2>1. \A t \in Sessions : dir[t] \in Nat /\ eligible[t] \in Nat /\ dir[t] <= dirs /\ eligible[t] <= dirs
    BY DirTypes
  <2>2. \A n \in Nat : n <= dirs => n # g /\ n <= g  BY <1>2 DEF g
  <2>3. QED  BY <2>1, <2>2
<1>14. aged \subseteq 1 .. g /\ g \notin aged
  BY <1>2 DEF IInv, DirInv, g
<1>15. DirInv'
  <2>1. \A t \in Sessions : t > s => dir'[t] = 0 /\ eligible'[t] = 0
    BY <1>1, <1>2, <1>5 DEF IInv, DirInv, s, Sessions
  <2>2. \A t \in Sessions : dir'[t] <= g /\ eligible'[t] <= g
    BY <1>1, <1>2, <1>5, <1>13
  <2>3. \A t, u \in Sessions : dir'[t] = dir'[u] /\ dir'[t] # 0 => t = u
    BY <1>5, <1>13 DEF IInv, DirInv
  <2>4. QED  BY <1>1, <1>14, <2>1, <2>2, <2>3 DEF DirInv
<1>16. \A d \in Clients : /\ Extracted(client'[d]) => Extracted(client[d]) /\ client'[d].g = client[d].g
                          /\ client'[d].pc = "swap_in" => client[d].pc = "swap_in" /\ client'[d].old = client[d].old
  BY <1>3, <1>4 DEF Others
<1>17. NewInv'
  <2>1. \A d \in Clients : Extracted(client[d]) => client[d].g # g /\ client[d].g <= g
    BY <1>2, DirTypes DEF IInv, NewInv, g
  <2>2. \A d \in Clients : Extracted(client[d]) => \A t \in Sessions : dir'[t] # client[d].g
    BY <1>5, <2>1 DEF IInv, NewInv
  <2>3. QED  BY <1>1, <1>16, <2>1, <2>2 DEF IInv, NewInv
<1>18. OldInv'
  <2>1. \A d \in Clients : client[d].pc = "swap_in" => client[d].old # g /\ client[d].old <= g
    BY <1>2, DirTypes DEF IInv, OldInv, g
  <2>2. \A d \in Clients : client[d].pc = "swap_in" => \A t \in Sessions : dir'[t] # client[d].old
    BY <1>5, <2>1 DEF IInv, OldInv
  <2>3. QED  BY <1>1, <1>16, <2>1, <2>2 DEF IInv, OldInv
<1>19. TableLocked'
  BY <1>1, <1>5, <1>10 DEF IInv, LockedInv, TableLocked
<1>20. FreshLocked'
  <2>1. ASSUME NEW d \in Clients, client'[d].pc \in FreshPcs, dir'[client'[d].s] # 0,
               client'[d].s \notin contended
        PROVE  /\ dir'[client'[d].s] \notin aged'
               /\ eligible'[client'[d].s] # dir'[client'[d].s]
               /\ client'[d].pc = "publish" /\ client'[d].s \notin unguarded => dir'[client'[d].s] \in locked'
    <3>1. CASE d = c
      BY <1>1, <1>2, <1>3, <1>4, <1>5, <1>13, <1>14, <2>1, <3>1
    <3>2. CASE d # c
      <4>1. client'[d] = client[d]  BY <1>4, <3>2 DEF Others
      <4>2. client[d].s \in Sessions /\ client[d].s # s
        BY <1>9, <2>1, <4>1, SessionOf DEF FreshPcs
      <4>3. dir'[client[d].s] = dir[client[d].s]  BY <1>5, <4>2
      <4>4. QED  BY <1>1, <2>1, <4>1, <4>3 DEF IInv, LockedInv, FreshLocked
    <3>3. QED  BY <3>1, <3>2
  <2>2. QED  BY <1>1, <2>1 DEF FreshLocked
<1>21. QED  BY <1>6, <1>7, <1>8, <1>11, <1>12, <1>15, <1>17, <1>18, <1>19, <1>20 DEF IInv, LockedInv

LEMMA SpawnKeeps == ASSUME IInv, NEW c \in Clients, Spawn(c)  PROVE IInv'
<1>1. /\ client[c].pc = "spawn"
      /\ UNCHANGED <<worker, identity, dir, eligible, used, dirs, aged, locked>>
      /\ UNCHANGED <<contended, unguarded, removed, mislaid>>
  BY DEF Spawn, At, table, disk, mishaps
<1>2. CallOK(client[c], used)
  BY DEF IInv, CallInv
<1>3. CASE Return(c) /\ UNCHANGED <<spawned, proc, home>>
  BY <1>1, <1>3, QuietGoes, SomePcs DEF HoldPcs
<1>4. CASE /\ spawned < MaxWorkers /\ spawned' = spawned + 1
           /\ proc' = [proc EXCEPT ![spawned + 1] = "live"]
           /\ home' = [home EXCEPT ![spawned + 1] = client[c].s]
           /\ client' = [client EXCEPT ![c].pc = "lock", ![c].w = spawned + 1]
  <2>1. /\ spawned + 1 \in WorkerIds /\ spawned + 1 \in 0 .. MaxWorkers /\ spawned \in Nat
        /\ spawned' \in Nat /\ spawned <= spawned'
    BY <1>4, Bounds DEF IInv, Typed
  <2>2. /\ client' \in [Clients -> ClientState] /\ Others(c)
        /\ client'[c].pc = "lock" /\ client'[c].call = client[c].call /\ client'[c].s = client[c].s
        /\ client'[c].w = spawned + 1
    BY <1>4, <2>1, SomePcs DEF IInv, Typed, ClientState, Others
  <2>3. client[c].s \in Sessions /\ client[c].s \in 0 .. MaxSessions
    BY <1>1, SessionOf, Bounds
  <2>4. /\ home' \in [WorkerIds -> 0 .. MaxSessions] /\ home'[spawned + 1] = client[c].s
        /\ \A w \in WorkerIds : w # spawned + 1 => home'[w] = home[w] /\ proc'[w] = proc[w]
    BY <1>4, <2>1, <2>3 DEF IInv, Typed
  <2>5. Typed'
    BY <1>1, <1>4, <2>1, <2>2, <2>4 DEF IInv, Typed
  <2>6. CallOK(client'[c], used') /\ used' \in Nat /\ used <= used'
    BY <1>1, <1>2, <2>2, DirTypes DEF CallOK, Extracted
  <2>7. CallInv' /\ NeverWithoutWorkspace'
    BY <1>1, <2>2, <2>6, CallStays, WorkspaceStays
  <2>8. OwnerInv'
    BY <1>1, <2>2, <2>6, OwnerStays DEF ActivePcs
  <2>9. HomeInv'
    <3>1. \A w \in WorkerIds : w <= spawned => home'[w] = home[w]
      BY <2>1, <2>4
    <3>2. client'[c].w # 0 /\ client'[c].w <= spawned' /\ home'[client'[c].w] = client'[c].s
      BY <1>4, <2>1, <2>2, <2>4
    <3>3. QED  BY <1>1, <2>1, <2>2, <3>1, <3>2, HomeStays
  <2>10. KeptInv'
    BY <1>1, <2>2, <2>4, KeptStays DEF HoldPcs
  <2>11. ~Extracted(client'[c])
    BY <2>2 DEF Extracted
  <2>12. Shrinks
    BY <1>1, DirTypes DEF Shrinks
  <2>13. DirInv' /\ NewInv' /\ OldInv'
    BY <1>1, <2>2, <2>11, <2>12, DirStays, NewStays, OldStays
  <2>14. LockedInv'
    BY <1>1, <2>2, TableStays, FreshStays DEF FreshPcs, LockedInv
  <2>15. QED  BY <2>5, <2>7, <2>8, <2>9, <2>10, <2>13, <2>14 DEF IInv
<1>5. QED  BY <1>3, <1>4 DEF Spawn

LEMMA WriteLockKeeps == ASSUME IInv, NEW c \in Clients, WriteLock(c)  PROVE IInv'
<1> DEFINE s == client[c].s
<1>1. /\ client[c].pc = "lock" /\ Goto(c, "publish")
      /\ UNCHANGED <<worker, identity, proc, dir, eligible, used, dirs, spawned>>
      /\ UNCHANGED <<home, contended, removed, mislaid>>
      /\ aged' \subseteq aged /\ locked \subseteq locked'
      /\ \/ s \in unguarded' /\ unguarded \subseteq unguarded'
         \/ dir[s] \in locked' /\ unguarded' = unguarded \ {s}
  BY DEF WriteLock, At, Modified, table, counts
<1> HIDE DEF s
<1>2. /\ client' \in [Clients -> ClientState] /\ Others(c)
      /\ client'[c].pc = "publish" /\ client'[c].call = client[c].call /\ client'[c].s = client[c].s
      /\ client'[c].w = client[c].w
  BY <1>1, GotoFacts, SomePcs DEF IInv
<1>4. CallOK(client[c], used)  BY DEF IInv, CallInv
<1>5. Typed'
  BY <1>1, <1>2 DEF IInv, Typed
<1>6. CallOK(client'[c], used') /\ used' \in Nat /\ used <= used'
  BY <1>1, <1>2, <1>4, DirTypes DEF CallOK, Extracted
<1>7. CallInv' /\ NeverWithoutWorkspace'
  BY <1>1, <1>2, <1>6, CallStays, WorkspaceStays
<1>8. OwnerInv'
  BY <1>1, <1>2, <1>6, OwnerStays DEF ActivePcs
<1>9. HomeInv' /\ KeptInv'
  <2>1. spawned' \in Nat /\ spawned <= spawned'  BY <1>1, Bounds DEF IInv, Typed
  <2>2. HomeInv'  BY <1>1, <1>2, <2>1, HomeStays DEF HoldPcs
  <2>3. KeptInv'  BY <1>1, <1>2, KeptStays DEF HoldPcs
  <2>4. QED  BY <2>2, <2>3
<1>10. DirInv' /\ NewInv' /\ OldInv'
  <2>1. ~Extracted(client'[c])  BY <1>2 DEF Extracted
  <2>2. Shrinks  BY <1>1, DirTypes DEF Shrinks
  <2>3. QED  BY <1>1, <1>2, <2>1, <2>2, DirStays, NewStays, OldStays
<1>11. TableLocked'
  <2>1. ASSUME NEW t \in Sessions, worker[t] # 0, dir[t] # 0, t \notin contended \cup unguarded'
        PROVE  dir[t] \in locked' /\ eligible[t] # dir[t]
    <3>1. CASE t = s
      <4>1. t \in contended  BY <1>1, <2>1, <3>1 DEF IInv, OwnerInv, ActivePcs, s
      <4>2. QED  BY <2>1, <4>1
    <3>2. CASE t # s
      BY <1>1, <2>1, <3>2 DEF IInv, LockedInv, TableLocked
    <3>3. QED  BY <3>1, <3>2
  <2>2. QED  BY <1>1, <2>1 DEF TableLocked
<1>12. FreshLocked'
  <2>1. ASSUME NEW d \in Clients, client'[d].pc \in FreshPcs, dir[client[d].s] # 0,
               client[d].s \notin contended
        PROVE  /\ dir[client[d].s] \notin aged' /\ eligible[client[d].s] # dir[client[d].s]
               /\ client'[d].pc = "publish" /\ client[d].s \notin unguarded' => dir[client[d].s] \in locked'
    <3>1. CASE d = c
      BY <1>1, <1>2, <2>1, <3>1 DEF IInv, LockedInv, FreshLocked, FreshPcs, s
    <3>2. CASE d # c
      <4>1. client'[d] = client[d]  BY <1>2, <3>2 DEF Others
      <4>2. client[d].s # s
        BY <1>1, <2>1, <3>2, <4>1 DEF IInv, OwnerInv, FreshPcs, ActivePcs, s
      <4>3. QED  BY <1>1, <2>1, <4>1, <4>2 DEF IInv, LockedInv, FreshLocked
    <3>3. QED  BY <3>1, <3>2
  <2>2. \A d \in Clients : client'[d].s = client[d].s  BY <1>2 DEF Others
  <2>3. QED  BY <1>1, <2>1, <2>2 DEF FreshLocked
<1>13. QED  BY <1>5, <1>7, <1>8, <1>9, <1>10, <1>11, <1>12 DEF IInv, LockedInv

LEMMA PublishKeeps == ASSUME IInv, NEW c \in Clients, Publish(c)  PROVE IInv'
<1> DEFINE s == client[c].s
<1>1. /\ client[c].pc = "publish" /\ Return(c)
      /\ worker' = [worker EXCEPT ![s] = client[c].w]
      /\ UNCHANGED <<identity, proc, dir, eligible, used, dirs, spawned, aged, locked>>
      /\ UNCHANGED <<home, contended, unguarded, removed, mislaid>>
  BY DEF Publish, At, disk, counts, history, mishaps
<1> HIDE DEF s
<1>2. client' \in [Clients -> ClientState] /\ Others(c) /\ client'[c] = Idle
  BY <1>1, ReturnFacts DEF IInv
<1>3. s \in Sessions /\ s \in 1 .. used  BY <1>1, SessionOf DEF s
<1>4. /\ client[c].w # 0 /\ client[c].w <= spawned /\ home[client[c].w] = s
      /\ client[c].w \in 0 .. MaxWorkers
  BY <1>1 DEF IInv, Typed, ClientState, HomeInv, HoldPcs, s
<1>5. /\ worker' \in [Sessions -> 0 .. MaxWorkers] /\ worker'[s] = client[c].w
      /\ \A t \in Sessions : t # s => worker'[t] = worker[t]
  BY <1>1, <1>3, <1>4 DEF IInv, Typed
<1>6. Typed'
  BY <1>1, <1>2, <1>5 DEF IInv, Typed
<1>7. CallInv' /\ NeverWithoutWorkspace'
  <2>1. used' \in Nat /\ used <= used'  BY <1>1, DirTypes
  <2>2. QED  BY <1>1, <1>2, <2>1, IdleFacts, CallStays, WorkspaceStays
<1>8. \A d \in Clients : client'[d].pc \in ActivePcs =>
          d # c /\ client'[d] = client[d] /\ (client[d].s = s => s \in contended)
  BY <1>1, <1>2, IdleFacts DEF Others, ActivePcs, IInv, OwnerInv, s
<1>9. OwnerInv'
  <2>1. \A t \in Sessions : t > used => t # s  BY <1>3, DirTypes
  <2>2. \A d \in Clients : client[d].pc \in ActivePcs => client[d].s \in Sessions
    BY SessionOf DEF ActivePcs
  <2>3. QED  BY <1>1, <1>5, <1>8, <2>1, <2>2 DEF IInv, OwnerInv
<1>10. HomeInv'
  <2>1. \A t \in Sessions : worker'[t] # 0 => worker'[t] <= spawned /\ home[worker'[t]] = t
    BY <1>4, <1>5 DEF IInv, HomeInv
  <2>2. QED  BY <1>1, <1>2, <2>1, IdleFacts DEF IInv, HomeInv, Others, HoldPcs
<1>11. KeptInv'
  <2>1. worker[s] # 0 => s \in contended
    BY <1>1 DEF IInv, OwnerInv, ActivePcs, s
  <2>2. \A t \in Sessions : worker[t] # 0 => worker'[t] = worker[t] \/ t \in contended'
    BY <1>1, <1>5, <2>1
  <2>3. \E t \in Sessions : worker'[t] = client[c].w  BY <1>3, <1>5
  <2>4. QED  BY <1>1, <1>2, <2>2, <2>3, KeptStays
<1>12. DirInv' /\ NewInv' /\ OldInv'
  <2>1. Shrinks  BY <1>1, DirTypes DEF Shrinks
  <2>2. QED  BY <1>1, <1>2, <2>1, IdleFacts, DirStays, NewStays, OldStays
<1>13. TableLocked'
  <2>1. dir[s] # 0 /\ s \notin contended \cup unguarded => dir[s] \in locked /\ eligible[s] # dir[s]
    BY <1>1 DEF IInv, LockedInv, FreshLocked, FreshPcs, s
  <2>2. QED  BY <1>1, <1>5, <2>1 DEF IInv, LockedInv, TableLocked
<1>14. FreshLocked'
  BY <1>1, <1>2, IdleFacts, FreshStays DEF FreshPcs
<1>15. QED  BY <1>6, <1>7, <1>9, <1>10, <1>11, <1>12, <1>13, <1>14 DEF IInv, LockedInv

----------------------------------------------------------------------------
(* A worker leaves the table, is closed, and its lock file goes.           *)

\* Reap, StopPops and RestorePops take the worker of s out of the table.
LEMMA PopKeeps ==
    ASSUME IInv, NEW c \in Clients, NEW s \in Sessions, s \in 1 .. used,
           client[c].pc \in {"idle", "lookup", "pop"},
           client' \in [Clients -> ClientState], Others(c), CallOK(client'[c], used),
           client'[c].s = s, client'[c].pc \in {"reap_close", "close", "rmtree", "aside"},
           worker[s] # 0 => client'[c].w = worker[s] /\ client'[c].pc \in {"reap_close", "close"},
           worker[s] = 0 => client'[c].pc \in {"rmtree", "aside"},
           Extracted(client'[c]) => Extracted(client[c]) /\ client'[c].g = client[c].g,
           client'[c].pc = "aside" /\ s \notin contended' =>
              \A d \in Clients \ {c} : client[d].pc \in ActivePcs => client[d].s # s,
           worker' = [worker EXCEPT ![s] = 0], identity' \in [Sessions -> 0 .. MaxDirs],
           contended \subseteq contended',
           UNCHANGED <<proc, disk, eligible, counts, removed, home, unguarded, mislaid>>
    PROVE  IInv'
<1>1. UNCHANGED <<proc, dir, locked, aged, eligible, used, dirs, spawned>>
  BY DEF disk, counts
<1>2. /\ worker' \in [Sessions -> 0 .. MaxWorkers] /\ worker'[s] = 0
      /\ \A t \in Sessions : t # s => worker'[t] = worker[t]
  <2>1. 0 \in 0 .. MaxWorkers  BY Bounds
  <2>2. QED  BY <2>1 DEF IInv, Typed
<1>3. \A t \in Sessions : worker'[t] \in {0, worker[t]}
  BY <1>2
<1>4. Typed'
  BY <1>1, <1>2 DEF IInv, Typed
<1>5. used' \in Nat /\ used <= used' /\ CallOK(client'[c], used')
  BY <1>1, DirTypes
<1>6. CallInv' /\ NeverWithoutWorkspace'
  BY <1>1, <1>5, CallStays, WorkspaceStays
<1>7. OwnerInv'
  <2>1. s \in contended' \/ \A d \in Clients \ {c} : client'[c].pc \in ActivePcs =>
            (client[d].pc \in ActivePcs => client[d].s # s)
    BY DEF IInv, OwnerInv, ActivePcs
  <2>2. QED  BY <1>2, <1>3, <1>5, <2>1, OwnerStays
<1>8. HomeInv'
  <2>1. spawned' \in Nat /\ spawned <= spawned'  BY <1>1, Bounds DEF IInv, Typed
  <2>2. client'[c].pc \in HoldPcs =>
            client'[c].w # 0 /\ client'[c].w <= spawned' /\ home'[client'[c].w] = client'[c].s
    BY <1>1 DEF IInv, HomeInv, HoldPcs
  <2>3. QED  BY <1>1, <1>3, <2>1, <2>2, HomeStays
<1>9. KeptInv'
  BY <1>1, <1>2, KeptStays DEF HoldPcs
<1>10. DirInv' /\ NewInv' /\ OldInv'
  <2>1. Shrinks  BY <1>1, DirTypes DEF Shrinks
  <2>2. QED  BY <1>1, <2>1, DirStays, NewStays, OldStays
<1>11. LockedInv'
  BY <1>1, <1>3, TableStays, FreshStays DEF FreshPcs, LockedInv
<1>12. QED  BY <1>4, <1>6, <1>7, <1>8, <1>9, <1>10, <1>11 DEF IInv

LEMMA ReapKeeps ==
    ASSUME IInv, NEW c \in Clients, NEW s \in Sessions, s \in 1 .. used, NEW call \in AllCalls,
           client[c].pc \in {"idle", "lookup"}, Reap(c, call, s)
    PROVE  IInv'
<1> DEFINE x == InCall(call, "reap_close", s, worker[s], 0)
<1>1. /\ worker[s] # 0 /\ worker' = [worker EXCEPT ![s] = 0] /\ client' = [client EXCEPT ![c] = x]
      /\ UNCHANGED <<identity, proc, disk, eligible, counts, removed, home, contended, unguarded, mislaid>>
  BY DEF Reap, Reapable, Forget
<1>2. x \in ClientState /\ x.pc = "reap_close" /\ x.call = call /\ x.s = s /\ x.w = worker[s]
  <2>1. worker[s] \in 0 .. MaxWorkers /\ 0 \in 0 .. MaxDirs  BY Bounds DEF IInv, Typed
  <2>2. QED  BY <2>1, InCallFacts, SomePcs
<1> HIDE DEF x
<1>3. client' \in [Clients -> ClientState] /\ Others(c) /\ client'[c] = x
  BY <1>1, <1>2, SetFacts DEF IInv
<1>4. CallOK(client'[c], used) /\ ~Extracted(client'[c])
  BY <1>2, <1>3 DEF CallOK, Extracted
<1>5. identity' \in [Sessions -> 0 .. MaxDirs]
  BY <1>1 DEF IInv, Typed
<1>6. QED  BY <1>1, <1>2, <1>3, <1>4, <1>5, PopKeeps

LEMMA StopPopsKeeps ==
    ASSUME IInv, NEW c \in Clients, NEW s \in Sessions, StopPops(c, s)
    PROVE  IInv'
<1> DEFINE pc == IF worker[s] # 0 THEN "close" ELSE "rmtree"
<1> DEFINE x == InCall("stop", pc, s, worker[s], identity[s])
<1>1. /\ client[c] = Idle /\ s \in 1 .. used
      /\ worker' = [worker EXCEPT ![s] = 0] /\ client' = [client EXCEPT ![c] = x]
      /\ identity' = [identity EXCEPT ![s] = 0]
      /\ UNCHANGED <<proc, disk, eligible, counts, removed, home, contended, unguarded, mislaid>>
  BY DEF StopPops, CanCall, Forget
<1>2. x \in ClientState /\ x.pc = pc /\ x.call = "stop" /\ x.s = s /\ x.w = worker[s]
  <2>1. worker[s] \in 0 .. MaxWorkers /\ identity[s] \in 0 .. MaxDirs  BY DEF IInv, Typed
  <2>2. pc \in Pcs /\ "stop" \in AllCalls  BY SomePcs DEF AllCalls
  <2> HIDE DEF pc
  <2>3. QED  BY <2>1, <2>2, InCallFacts
<1>3. pc \in {"close", "rmtree"} /\ (worker[s] # 0 => pc = "close") /\ (worker[s] = 0 => pc = "rmtree")
  OBVIOUS
<1> HIDE DEF x, pc
<1>4. client' \in [Clients -> ClientState] /\ Others(c) /\ client'[c] = x
  BY <1>1, <1>2, SetFacts DEF IInv
<1>5. CallOK(client'[c], used) /\ ~Extracted(client'[c])
  BY <1>1, <1>2, <1>3, <1>4 DEF CallOK, Extracted
<1>6. identity' \in [Sessions -> 0 .. MaxDirs] /\ client[c].pc = "idle"
  <2>1. 0 \in 0 .. MaxDirs  BY Bounds
  <2>2. QED  BY <1>1, <2>1, IdleFacts DEF IInv, Typed
<1>7. QED  BY <1>1, <1>2, <1>3, <1>4, <1>5, <1>6, PopKeeps

LEMMA RestorePopsKeeps == ASSUME IInv, NEW c \in Clients, RestorePops(c)  PROVE IInv'
<1> DEFINE s == client[c].s
<1> DEFINE pc == IF worker[s] # 0 THEN "close" ELSE "aside"
<1>1. /\ client[c].pc = "pop"
      /\ worker' = [worker EXCEPT ![s] = 0]
      /\ client' = [client EXCEPT ![c].w = worker[s], ![c].pc = pc]
      /\ contended' = IF \E d \in Clients \ {c} : client[d].s = s /\ client[d].pc \in ActivePcs
                      THEN contended \cup {s} ELSE contended
      /\ UNCHANGED <<identity, proc, disk, eligible, counts, removed, home, unguarded, mislaid>>
  BY DEF RestorePops, Forget, At
<1>2. pc \in Pcs /\ s \in Sessions /\ s \in 1 .. used /\ worker[s] \in 0 .. MaxWorkers
  BY <1>1, SomePcs, SessionOf DEF IInv, Typed
<1>3. pc \in {"close", "aside"} /\ (worker[s] # 0 => pc = "close") /\ (worker[s] = 0 => pc = "aside")
  OBVIOUS
<1>4. /\ client' \in [Clients -> ClientState] /\ Others(c)
      /\ client'[c].pc = pc /\ client'[c].call = client[c].call /\ client'[c].s = client[c].s
      /\ client'[c].w = worker[s] /\ client'[c].g = client[c].g
  <2> HIDE DEF s, pc
  <2>1. QED  BY <1>1, <1>2 DEF IInv, Typed, ClientState, Others
<1>5. CallOK(client[c], used)  BY DEF IInv, CallInv
<1>6. contended \subseteq contended' /\ (s \notin contended' =>
          \A d \in Clients \ {c} : client[d].pc \in ActivePcs => client[d].s # s)
  BY <1>1
<1> HIDE DEF pc
<1>7. CallOK(client'[c], used) /\ (Extracted(client'[c]) => Extracted(client[c]))
  BY <1>1, <1>3, <1>4, <1>5 DEF CallOK, Extracted
<1>8. identity' \in [Sessions -> 0 .. MaxDirs]
  BY <1>1 DEF IInv, Typed
<1> HIDE DEF s
<1>9. client'[c].s = s  BY <1>4 DEF s
<1>10. QED  BY <1>1, <1>2, <1>3, <1>4, <1>6, <1>7, <1>8, <1>9, PopKeeps

LEMMA CloseKeeps == ASSUME IInv, NEW c \in Clients, Close(c)  PROVE IInv'
<1> DEFINE pc == IF client[c].pc = "close" THEN "unlock" ELSE "reap_mark"
<1>1. /\ client[c].pc \in {"reap_close", "close"}
      /\ proc' = [proc EXCEPT ![client[c].w] = "dead"]
      /\ client' = [client EXCEPT ![c].pc = pc, ![c].w = 0]
      /\ UNCHANGED <<worker, identity, dir, eligible, used, dirs, spawned, aged, locked>>
      /\ UNCHANGED <<home, contended, unguarded, removed, mislaid>>
  BY DEF Close, At, table, disk, counts, history, mishaps
<1>2. pc \in Pcs /\ pc \in {"unlock", "reap_mark"} /\ (pc = "unlock" => client[c].pc = "close")
  BY SomePcs
<1> HIDE DEF pc
<1>3. /\ client' \in [Clients -> ClientState] /\ Others(c)
      /\ client'[c].pc = pc /\ client'[c].call = client[c].call /\ client'[c].s = client[c].s
      /\ client'[c].g = client[c].g
  BY <1>1, <1>2, HandFacts
<1>4. client[c].w \in WorkerIds
  <2>1. client[c].w # 0 /\ client[c].w \in 0 .. MaxWorkers
    BY <1>1 DEF IInv, HomeInv, HoldPcs, Typed, ClientState
  <2>2. QED  BY <2>1, Bounds
<1>5. /\ proc' \in [WorkerIds -> {"unborn", "live", "dead"}] /\ proc'[client[c].w] = "dead"
      /\ \A w \in WorkerIds : proc'[w] = "live" => proc[w] = "live"
  BY <1>1, <1>4 DEF IInv, Typed
<1>6. Typed'
  BY <1>1, <1>3, <1>5 DEF IInv, Typed
<1>7. CallOK(client[c], used)  BY DEF IInv, CallInv
<1>8. used' \in Nat /\ used <= used' /\ CallOK(client'[c], used')
  BY <1>1, <1>2, <1>3, <1>7, DirTypes DEF CallOK, Extracted
<1>9. CallInv' /\ NeverWithoutWorkspace'
  BY <1>1, <1>3, <1>8, CallStays, WorkspaceStays
<1>10. OwnerInv'
  BY <1>1, <1>3, <1>8, OwnerStays DEF ActivePcs
<1>11. HomeInv' /\ KeptInv'
  <2>1. spawned' \in Nat /\ spawned <= spawned'  BY <1>1, Bounds DEF IInv, Typed
  <2>2. client'[c].pc \notin HoldPcs  BY <1>2, <1>3 DEF HoldPcs
  <2>3. HomeInv'  BY <1>1, <1>3, <2>1, <2>2, HomeStays
  <2>4. KeptInv'  BY <1>1, <1>3, <1>5, KeptStays
  <2>5. QED  BY <2>3, <2>4
<1>12. DirInv' /\ NewInv' /\ OldInv'
  <2>1. Shrinks  BY <1>1, DirTypes DEF Shrinks
  <2>2. Extracted(client'[c]) => Extracted(client[c])
    BY <1>2, <1>3 DEF Extracted
  <2>3. client'[c].pc # "swap_in"  BY <1>2, <1>3
  <2>4. QED  BY <1>1, <1>3, <2>1, <2>2, <2>3, DirStays, NewStays, OldStays
<1>13. LockedInv'
  <2>1. client'[c].pc \notin FreshPcs  BY <1>2, <1>3 DEF FreshPcs
  <2>2. QED  BY <1>1, <1>3, <2>1, TableStays, FreshStays DEF LockedInv
<1>14. QED  BY <1>6, <1>9, <1>10, <1>11, <1>12, <1>13 DEF IInv

\* The lock file a call removes is that of a session it has to itself.
LEMMA RemoveLockKeeps == ASSUME IInv, NEW c \in Clients, RemoveLock(c)  PROVE IInv'
<1> DEFINE s == client[c].s
<1>1. /\ client[c].pc \in {"reap_unlock", "unlock"} /\ locked' = locked \ {dir[s]} /\ aged' \subseteq aged
      /\ UNCHANGED <<worker, identity, proc, dir, eligible, used, dirs, spawned>>
      /\ UNCHANGED <<home, contended, unguarded, removed, mislaid>>
  BY DEF RemoveLock, At, Modified, table, counts, history, mishaps
<1>2. PICK pc \in {"idle", "note", "rmtree", "aside"} :
          /\ Goto(c, pc) \/ (Return(c) /\ pc = "idle")
          /\ pc = "aside" => client[c].pc = "unlock" /\ client[c].call # "stop"
  BY DEF RemoveLock, At
<1> HIDE DEF s
<1>3. CallOK(client[c], used)  BY DEF IInv, CallInv
<1>4. /\ client' \in [Clients -> ClientState] /\ Others(c) /\ client'[c].pc = pc
      /\ CallOK(client'[c], used)
      /\ pc = "aside" => client'[c].s = client[c].s
      /\ Extracted(client'[c]) => Extracted(client[c]) /\ client'[c].g = client[c].g
  <2>1. pc \in Pcs  BY SomePcs
  <2>2. CASE Goto(c, pc)
    <3>1. /\ client' \in [Clients -> ClientState] /\ Others(c) /\ client'[c].pc = pc
          /\ client'[c].call = client[c].call /\ client'[c].s = client[c].s /\ client'[c].g = client[c].g
      BY <2>1, <2>2, GotoFacts DEF IInv
    <3>2. QED  BY <1>1, <1>2, <1>3, <3>1 DEF CallOK, Extracted
  <2>3. CASE Return(c) /\ pc = "idle"
    BY <2>3, ReturnFacts, IdleFacts DEF IInv
  <2>4. QED  BY <1>2, <2>2, <2>3
<1>5. s \in Sessions  BY <1>1, SessionOf DEF s
<1>6. Typed'
  BY <1>1, <1>4 DEF IInv, Typed
<1>7. CallInv' /\ NeverWithoutWorkspace'
  <2>1. used' \in Nat /\ used <= used'  BY <1>1, DirTypes
  <2>2. QED  BY <1>1, <1>4, <2>1, CallStays, WorkspaceStays
<1>8. OwnerInv'
  <2>1. used' \in Nat /\ used <= used'  BY <1>1, DirTypes
  <2>2. client'[c].pc \in ActivePcs => client[c].pc \in ActivePcs /\ client'[c].s = client[c].s
    BY <1>1, <1>4 DEF ActivePcs
  <2>3. QED  BY <1>1, <1>4, <2>1, <2>2, OwnerStays
<1>9. HomeInv' /\ KeptInv'
  <2>1. spawned' \in Nat /\ spawned <= spawned'  BY <1>1, Bounds DEF IInv, Typed
  <2>2. client'[c].pc \notin HoldPcs /\ client[c].pc \notin HoldPcs  BY <1>1, <1>4 DEF HoldPcs
  <2>3. HomeInv'  BY <1>1, <1>4, <2>1, <2>2, HomeStays
  <2>4. KeptInv'  BY <1>1, <1>4, <2>2, KeptStays
  <2>5. QED  BY <2>3, <2>4
<1>10. DirInv' /\ NewInv' /\ OldInv'
  <2>1. Shrinks  BY <1>1, DirTypes DEF Shrinks
  <2>2. QED  BY <1>1, <1>4, <2>1, DirStays, NewStays, OldStays
<1>11. ASSUME NEW t \in Sessions, dir[t] # 0, dir[t] = dir[s]  PROVE t = s
  BY <1>5, <1>11 DEF IInv, DirInv
<1>12. TableLocked'
  <2>1. s \in contended \/ worker[s] = 0
    BY <1>1 DEF IInv, OwnerInv, ActivePcs, s
  <2>2. QED  BY <1>1, <1>11, <2>1 DEF IInv, LockedInv, TableLocked
<1>13. FreshLocked'
  <2>1. ASSUME NEW d \in Clients, client'[d].pc \in FreshPcs, client'[d].s \notin contended
        PROVE  /\ d # c /\ client'[d] = client[d] /\ client[d].s # s /\ client[d].s \in Sessions
    <3>1. d # c  BY <1>4, <2>1 DEF FreshPcs
    <3>2. client'[d] = client[d]  BY <1>4, <3>1 DEF Others
    <3>3. client[d].s # s
      BY <1>1, <2>1, <3>1, <3>2 DEF IInv, OwnerInv, FreshPcs, ActivePcs, s
    <3>4. QED  BY <2>1, <3>1, <3>2, <3>3, SessionOf DEF FreshPcs
  <2>2. QED  BY <1>1, <1>11, <2>1 DEF IInv, LockedInv, FreshLocked
<1>14. QED  BY <1>6, <1>7, <1>8, <1>9, <1>10, <1>12, <1>13 DEF IInv, LockedInv

LEMMA RunKeeps == ASSUME IInv, NEW c \in Clients, Run(c)  PROVE IInv'
<1>1. /\ client[c].pc = "run" /\ proc' \in {proc, [proc EXCEPT ![client[c].w] = "dead"]}
      /\ client' = [client EXCEPT ![c].pc = "note", ![c].w = 0]
      /\ UNCHANGED <<worker, identity, dir, eligible, used, dirs, spawned, aged, locked>>
      /\ UNCHANGED <<home, contended, unguarded, removed, mislaid>>
  BY DEF Run, At, table, disk, counts, history, mishaps
<1>2. /\ client' \in [Clients -> ClientState] /\ Others(c)
      /\ client'[c].pc = "note" /\ client'[c].call = client[c].call /\ client'[c].s = client[c].s
  BY <1>1, SomePcs, HandFacts
<1>3. /\ proc' \in [WorkerIds -> {"unborn", "live", "dead"}]
      /\ \A w \in WorkerIds : proc'[w] = "live" => proc[w] = "live"
  BY <1>1 DEF IInv, Typed
<1>4. Typed'
  BY <1>1, <1>2, <1>3 DEF IInv, Typed
<1>5. CallOK(client[c], used)  BY DEF IInv, CallInv
<1>6. used' \in Nat /\ used <= used' /\ CallOK(client'[c], used')
  BY <1>1, <1>2, <1>5, DirTypes DEF CallOK, Extracted
<1>7. CallInv' /\ NeverWithoutWorkspace'
  BY <1>1, <1>2, <1>6, CallStays, WorkspaceStays
<1>8. OwnerInv'
  BY <1>1, <1>2, <1>6, OwnerStays DEF ActivePcs
<1>9. HomeInv' /\ KeptInv'
  <2>1. spawned' \in Nat /\ spawned <= spawned'  BY <1>1, Bounds DEF IInv, Typed
  <2>2. client'[c].pc \notin HoldPcs /\ client[c].pc \notin HoldPcs  BY <1>1, <1>2 DEF HoldPcs
  <2>3. HomeInv'  BY <1>1, <1>2, <2>1, <2>2, HomeStays
  <2>4. KeptInv'  BY <1>1, <1>2, <1>3, <2>2, KeptStays
  <2>5. QED  BY <2>3, <2>4
<1>10. DirInv' /\ NewInv' /\ OldInv'
  <2>1. Shrinks  BY <1>1, DirTypes DEF Shrinks
  <2>2. ~Extracted(client'[c])  BY <1>2 DEF Extracted
  <2>3. QED  BY <1>1, <1>2, <2>1, <2>2, DirStays, NewStays, OldStays
<1>11. LockedInv'
  BY <1>1, <1>2, TableStays, FreshStays DEF FreshPcs, LockedInv
<1>12. QED  BY <1>4, <1>7, <1>8, <1>9, <1>10, <1>11 DEF IInv

LEMMA TouchBeginsKeeps ==
    ASSUME IInv, NEW c \in Clients, NEW call \in Calls, NEW s \in Sessions, TouchBegins(c, call, s)
    PROVE  IInv'
<1>1. client[c] = Idle /\ s \in 1 .. used /\ call \in AllCalls
  BY SessionLifecycleAssumption DEF TouchBegins, CanCall
<1>2. CASE Reap(c, call, s)
  BY <1>1, <1>2, IdleFacts, ReapKeeps
<1>3. CASE ~Reap(c, call, s)
  BY <1>1, <1>3, QuietBegins, SomePcs DEF TouchBegins
<1>4. QED  BY <1>2, <1>3

LEMMA SweepKeeps ==
    ASSUME IInv, NEW c \in Clients, NEW s \in Sessions, Sweep(c, s)
    PROVE  IInv'
<1>1. client[c] = Idle /\ s \in 1 .. used /\ "sweep" \in AllCalls /\ Reap(c, "sweep", s)
  BY DEF Sweep, CanCall, AllCalls
<1>2. QED  BY <1>1, IdleFacts, ReapKeeps

LEMMA LookupKeeps == ASSUME IInv, NEW c \in Clients, Lookup(c)  PROVE IInv'
<1>1. client[c].pc = "lookup"  BY DEF Lookup, At
<1>2. client[c].s \in Sessions /\ client[c].s \in 1 .. used  BY <1>1, SessionOf
<1>3. CASE Return(c) /\ UNCHANGED <<table, proc, disk, eligible, counts, history>>
  <2>1. /\ UNCHANGED <<worker, identity, proc, dir, eligible, used, dirs, spawned, home, contended>>
        /\ UNCHANGED <<locked, aged, unguarded, removed, mislaid>>
    BY <1>3 DEF table, disk, counts, history, mishaps
  <2>2. QED  BY <1>1, <1>3, <2>1, QuietGoes, SomePcs DEF HoldPcs
<1>4. CASE Reap(c, "execute", client[c].s)
  <2>1. "execute" \in AllCalls  BY DEF AllCalls
  <2>2. QED  BY <1>1, <1>2, <1>4, <2>1, ReapKeeps
<1>5. CASE FindWorker(c, client[c].s)
  BY <1>1, <1>5, FindWorkerKeeps
<1>6. QED  BY <1>3, <1>4, <1>5 DEF Lookup

----------------------------------------------------------------------------
(* Directories go and come.                                                *)

LEMMA RemoveDirFacts ==
    ASSUME IInv, NEW s \in Sessions, NEW g, RemoveDir(s, g)
    PROVE  /\ dir' \in [Sessions -> 0 .. MaxDirs] /\ removed \subseteq removed'
           /\ \A t \in Sessions : dir'[t] \in {0, dir[t]}
           /\ \A t \in Sessions : dir'[t] # dir[t] => t \in removed'
<1>1. 0 \in 0 .. MaxDirs  BY Bounds
<1>2. QED  BY <1>1 DEF IInv, Typed, RemoveDir

LEMMA StopRemovesKeeps == ASSUME IInv, NEW c \in Clients, StopRemoves(c)  PROVE IInv'
<1> DEFINE s == client[c].s
<1>1. /\ client[c].pc = "rmtree" /\ RemoveDir(s, client[c].g) /\ Return(c)
      /\ UNCHANGED <<worker, identity, proc, aged, locked, eligible, used, dirs, spawned>>
      /\ UNCHANGED <<home, contended, unguarded, mislaid>>
  BY DEF StopRemoves, At, table, counts, mishaps
<1>2. client' \in [Clients -> ClientState] /\ Others(c) /\ client'[c] = Idle
  BY <1>1, ReturnFacts DEF IInv
<1>3. s \in Sessions  BY <1>1, SessionOf
<1> HIDE DEF s
<1>4. /\ dir' \in [Sessions -> 0 .. MaxDirs] /\ removed \subseteq removed'
      /\ \A t \in Sessions : dir'[t] \in {0, dir[t]}
      /\ \A t \in Sessions : dir'[t] # dir[t] => t \in removed'
  BY <1>1, <1>3, RemoveDirFacts
<1>5. Typed'
  BY <1>1, <1>2, <1>4 DEF IInv, Typed
<1>6. CallInv'
  <2>1. used' \in Nat /\ used <= used'  BY <1>1, DirTypes
  <2>2. QED  BY <1>2, <2>1, IdleFacts, CallStays
<1>7. NeverWithoutWorkspace'
  <2>1. SUFFICES ASSUME NEW t \in 1 .. used, dir'[t] = 0, t \notin removed' \cup mislaid
                 PROVE  \E d \in Clients : client'[d].s = t /\ client'[d].pc = "swap_in"
    BY <1>1 DEF NeverWithoutWorkspace
  <2>2. t \in Sessions  BY Bounds DEF IInv, Typed
  <2>3. PICK d \in Clients : client[d].s = t /\ client[d].pc = "swap_in"
    BY <1>4, <2>1, <2>2 DEF IInv, NeverWithoutWorkspace
  <2>4. QED  BY <1>1, <1>2, <2>3 DEF Others
<1>8. OwnerInv' /\ HomeInv' /\ KeptInv'
  <2>1. used' \in Nat /\ used <= used' /\ spawned' \in Nat /\ spawned <= spawned'
    BY <1>1, Bounds DEF IInv, Typed
  <2>2. client'[c].pc \notin HoldPcs \cup ActivePcs /\ client[c].pc \notin HoldPcs
    BY <1>1, <1>2, IdleFacts DEF HoldPcs, ActivePcs
  <2>3. QED  BY <1>1, <1>2, <2>1, <2>2, OwnerStays, HomeStays, KeptStays
<1>9. DirInv' /\ NewInv' /\ OldInv'
  <2>1. Shrinks  BY <1>1, <1>4, DirTypes DEF Shrinks
  <2>2. QED  BY <1>1, <1>2, <2>1, IdleFacts, DirStays, NewStays, OldStays
<1>10. LockedInv'
  BY <1>1, <1>2, <1>4, IdleFacts, TableStays, FreshStays DEF FreshPcs, LockedInv
<1>11. QED  BY <1>5, <1>6, <1>7, <1>8, <1>9, <1>10 DEF IInv

\* The archive is extracted to a directory that nobody knows.
LEMMA RestoreExtractsKeeps == ASSUME IInv, NEW c \in Clients, RestoreExtracts(c)  PROVE IInv'
<1>1. /\ client[c].pc = "verify"
      /\ UNCHANGED <<worker, identity, proc, dir, aged, locked, eligible, used, spawned>>
      /\ UNCHANGED <<home, contended, unguarded, removed, mislaid>>
  BY DEF RestoreExtracts, At, table, disk, history, mishaps
<1>2. CASE Return(c) /\ UNCHANGED dirs
  BY <1>1, <1>2, QuietGoes, SomePcs DEF HoldPcs
<1>3. CASE /\ dirs < MaxDirs /\ dirs' = dirs + 1
           /\ client' = [client EXCEPT ![c].pc = "pop", ![c].g = dirs + 1]
  <2>1. dirs \in Nat /\ dirs + 1 \in 0 .. MaxDirs /\ dirs + 1 # 0 /\ dirs' \in Nat /\ dirs <= dirs'
    BY <1>3, Bounds DEF IInv, Typed
  <2>2. /\ client' \in [Clients -> ClientState] /\ Others(c)
        /\ client'[c].pc = "pop" /\ client'[c].call = client[c].call /\ client'[c].s = client[c].s
        /\ client'[c].g = dirs + 1
    BY <1>3, <2>1, SomePcs DEF IInv, Typed, ClientState, Others
  <2>3. CallOK(client[c], used)  BY DEF IInv, CallInv
  <2>4. /\ CallOK(client'[c], used') /\ used' \in Nat /\ used <= used'
        /\ spawned' \in Nat /\ spawned <= spawned'
    <3>1. used' \in Nat /\ used <= used' /\ spawned' \in Nat /\ spawned <= spawned'
      BY <1>1, Bounds DEF IInv, Typed
    <3>2. CallOK(client'[c], used)
      BY <1>1, <2>1, <2>2, <2>3 DEF CallOK
    <3>3. QED  BY <1>1, <3>1, <3>2
  <2>5. Typed'
    BY <1>1, <1>3, <2>1, <2>2 DEF IInv, Typed
  <2>6. CallInv' /\ NeverWithoutWorkspace'
    BY <1>1, <2>2, <2>4, CallStays, WorkspaceStays
  <2>7. OwnerInv' /\ HomeInv' /\ KeptInv'
    <3>1. client'[c].pc \notin HoldPcs \cup ActivePcs /\ client[c].pc \notin HoldPcs
      BY <1>1, <2>2 DEF HoldPcs, ActivePcs
    <3>2. QED  BY <1>1, <2>2, <2>4, <3>1, OwnerStays, HomeStays, KeptStays
  <2>8. DirInv' /\ NewInv' /\ OldInv'
    <3>1. Shrinks  BY <1>1, <2>1 DEF Shrinks
    <3>2. QED  BY <1>1, <1>3, <2>2, <3>1, DirStays, NewStays, OldStays
  <2>9. LockedInv'
    BY <1>1, <2>2, TableStays, FreshStays DEF FreshPcs, LockedInv
  <2>10. QED  BY <2>5, <2>6, <2>7, <2>8, <2>9 DEF IInv
<1>4. QED  BY <1>2, <1>3 DEF RestoreExtracts

\* The old workspace is set aside: no path leads to it.
LEMMA RestoreAsideKeeps == ASSUME IInv, NEW c \in Clients, RestoreAside(c)  PROVE IInv'
<1> DEFINE s == client[c].s
<1>1. /\ client[c].pc = "aside"
      /\ UNCHANGED <<worker, identity, proc, aged, locked, eligible, used, dirs, spawned>>
      /\ UNCHANGED <<home, contended, unguarded, removed, mislaid>>
  BY DEF RestoreAside, At, table, counts, history, mishaps
<1>2. CASE Return(c) /\ UNCHANGED dir
  BY <1>1, <1>2, QuietGoes, SomePcs DEF HoldPcs
<1>3. CASE /\ dir[s] # 0 /\ dir' = [dir EXCEPT ![s] = 0]
           /\ client' = [client EXCEPT ![c].pc = "swap_in", ![c].old = dir[s]]
  <2>1. s \in Sessions /\ dir[s] \in 0 .. MaxDirs /\ 0 \in 0 .. MaxDirs
    <3>1. s \in Sessions /\ 0 \in 0 .. MaxDirs  BY <1>1, SessionOf, Bounds
    <3>2. QED  BY <3>1 DEF IInv, Typed
  <2> HIDE DEF s
  <2>2. /\ client' \in [Clients -> ClientState] /\ Others(c)
        /\ client'[c].pc = "swap_in" /\ client'[c].call = client[c].call /\ client'[c].s = client[c].s
        /\ client'[c].g = client[c].g /\ client'[c].old = dir[s]
    BY <1>3, <2>1, SomePcs DEF IInv, Typed, ClientState, Others
  <2>3. /\ dir' \in [Sessions -> 0 .. MaxDirs] /\ dir'[s] = 0
        /\ \A t \in Sessions : t # s => dir'[t] = dir[t]
    BY <1>3, <2>1 DEF IInv, Typed
  <2>4. Typed'
    BY <1>1, <2>2, <2>3 DEF IInv, Typed
  <2>5. CallOK(client[c], used)  BY DEF IInv, CallInv
  <2>6. CallInv'
    <3>1. used' \in Nat /\ used <= used'  BY <1>1, DirTypes
    <3>2. CallOK(client'[c], used)
      BY <1>1, <1>3, <2>2, <2>5 DEF CallOK, Extracted
    <3>3. QED  BY <1>1, <2>2, <3>1, <3>2, CallStays
  <2>7. NeverWithoutWorkspace'
    <3>1. SUFFICES ASSUME NEW t \in 1 .. used, dir'[t] = 0, t \notin removed \cup mislaid
                   PROVE  \E d \in Clients : client'[d].s = t /\ client'[d].pc = "swap_in"
      BY <1>1 DEF NeverWithoutWorkspace
    <3>2. CASE t = s  BY <2>2, <3>2 DEF s
    <3>3. CASE t # s
      <4>1. t \in Sessions  BY Bounds DEF IInv, Typed
      <4>2. PICK d \in Clients : client[d].s = t /\ client[d].pc = "swap_in"
        BY <2>3, <3>1, <3>3, <4>1 DEF IInv, NeverWithoutWorkspace
      <4>3. QED  BY <1>1, <2>2, <4>2 DEF Others
    <3>4. QED  BY <3>2, <3>3
  <2>8. OwnerInv' /\ HomeInv' /\ KeptInv'
    <3>1. used' \in Nat /\ used <= used' /\ spawned' \in Nat /\ spawned <= spawned'
      BY <1>1, Bounds DEF IInv, Typed
    <3>2. client'[c].pc \notin HoldPcs /\ client[c].pc \in ActivePcs /\ client[c].pc \notin HoldPcs
      BY <1>1, <2>2 DEF HoldPcs, ActivePcs
    <3>3. QED  BY <1>1, <2>2, <3>1, <3>2, OwnerStays, HomeStays, KeptStays
  <2>9. Shrinks /\ Extracted(client[c])
    BY <1>1, <2>3, DirTypes DEF Shrinks, Extracted
  <2>10. DirInv' /\ NewInv'
    BY <1>1, <2>2, <2>9, DirStays, NewStays
  <2>11. OldInv'
    <3>1. ASSUME NEW d \in Clients, client'[d].pc = "swap_in", d # c
          PROVE  /\ client[d].pc = "swap_in" /\ client'[d] = client[d] /\ client[d].old # dir[s]
                 /\ \A t \in Sessions : dir'[t] # client[d].old
      <4>1. client'[d] = client[d]  BY <2>2, <3>1 DEF Others
      <4>2. client[d].old # 0 /\ \A t \in Sessions : dir[t] # client[d].old
        BY <3>1, <4>1 DEF IInv, OldInv, CallInv, CallOK
      <4>3. QED  BY <2>1, <2>3, <3>1, <4>1, <4>2
    <3>2. \A t \in Sessions : dir'[t] # dir[s]
      BY <1>3, <2>1, <2>3 DEF IInv, DirInv
    <3>3. \A d \in Clients : Extracted(client'[d]) =>
              /\ Extracted(client[d]) /\ client'[d].g = client[d].g /\ client[d].g # dir[s]
      BY <2>1, <2>2, <2>9 DEF IInv, NewInv, Others
    <3>4. dir[s] <= dirs  BY <2>1, DirTypes
    <3>5. \A d \in Clients : client'[d].pc = "swap_in" =>
              /\ client'[d].old <= dirs
              /\ \A t \in Sessions : dir'[t] # client'[d].old
              /\ \A e \in Clients : Extracted(client'[e]) => client'[e].g # client'[d].old
      BY <2>2, <3>1, <3>2, <3>3, <3>4 DEF IInv, OldInv
    <3>6. \A d, e \in Clients : client'[d].pc = "swap_in" /\ client'[e].pc = "swap_in"
                                 /\ client'[d].old = client'[e].old => d = e
      BY <2>2, <3>1 DEF IInv, OldInv
    <3>7. QED  BY <1>1, <3>5, <3>6 DEF OldInv
  <2>12. LockedInv'
    BY <1>1, <2>2, <2>3, TableStays, FreshStays DEF FreshPcs, LockedInv
  <2>13. QED  BY <2>4, <2>6, <2>7, <2>8, <2>10, <2>11, <2>12 DEF IInv
<1>4. QED  BY <1>2, <1>3 DEF RestoreAside

\* The second rename, or the rename back, puts directory v at the path of s.
LEMMA PutKeeps ==
    ASSUME IInv, NEW c \in Clients, NEW s \in Sessions, NEW v \in 1 .. MaxDirs,
           client[c].pc = "swap_in", client[c].s = s, v \in {client[c].g, client[c].old},
           client' \in [Clients -> ClientState], Others(c), CallOK(client'[c], used),
           client'[c].pc \in {"identify", "idle"},
           client'[c].pc = "identify" => client'[c].s = s /\ v = client[c].g /\ dir'[s] = v,
           dir' \in [Sessions -> 0 .. MaxDirs], dir'[s] \in {dir[s], v},
           \A t \in Sessions : t # s => dir'[t] = dir[t],
           dir'[s] # 0 \/ s \in mislaid', mislaid \subseteq mislaid',
           UNCHANGED <<worker, identity, proc, aged, locked, eligible, used, dirs, spawned>>,
           UNCHANGED <<home, contended, unguarded, removed>>
    PROVE  IInv'
<1>1. Typed'
  BY DEF IInv, Typed
<1>2. used' \in Nat /\ used <= used' /\ spawned' \in Nat /\ spawned <= spawned'
  BY Bounds DEF IInv, Typed
<1>3. CallInv'
  BY <1>2, CallStays
<1>4. NeverWithoutWorkspace'
  <2>1. SUFFICES ASSUME NEW t \in 1 .. used, dir'[t] = 0, t \notin removed \cup mislaid'
                 PROVE  \E d \in Clients : client'[d].s = t /\ client'[d].pc = "swap_in"
    BY DEF NeverWithoutWorkspace
  <2>2. t \in Sessions  BY Bounds DEF IInv, Typed
  <2>3. t # s  BY <2>1
  <2>4. PICK d \in Clients : client[d].s = t /\ client[d].pc = "swap_in"
    BY <2>1, <2>2, <2>3 DEF IInv, NeverWithoutWorkspace
  <2>5. QED  BY <2>3, <2>4 DEF Others
<1>5. client[c].pc \in ActivePcs /\ client'[c].pc \notin HoldPcs /\ client[c].pc \notin HoldPcs
      /\ Extracted(client[c]) /\ ~Extracted(client'[c]) /\ client'[c].pc # "swap_in"
  BY DEF ActivePcs, HoldPcs, Extracted
<1>6. OwnerInv' /\ HomeInv' /\ KeptInv'
  <2>1. client'[c].pc \in ActivePcs => client'[c].s = client[c].s
    BY DEF ActivePcs
  <2>2. QED  BY <1>2, <1>5, <2>1, OwnerStays, HomeStays, KeptStays
<1>7. /\ v <= dirs /\ v # 0 /\ \A t \in Sessions : dir[t] # v
      /\ \A d \in Clients \ {c} : Extracted(client[d]) => client[d].g # v
      /\ \A d \in Clients \ {c} : client[d].pc = "swap_in" => client[d].old # v
  <2>1. CASE v = client[c].g
    BY <1>5, <2>1 DEF IInv, NewInv, OldInv
  <2>2. CASE v = client[c].old
    BY <1>5, <2>2 DEF IInv, OldInv
  <2>3. QED  BY <2>1, <2>2
<1>8. DirInv'
  <2>1. s <= used
    <3>1. s \in 1 .. used  BY SessionOf
    <3>2. QED  BY <3>1, DirTypes
  <2>2. \A t \in Sessions : t > used => t # s
    BY <2>1, DirTypes, Bounds
  <2>3. \A t \in Sessions : t > used => dir'[t] = 0 /\ eligible'[t] = 0
    BY <2>2 DEF IInv, DirInv
  <2>4. \A t, u \in Sessions : dir'[t] = dir'[u] /\ dir'[t] # 0 => t = u
    BY <1>7 DEF IInv, DirInv
  <2>5. \A t \in Sessions : dir'[t] <= dirs
    BY <1>7 DEF IInv, DirInv
  <2>6. QED  BY <2>3, <2>4, <2>5 DEF IInv, DirInv
<1>9. \A d \in Clients : /\ Extracted(client'[d]) => d # c /\ Extracted(client[d]) /\ client'[d] = client[d]
                         /\ client'[d].pc = "swap_in" =>
                               d # c /\ client[d].pc = "swap_in" /\ client'[d] = client[d]
  BY <1>5 DEF Others
<1>10. NewInv'
  <2>1. \A d \in Clients : Extracted(client'[d]) => \A t \in Sessions : dir'[t] # client'[d].g
    BY <1>7, <1>9 DEF IInv, NewInv
  <2>2. QED  BY <1>9, <2>1 DEF IInv, NewInv
<1>11. OldInv'
  <2>1. \A d \in Clients : client'[d].pc = "swap_in" => \A t \in Sessions : dir'[t] # client'[d].old
    BY <1>7, <1>9 DEF IInv, OldInv
  <2>2. QED  BY <1>9, <2>1 DEF IInv, OldInv
<1>12. TableLocked'
  <2>1. s \in contended \/ worker[s] = 0
    BY <1>5 DEF IInv, OwnerInv
  <2>2. QED  BY <2>1 DEF IInv, LockedInv, TableLocked
<1>13. FreshLocked'
  <2>1. ASSUME NEW d \in Clients, client'[d].pc \in FreshPcs, dir'[client'[d].s] # 0,
               client'[d].s \notin contended
        PROVE  /\ dir'[client'[d].s] \notin aged
               /\ eligible[client'[d].s] # dir'[client'[d].s]
               /\ client'[d].pc = "publish" /\ client'[d].s \notin unguarded => dir'[client'[d].s] \in locked
    <3>1. CASE d = c
      <4>1. client'[c].pc = "identify"  BY <2>1, <3>1 DEF FreshPcs
      <4>2. v \notin aged /\ eligible[s] # v
        BY <1>5, <4>1 DEF IInv, NewInv
      <4>3. QED  BY <3>1, <4>1, <4>2
    <3>2. CASE d # c
      <4>1. client'[d] = client[d]  BY <3>2 DEF Others
      <4>2. client[d].s \in Sessions  BY <2>1, <4>1, SessionOf DEF FreshPcs
      <4>3. client[d].s # s
        BY <1>5, <2>1, <3>2, <4>1 DEF IInv, OwnerInv, FreshPcs, ActivePcs
      <4>4. QED  BY <2>1, <4>1, <4>2, <4>3 DEF IInv, LockedInv, FreshLocked
    <3>3. QED  BY <3>1, <3>2
  <2>2. QED  BY <2>1 DEF FreshLocked
<1>14. QED  BY <1>1, <1>3, <1>4, <1>6, <1>8, <1>10, <1>11, <1>12, <1>13 DEF IInv, LockedInv

LEMMA RestoreSwapsKeeps == ASSUME IInv, NEW c \in Clients, RestoreSwaps(c)  PROVE IInv'
<1> DEFINE s == client[c].s
<1>1. /\ client[c].pc = "swap_in"
      /\ UNCHANGED <<worker, identity, proc, aged, locked, eligible, used, dirs, spawned>>
      /\ UNCHANGED <<home, contended, unguarded, removed>>
  BY DEF RestoreSwaps, At, table, counts
<1>2. s \in Sessions  BY <1>1, SessionOf
<1>3. CallOK(client[c], used)  BY DEF IInv, CallInv
<1>4. client[c].g \in 1 .. MaxDirs /\ client[c].old \in 1 .. MaxDirs
  <2>1. client[c].g # 0 /\ client[c].old # 0
    BY <1>1, <1>3 DEF CallOK, Extracted
  <2>2. client[c].g \in 0 .. MaxDirs /\ client[c].old \in 0 .. MaxDirs
    BY DEF IInv, Typed, ClientState
  <2>3. QED  BY <2>1, <2>2, Bounds
<1>5. dir \in [Sessions -> 0 .. MaxDirs] /\ (\A n \in 1 .. MaxDirs : n \in 0 .. MaxDirs /\ n # 0)
      /\ 0 \in 0 .. MaxDirs
  BY Bounds DEF IInv, Typed
<1>6. CASE /\ dir[s] = 0 /\ dir' = [dir EXCEPT ![s] = client[c].g]
           /\ client' = [client EXCEPT ![c].pc = "identify", ![c].old = 0]
           /\ UNCHANGED mislaid
  <2> HIDE DEF s
  <2>1. /\ client' \in [Clients -> ClientState] /\ Others(c)
        /\ client'[c].pc = "identify" /\ client'[c].call = client[c].call /\ client'[c].s = client[c].s
    <3>1. client' = [client EXCEPT ![c].pc = "identify", ![c].old = 0]  BY <1>6
    <3>2. 0 \in 0 .. MaxDirs /\ "identify" \in Pcs  BY <1>5, SomePcs
    <3>3. QED  BY <3>1, <3>2 DEF IInv, Typed, ClientState, Others
  <2>2. CallOK(client'[c], used)
    BY <1>1, <1>3, <2>1 DEF CallOK, Extracted
  <2>3. /\ dir' \in [Sessions -> 0 .. MaxDirs] /\ dir'[s] = client[c].g
        /\ \A t \in Sessions : t # s => dir'[t] = dir[t]
    BY <1>2, <1>4, <1>5, <1>6
  <2>4. client[c].s = s  BY DEF s
  <2>5. QED  BY <1>1, <1>2, <1>4, <1>5, <1>6, <2>1, <2>2, <2>3, <2>4, PutKeeps
<1>7. CASE SwapFails(s, client[c].old) /\ Return(c) /\ (dir[s] # 0 \/ "rename" \in Faults)
  <2> HIDE DEF s
  <2>1. client' \in [Clients -> ClientState] /\ Others(c) /\ client'[c] = Idle
    BY <1>7, ReturnFacts DEF IInv
  <2>2. /\ dir' \in [Sessions -> 0 .. MaxDirs] /\ dir'[s] \in {dir[s], client[c].old}
        /\ \A t \in Sessions : t # s => dir'[t] = dir[t]
        /\ dir'[s] # 0 \/ s \in mislaid'
    <3>1. CASE dir' = [dir EXCEPT ![s] = IF @ = 0 THEN client[c].old ELSE @]
      <4>1. CASE dir[s] = 0  BY <1>2, <1>4, <1>5, <3>1, <4>1
      <4>2. CASE dir[s] # 0  BY <1>2, <1>4, <1>5, <3>1, <4>2
      <4>3. QED  BY <4>1, <4>2
    <3>2. CASE UNCHANGED dir /\ mislaid' = mislaid \cup {s}
      BY <1>5, <3>2
    <3>3. QED  BY <1>7, <3>1, <3>2 DEF SwapFails
  <2>3. mislaid \subseteq mislaid'  BY <1>7 DEF SwapFails
  <2>4. client[c].s = s /\ client'[c].pc = "idle" /\ CallOK(client'[c], used)  BY <2>1,
                                                                                  IdleFacts DEF s
  <2>5. QED  BY <1>1, <1>2, <1>4, <2>1, <2>2, <2>3, <2>4, PutKeeps
<1>8. QED  BY <1>6, <1>7 DEF RestoreSwaps

LEMMA RestoreIdentifiesKeeps == ASSUME IInv, NEW c \in Clients, RestoreIdentifies(c)  PROVE IInv'
<1> DEFINE s == client[c].s
<1>1. /\ client[c].pc = "identify" /\ identity' = [identity EXCEPT ![s] = dir[s]]
      /\ UNCHANGED <<worker, proc, dir, aged, locked, eligible, used, dirs, spawned>>
      /\ UNCHANGED <<home, contended, unguarded, removed, mislaid>>
      /\ \/ client' = [client EXCEPT ![c].pc = "spawn", ![c].g = 0]
         \/ Return(c)
  BY DEF RestoreIdentifies, At, disk, counts, history, mishaps
<1>2. s \in Sessions  BY <1>1, SessionOf
<1> HIDE DEF s
<1>3. 0 \in 0 .. MaxDirs  BY Bounds
<1>4. CallOK(client[c], used)  BY DEF IInv, CallInv
<1>5. /\ client' \in [Clients -> ClientState] /\ Others(c)
      /\ client'[c].pc \in {"spawn", "idle"} /\ CallOK(client'[c], used)
      /\ client'[c].pc = "spawn" => client'[c].s = client[c].s
  <2>1. CASE client' = [client EXCEPT ![c].pc = "spawn", ![c].g = 0]
    <3>1. /\ client' \in [Clients -> ClientState] /\ Others(c)
          /\ client'[c].pc = "spawn" /\ client'[c].s = client[c].s
      BY <1>3, <2>1, SomePcs DEF IInv, Typed, ClientState, Others
    <3>2. QED  BY <1>1, <1>4, <3>1 DEF CallOK, Extracted
  <2>2. CASE Return(c)
    BY <2>2, ReturnFacts, IdleFacts DEF IInv
  <2>3. QED  BY <1>1, <2>1, <2>2
<1>6. Typed'
  <2>1. identity' \in [Sessions -> 0 .. MaxDirs]  BY <1>1, <1>2 DEF IInv, Typed
  <2>2. QED  BY <1>1, <1>5, <2>1 DEF IInv, Typed
<1>7. used' \in Nat /\ used <= used' /\ spawned' \in Nat /\ spawned <= spawned'
  BY <1>1, Bounds DEF IInv, Typed
<1>8. CallInv' /\ NeverWithoutWorkspace'
  BY <1>1, <1>5, <1>7, CallStays, WorkspaceStays
<1>9. /\ client'[c].pc \notin HoldPcs /\ client[c].pc \notin HoldPcs /\ ~Extracted(client'[c])
      /\ client[c].pc \in ActivePcs /\ client[c].pc \in FreshPcs /\ client'[c].pc # "swap_in"
      /\ client'[c].pc \in ActivePcs \cup FreshPcs => client'[c].s = client[c].s
  BY <1>1, <1>5 DEF HoldPcs, ActivePcs, FreshPcs, Extracted
<1>10. OwnerInv' /\ HomeInv' /\ KeptInv'
  BY <1>1, <1>5, <1>7, <1>9, OwnerStays, HomeStays, KeptStays
<1>11. DirInv' /\ NewInv' /\ OldInv'
  <2>1. Shrinks  BY <1>1, DirTypes DEF Shrinks
  <2>2. QED  BY <1>1, <1>5, <1>9, <2>1, DirStays, NewStays, OldStays
<1>12. LockedInv'
  <2>1. client'[c].pc # "publish"  BY <1>5
  <2>2. QED  BY <1>1, <1>5, <1>9, <2>1, TableStays, FreshStays DEF LockedInv
<1>13. QED  BY <1>6, <1>8, <1>10, <1>11, <1>12 DEF IInv

----------------------------------------------------------------------------
(* The cleanup command, time, and the end of the server process.           *)

\* A step outside the server that leaves its tables and calls alone.
LEMMA OutsideKeeps ==
    ASSUME IInv, UNCHANGED <<client, worker, identity, proc, used, dirs, spawned, locked>>,
           UNCHANGED <<home, contended, unguarded, mislaid>>,
           dir' \in [Sessions -> 0 .. MaxDirs], eligible' \in [Sessions -> 0 .. MaxDirs],
           removed \subseteq removed', Shrinks,
           \A s \in Sessions : dir'[s] # dir[s] => s \in removed',
           LockedInv'
    PROVE  IInv'
<1>1. Typed' /\ CallInv' /\ OwnerInv' /\ HomeInv'
  BY DEF IInv, Typed, CallInv, OwnerInv, HomeInv
<1>2. KeptInv'
  BY DEF IInv, KeptInv, Kept
<1>3. NeverWithoutWorkspace'
  <2>1. SUFFICES ASSUME NEW t \in 1 .. used, dir'[t] = 0, t \notin removed' \cup mislaid
                 PROVE  \E d \in Clients : client[d].s = t /\ client[d].pc = "swap_in"
    BY DEF NeverWithoutWorkspace
  <2>2. t \in Sessions  BY Bounds DEF IInv, Typed
  <2>3. QED  BY <2>1, <2>2 DEF IInv, NeverWithoutWorkspace
<1>4. DirInv'  BY DirStays
<1>5. NewInv' /\ OldInv'
  <2>1. CASE Clients = {}  BY <2>1 DEF NewInv, OldInv
  <2>2. CASE Clients # {}
    <3>1. PICK c \in Clients : TRUE  BY <2>2
    <3>2. Others(c)  BY DEF Others
    <3>3. QED  BY <3>2, NewStays, OldStays
  <2>3. QED  BY <2>1, <2>2
<1>6. QED  BY <1>1, <1>2, <1>3, <1>4, <1>5 DEF IInv

LEMMA CleanupScansKeeps == ASSUME IInv, NEW s \in Sessions, CleanupScans(s)  PROVE IInv'
<1>1. /\ dir[s] # 0 /\ dir[s] \in aged /\ dir[s] \notin locked
      /\ eligible' = [eligible EXCEPT ![s] = dir[s]]
      /\ UNCHANGED <<client, worker, identity, proc, used, dirs, spawned, locked>>
      /\ UNCHANGED <<home, contended, unguarded, mislaid, removed, dir, aged>>
  BY DEF CleanupScans, Candidate, table, disk, counts, history, mishaps
<1>2. /\ dir' \in [Sessions -> 0 .. MaxDirs] /\ eligible' \in [Sessions -> 0 .. MaxDirs]
      /\ eligible'[s] = dir[s] /\ \A t \in Sessions : t # s => eligible'[t] = eligible[t]
  BY <1>1 DEF IInv, Typed
<1>3. Shrinks
  BY <1>1, <1>2, DirTypes DEF Shrinks
<1>4. LockedInv'
  <2>1. TableLocked'
    BY <1>1, <1>2 DEF IInv, LockedInv, TableLocked
  <2>2. FreshLocked'
    <3>1. \A d \in Clients : client[d].pc \in FreshPcs => client[d].s \in Sessions
      BY SessionOf DEF FreshPcs
    <3>2. QED  BY <1>1, <1>2, <3>1 DEF IInv, LockedInv, FreshLocked
  <2>3. QED  BY <2>1, <2>2 DEF LockedInv
<1>5. QED  BY <1>1, <1>2, <1>3, <1>4, OutsideKeeps

LEMMA CleanupRemovesKeeps == ASSUME IInv, NEW s \in Sessions, CleanupRemoves(s)  PROVE IInv'
<1>1. /\ RemoveDir(s, eligible[s]) /\ eligible' = [eligible EXCEPT ![s] = 0]
      /\ UNCHANGED <<client, worker, identity, proc, used, dirs, spawned, locked>>
      /\ UNCHANGED <<home, contended, unguarded, mislaid, aged>>
  BY DEF CleanupRemoves, table, counts, mishaps
<1>2. /\ eligible' \in [Sessions -> 0 .. MaxDirs]
      /\ \A t \in Sessions : eligible'[t] \in {0, eligible[t]}
  <2>1. 0 \in 0 .. MaxDirs  BY Bounds
  <2>2. QED  BY <1>1, <2>1 DEF IInv, Typed
<1>3. /\ dir' \in [Sessions -> 0 .. MaxDirs] /\ removed \subseteq removed'
      /\ \A t \in Sessions : dir'[t] \in {0, dir[t]}
      /\ \A t \in Sessions : dir'[t] # dir[t] => t \in removed'
  BY <1>1, RemoveDirFacts
<1>4. Shrinks
  BY <1>1, <1>2, <1>3, DirTypes DEF Shrinks
<1>5. LockedInv'
  <2>1. TableLocked'  BY <1>1, <1>2, <1>3, TableStays
  <2>2. FreshLocked'
    <3>1. \A d \in Clients : client[d].pc \in FreshPcs => client[d].s \in Sessions
      BY SessionOf DEF FreshPcs
    <3>2. QED  BY <1>1, <1>2, <1>3, <3>1 DEF IInv, LockedInv, FreshLocked
  <2>3. QED  BY <2>1, <2>2 DEF LockedInv
<1>6. QED  BY <1>1, <1>2, <1>3, <1>4, <1>5, OutsideKeeps

LEMMA PassTtlKeeps == ASSUME IInv, NEW s \in Sessions, PassTtl(s)  PROVE IInv'
<1>1. /\ UNCHANGED <<client, worker, identity, proc, used, dirs, spawned, locked>>
      /\ UNCHANGED <<home, contended, unguarded, mislaid, removed, dir, aged, eligible>>
  BY DEF PassTtl, disk, counts, history, mishaps
<1>2. Shrinks  BY <1>1, DirTypes DEF Shrinks
<1>3. LockedInv'
  BY <1>1 DEF IInv, LockedInv, TableLocked, FreshLocked
<1>4. QED  BY <1>1, <1>2, <1>3, OutsideKeeps DEF IInv, Typed

LEMMA PassAgeKeeps == ASSUME IInv, NEW s \in Sessions, PassAge(s)  PROVE IInv'
<1>1. /\ dir[s] # 0 /\ ~Busy(s) /\ aged' = aged \cup {dir[s]}
      /\ UNCHANGED <<client, worker, identity, proc, used, dirs, spawned, locked>>
      /\ UNCHANGED <<home, contended, unguarded, mislaid, removed, dir, eligible>>
  BY DEF PassAge, table, counts, history, mishaps
<1>2. Shrinks  BY <1>1, DirTypes DEF Shrinks
<1>3. \A d \in Clients : client[d].pc \in FreshPcs => client[d].s # s /\ client[d].s \in Sessions
  BY <1>1, SessionOf DEF Busy, FreshPcs
<1>4. LockedInv'
  <2>1. TableLocked'  BY <1>1 DEF IInv, LockedInv, TableLocked
  <2>2. \A d \in Clients : client[d].pc \in FreshPcs /\ dir[client[d].s] # 0 => dir[client[d].s] # dir[s]
    BY <1>3 DEF IInv, DirInv
  <2>3. FreshLocked'
    BY <1>1, <2>2 DEF IInv, LockedInv, FreshLocked
  <2>4. QED  BY <2>1, <2>3 DEF LockedInv
<1>5. QED  BY <1>1, <1>2, <1>4, OutsideKeeps DEF IInv, Typed

LEMMA RestartKeeps == ASSUME IInv, Restart  PROVE IInv'
<1>1. /\ worker' = [s \in Sessions |-> 0] /\ identity' = [s \in Sessions |-> 0]
      /\ client' = [c \in Clients |-> Idle]
      /\ proc' = [w \in WorkerIds |-> IF proc[w] = "live" THEN "dead" ELSE proc[w]]
      /\ mislaid' = mislaid \cup {client[c].s : c \in {d \in Clients : client[d].pc = "swap_in"}}
      /\ UNCHANGED <<dir, eligible, aged, used, dirs, spawned, home, removed>>
  BY DEF Restart, At
<1>2. 0 \in 0 .. MaxWorkers /\ 0 \in 0 .. MaxDirs  BY Bounds
<1>3. Typed'
  BY <1>1, <1>2, IdleFacts DEF IInv, Typed
<1>4. \A c \in Clients : client'[c].pc = "idle" /\ CallOK(client'[c], used) /\ ~Extracted(client'[c])
  BY <1>1, IdleFacts
<1>5. CallInv'  BY <1>1, <1>4 DEF CallInv
<1>6. NeverWithoutWorkspace'
  BY <1>1 DEF IInv, NeverWithoutWorkspace
<1>7. OwnerInv' /\ HomeInv'
  BY <1>1, <1>4 DEF OwnerInv, HomeInv, ActivePcs, HoldPcs
<1>8. KeptInv'
  <2>1. \A w \in WorkerIds : proc'[w] # "live"  BY <1>1
  <2>2. QED  BY <2>1 DEF KeptInv
<1>9. DirInv'  BY <1>1 DEF IInv, DirInv
<1>10. NewInv' /\ OldInv'  BY <1>4 DEF NewInv, OldInv
<1>11. LockedInv'
  BY <1>1, <1>4 DEF LockedInv, TableLocked, FreshLocked, FreshPcs
<1>12. QED  BY <1>3, <1>5, <1>6, <1>7, <1>8, <1>9, <1>10, <1>11 DEF IInv

----------------------------------------------------------------------------
LEMMA NewCallKeeps == ASSUME IInv, NEW c \in Clients, NewCall(c)  PROVE IInv'
<1>1. CASE Start(c) \/ RestoreNew(c)
  BY <1>1, MakeSessionKeeps DEF Start, RestoreNew
<1>2. ASSUME NEW s \in Sessions, StopPops(c, s) \/ ExecuteBegins(c, s) \/ Sweep(c, s)  PROVE IInv'
  BY <1>2, StopPopsKeeps, ExecuteBeginsKeeps, SweepKeeps
<1>3. ASSUME NEW s \in Sessions, NEW call \in Calls, TouchBegins(c, call, s)  PROVE IInv'
  BY <1>3, TouchBeginsKeeps
<1>4. QED  BY <1>1, <1>2, <1>3 DEF NewCall

LEMMA CallStepKeeps == ASSUME IInv, NEW c \in Clients, CallStep(c)  PROVE IInv'
<1>1. CASE Spawn(c) \/ WriteLock(c) \/ Publish(c)
  BY <1>1, SpawnKeeps, WriteLockKeeps, PublishKeeps
<1>2. CASE Close(c) \/ WriteMarker(c) \/ RemoveLock(c) \/ Note(c)
  BY <1>2, CloseKeeps, WriteMarkerKeeps, RemoveLockKeeps, NoteKeeps
<1>3. CASE Lookup(c) \/ CheckMarker(c) \/ RunFresh(c) \/ Run(c)
  BY <1>3, LookupKeeps, CheckMarkerKeeps, RunFreshKeeps, RunKeeps
<1>4. CASE StopRemoves(c) \/ Save(c)
  BY <1>4, StopRemovesKeeps, SaveKeeps
<1>5. CASE RestoreExtracts(c) \/ RestorePops(c) \/ RestoreAside(c)
  BY <1>5, RestoreExtractsKeeps, RestorePopsKeeps, RestoreAsideKeeps
<1>6. CASE RestoreSwaps(c) \/ RestoreIdentifies(c)
  BY <1>6, RestoreSwapsKeeps, RestoreIdentifiesKeeps
<1>7. QED  BY <1>1, <1>2, <1>3, <1>4, <1>5, <1>6 DEF CallStep

LEMMA NextKeeps == ASSUME IInv, [Next]_vars  PROVE IInv'
<1>1. ASSUME NEW c \in Clients, NewCall(c) \/ CallStep(c)  PROVE IInv'
  BY <1>1, NewCallKeeps, CallStepKeeps
<1>2. CASE Environment
  BY <1>2, PassTtlKeeps, PassAgeKeeps, CleanupScansKeeps, CleanupRemovesKeeps, RestartKeeps
     DEF Environment
<1>3. CASE UNCHANGED vars
  <2>1. /\ UNCHANGED <<client, worker, identity, proc, used, dirs, spawned, locked>>
        /\ UNCHANGED <<home, contended, unguarded, mislaid, removed, dir, aged, eligible>>
    BY <1>3 DEF vars, table, disk, counts, history, mishaps
  <2>2. Shrinks  BY <2>1, DirTypes DEF Shrinks
  <2>3. LockedInv'
    BY <2>1 DEF IInv, LockedInv, TableLocked, FreshLocked
  <2>4. QED  BY <2>1, <2>2, <2>3, OutsideKeeps DEF IInv, Typed
<1>4. QED  BY <1>1, <1>2, <1>3 DEF Next

LEMMA InitHolds == Init => IInv
<1>1. SUFFICES ASSUME Init  PROVE IInv
  OBVIOUS
<1>2. 0 \in 0 .. MaxWorkers /\ 0 \in 0 .. MaxDirs /\ 0 \in 0 .. MaxSessions
  BY Bounds
<1>3. \A c \in Clients : client[c] = Idle
  BY <1>1 DEF Init
<1>4. Typed
  BY <1>1, <1>2, IdleFacts DEF Init, Typed
<1>5. CallInv
  BY <1>3, IdleFacts DEF CallInv
<1>6. NeverWithoutWorkspace
  BY <1>1 DEF Init, NeverWithoutWorkspace
<1>7. OwnerInv /\ HomeInv
  BY <1>1, <1>3, IdleFacts DEF Init, OwnerInv, HomeInv, ActivePcs, HoldPcs
<1>8. KeptInv /\ DirInv
  BY <1>1 DEF Init, KeptInv, DirInv
<1>9. NewInv /\ OldInv
  BY <1>1, <1>3, IdleFacts DEF NewInv, OldInv
<1>10. LockedInv
  BY <1>1, <1>3, IdleFacts DEF Init, LockedInv, TableLocked, FreshLocked, FreshPcs
<1>11. QED  BY <1>4, <1>5, <1>6, <1>7, <1>8, <1>9, <1>10 DEF IInv

----------------------------------------------------------------------------
(* The theorems.                                                           *)

\* The inductive invariant holds throughout.
THEOREM Invariance == Spec => []IInv
<1>1. Init => IInv  BY InitHolds
<1>2. IInv /\ [Next]_vars => IInv'  BY NextKeeps
<1>3. QED  BY <1>1, <1>2, PTL DEF Spec

\* A session whose directory neither stop() nor the cleanup command deleted has a
\* workspace, except between the two renames of a restore, and where the renames
\* failed there and back or the server died between them: whatever calls overlap,
\* restores of the same session included.
THEOREM WorkspaceKept == Spec => []NeverWithoutWorkspace
<1>1. IInv => NeverWithoutWorkspace  BY DEF IInv
<1>2. QED  BY <1>1, Invariance, PTL

\* A worker process is never lost by calls that overlap: it is in _workers, or a
\* call holds it that publishes or closes it, unless a restore took its session
\* over while another call was making or taking a worker of it.
THEOREM WorkersKept == Spec => []NoWorkerLeaks
<1>1. IInv => NoWorkerLeaks
  BY DEF IInv, KeptInv, Kept, NoWorkerLeaks
<1>2. QED  BY <1>1, Invariance, PTL

LEMMA OnlyCleanupForgets ==
    ASSUME IInv, [Next]_vars, NEW s \in Sessions, eligible[s] # 0, eligible'[s] = 0
    PROVE  CleanupRemoves(s)
<1>1. eligible' # eligible
  OBVIOUS
<1>2. ~UNCHANGED vars
  BY <1>1 DEF vars
<1>3. ASSUME NEW c \in Clients, NewCall(c)  PROVE FALSE
  <2>1. eligible' = eligible
    BY <1>3 DEF NewCall, Start, RestoreNew, MakeSession, StopPops, ExecuteBegins, Sweep,
                TouchBegins, Reap
  <2>2. QED  BY <1>1, <2>1
<1>4. ASSUME NEW c \in Clients, CallStep(c)  PROVE FALSE
  <2>1. CASE Spawn(c) \/ WriteLock(c) \/ Publish(c) \/ Close(c) \/ WriteMarker(c) \/ RemoveLock(c)
             \/ Note(c)
    BY <1>1, <2>1 DEF Spawn, WriteLock, Publish, Close, WriteMarker, RemoveLock, Note
  <2>2. CASE Lookup(c) \/ CheckMarker(c) \/ RunFresh(c) \/ Run(c) \/ StopRemoves(c) \/ Save(c)
    BY <1>1, <2>2 DEF Lookup, Reap, FindWorker, CheckMarker, RunFresh, Run, StopRemoves, Save
  <2>3. CASE RestoreExtracts(c) \/ RestorePops(c) \/ RestoreAside(c) \/ RestoreSwaps(c)
             \/ RestoreIdentifies(c)
    BY <1>1, <2>3 DEF RestoreExtracts, RestorePops, RestoreAside, RestoreSwaps, RestoreIdentifies
  <2>4. QED  BY <1>4, <2>1, <2>2, <2>3 DEF CallStep
<1>5. CASE Environment
  <2>1. ASSUME NEW t \in Sessions, PassTtl(t) \/ PassAge(t)  PROVE FALSE
    BY <1>1, <2>1 DEF PassTtl, PassAge
  <2>2. CASE Restart
    BY <1>1, <2>2 DEF Restart
  <2>3. ASSUME NEW t \in Sessions, CleanupScans(t)  PROVE FALSE
    <3>1. eligible' = [eligible EXCEPT ![t] = dir[t]] /\ dir[t] # 0
      BY <2>3 DEF CleanupScans, Candidate
    <3>2. QED  BY <3>1 DEF IInv, Typed
  <2>4. ASSUME NEW t \in Sessions, CleanupRemoves(t)  PROVE CleanupRemoves(s)
    <3>1. eligible' = [eligible EXCEPT ![t] = 0]  BY <2>4 DEF CleanupRemoves
    <3>2. t = s  BY <3>1 DEF IInv, Typed
    <3>3. QED  BY <2>4, <3>2
  <2>5. QED  BY <1>5, <2>1, <2>2, <2>3, <2>4 DEF Environment
<1>6. QED  BY <1>2, <1>3, <1>4, <1>5 DEF Next

\* ops.cleanup never removes the directory of a session that has a worker, however
\* long passes and whatever happens, restores included, between its scan of the
\* directories and the removal; unless the session's lock file could not be
\* written, or a restore took the session over in the middle of another call.
THEOREM CleanupIsSafe == Spec => CleanupSparesWorkers
<1>1. ASSUME IInv, [Next]_vars, NEW s \in Sessions,
             eligible[s] # 0, eligible'[s] = 0, worker[s] # 0, s \notin unguarded \cup contended
      PROVE  dir'[s] = dir[s]
  <2>1. RemoveDir(s, eligible[s])
    BY <1>1, OnlyCleanupForgets DEF CleanupRemoves
  <2>2. dir[s] # eligible[s]
    BY <1>1 DEF IInv, LockedInv, TableLocked
  <2>3. QED  BY <2>1, <2>2 DEF RemoveDir
<1>2. IInv /\ [Next]_vars =>
          [\A s \in Sessions : eligible[s] # 0 /\ eligible'[s] = 0 /\ worker[s] # 0
                                /\ s \notin unguarded \cup contended =>
               dir'[s] = dir[s]]_vars
  BY <1>1
<1>3. QED  BY <1>2, Invariance, PTL DEF Spec, CleanupSparesWorkers

----------------------------------------------------------------------------
(* What is remembered of an expiry.                                        *)

\* Where a call has taken an expiry back, or never knew one.
GonePcs == {"spawn", "lock", "publish", "close", "unlock", "aside", "swap_in", "identify"}

\* An expired session without its marker is in the cache.  A call that has
\* found neither a worker nor an entry found it in a session that cannot
\* expire before the marker is looked at.  A stop or a restore that is under
\* way has taken the expiry back.
ReapedInv ==
    \A s \in Sessions : s \in reaped =>
        /\ s <= used
        /\ s \in forgotten \cup contended \/ IsExpired(s) \/ dir[s] = 0 \/ dir[s] \in marked
MarkerOK(s) ==
    \/ s \in forgotten \cup contended
    \/ ~Reapable(s) /\ (s \in reaped => dir[s] = 0 \/ dir[s] \in marked)
ExpiryInv ==
    /\ expired \in Seq(Sessions) /\ Len(expired) <= ExpiredCap
    /\ ReapedInv
    /\ \A c \in Clients : client[c].pc = "marker" => MarkerOK(client[c].s)
    /\ \A c \in Clients : client[c].pc \in GonePcs => client[c].s \notin reaped \/ client[c].s \in contended

\* No entry is lost when one is added, except the first where there is no room.
LEMMA MarkFacts ==
    ASSUME expired \in Seq(Sessions), Len(expired) <= ExpiredCap, NEW s \in Sessions,
           expired' = MarkExpired(s)
    PROVE  /\ expired' \in Seq(Sessions) /\ Len(expired') <= ExpiredCap /\ IsExpired(s)'
           /\ \A t \in Sessions : IsExpired(t) => IsExpired(t)' \/ t \in Evicted(s)
<1>0. ExpiredCap \in Nat /\ ExpiredCap # 0  BY SessionLifecycleAssumption
<1>1. CASE IsExpired(s)
  <2>1. expired' = IF Len(expired) > ExpiredCap THEN Tail(expired) ELSE expired
    BY <1>1 DEF MarkExpired
  <2>2. Len(expired) \in Nat  OBVIOUS
  <2>3. ~(Len(expired) > ExpiredCap)
    BY <1>0, <2>2
  <2>4. expired' = expired  BY <2>1, <2>3, Zenon
  <2>5. QED  BY <1>1, <2>4 DEF IsExpired
<1>2. CASE ~IsExpired(s)
  <2> DEFINE q == Append(expired, s)
  <2>1. /\ q \in Seq(Sessions) /\ Len(q) = Len(expired) + 1 /\ Len(q) \in Nat
        /\ DOMAIN expired = 1 .. Len(expired) /\ DOMAIN q = 1 .. Len(q)
        /\ Len(expired) \in Nat /\ q # <<>>
        /\ q[Len(q)] = s /\ \A i \in 1 .. Len(expired) : q[i] = expired[i]
    OBVIOUS
  <2>2. expired' = IF Len(q) > ExpiredCap THEN Tail(q) ELSE q
    BY <1>2 DEF MarkExpired
  <2>3. Len(q) > ExpiredCap => Evicted(s) = {Head(q)}
    BY <1>2, <2>1 DEF Evicted
  <2> HIDE DEF q
  <2>4. CASE Len(q) > ExpiredCap
    <3>1. /\ expired' = Tail(q) /\ Tail(q) \in Seq(Sessions) /\ Len(Tail(q)) = Len(q) - 1
          /\ DOMAIN Tail(q) = 1 .. Len(q) - 1
          /\ \A i \in 1 .. Len(q) - 1 : Tail(q)[i] = q[i + 1]
          /\ Head(q) = q[1]
      BY <2>1, <2>2, <2>4
    <3>2. Len(q) - 1 \in 1 .. Len(q) - 1 /\ (Len(q) - 1) + 1 = Len(q)
      BY <1>0, <2>1, <2>4
    <3>3. IsExpired(s)'
      BY <2>1, <3>1, <3>2 DEF IsExpired
    <3>4. ASSUME NEW t \in Sessions, IsExpired(t), t # Head(q)  PROVE IsExpired(t)'
      <4>1. PICK i \in 1 .. Len(expired) : q[i] = t  BY <2>1, <3>4 DEF IsExpired
      <4>2. i # 1  BY <3>1, <3>4, <4>1
      <4>3. i - 1 \in 1 .. Len(q) - 1 /\ (i - 1) + 1 = i  BY <2>1, <4>1, <4>2
      <4>4. expired'[i - 1] = t /\ i - 1 \in DOMAIN expired'  BY <3>1, <4>1, <4>3
      <4>5. QED  BY <4>4 DEF IsExpired
    <3>5. Len(expired') <= ExpiredCap
      BY <1>0, <2>1, <3>1
    <3>6. QED  BY <2>3, <2>4, <3>1, <3>3, <3>4, <3>5
  <2>5. CASE ~(Len(q) > ExpiredCap)
    <3>1. expired' = q  BY <2>2, <2>5, Zenon
    <3>2. Len(q) <= ExpiredCap  BY <1>0, <2>1, <2>5
    <3>3. IsExpired(s)' /\ \A t \in Sessions : IsExpired(t) => IsExpired(t)'
      BY <2>1, <3>1 DEF IsExpired
    <3>4. QED  BY <2>1, <3>1, <3>2, <3>3
  <2>6. QED  BY <2>4, <2>5
<1>3. QED  BY <1>1, <1>2

\* Only the entry of s goes.
LEMMA DiscardFacts ==
    ASSUME expired \in Seq(Sessions), Len(expired) <= ExpiredCap, NEW s \in Sessions,
           expired' = DiscardExpired(s)
    PROVE  /\ expired' \in Seq(Sessions) /\ Len(expired') <= ExpiredCap
           /\ \A t \in Sessions : t # s /\ IsExpired(t) => IsExpired(t)'
<1>1. CASE ~IsExpired(s)
  BY <1>1 DEF DiscardExpired, IsExpired
<1>2. CASE IsExpired(s)
  <2> DEFINE i == CHOOSE k \in DOMAIN expired : expired[k] = s
  <2> DEFINE n == Len(expired)
  <2> DEFINE at(j) == IF j < i THEN j ELSE j + 1
  <2>1. i \in DOMAIN expired /\ expired[i] = s
    BY <1>2 DEF IsExpired
  <2>2. n \in Nat /\ DOMAIN expired = 1 .. n /\ \A j \in 1 .. n : expired[j] \in Sessions
    OBVIOUS
  <2>3. expired' = [j \in 1 .. n - 1 |-> expired[at(j)]]
    BY <1>2 DEF DiscardExpired
  <2>4. n <= ExpiredCap /\ ExpiredCap \in Nat  BY SessionLifecycleAssumption
  <2> HIDE DEF i, n
  <2>5. \A j \in 1 .. n - 1 : at(j) \in 1 .. n
    BY <2>1, <2>2
  <2>6. n - 1 \in Nat  BY <2>1, <2>2
  <2>7. expired' \in Seq(Sessions) /\ DOMAIN expired' = 1 .. n - 1 /\ Len(expired') = n - 1
    BY <2>2, <2>3, <2>5, <2>6
  <2>8. ASSUME NEW t \in Sessions, t # s, IsExpired(t)  PROVE IsExpired(t)'
    <3>1. PICK k \in 1 .. n : expired[k] = t
      BY <2>2, <2>8 DEF IsExpired
    <3>2. k # i
      BY <2>1, <2>8, <3>1
    <3>3. PICK j \in 1 .. n - 1 : at(j) = k
      <4>1. CASE k < i  BY <2>1, <2>2, <3>1, <4>1
      <4>2. CASE k > i
        <5>1. k - 1 \in 1 .. n - 1 /\ at(k - 1) = k  BY <2>1, <2>2, <3>1, <4>2
        <5>2. QED  BY <5>1
      <4>3. QED  BY <2>1, <2>2, <3>1, <3>2, <4>1, <4>2
    <3>4. QED  BY <2>3, <2>7, <3>1, <3>3 DEF IsExpired
  <2>9. Len(expired') <= ExpiredCap  BY <2>2, <2>4, <2>7
  <2>10. QED  BY <2>7, <2>8, <2>9
<1>3. QED  BY <1>1, <1>2

\* No call comes to look at a marker, and none begins to make or take a worker.
Settled ==
    \A d \in Clients :
        /\ client'[d].pc = "marker" => client[d].pc = "marker" /\ client'[d].s = client[d].s
        /\ client'[d].pc \in GonePcs => client[d].pc \in GonePcs /\ client'[d].s = client[d].s

LEMMA ThreadSettled ==
    ASSUME NEW c \in Clients, Others(c), client'[c].pc # "marker",
           client'[c].pc \in GonePcs => client[c].pc \in GonePcs /\ client'[c].s = client[c].s
    PROVE  Settled
BY DEF Settled, Others

LEMMA GotoSettled ==
    ASSUME IInv, NEW c \in Clients, NEW pc \in Pcs, Goto(c, pc),
           pc # "marker", pc \in GonePcs => client[c].pc \in GonePcs
    PROVE  Settled
<1>1. Others(c) /\ client'[c].pc = pc /\ client'[c].s = client[c].s
  BY GotoFacts DEF IInv
<1>2. QED  BY <1>1, ThreadSettled

LEMMA ReturnSettled ==
    ASSUME IInv, NEW c \in Clients, Return(c)
    PROVE  Settled
<1>1. Others(c) /\ client'[c] = Idle
  BY ReturnFacts DEF IInv
<1>2. QED  BY <1>1, IdleFacts, ThreadSettled DEF GonePcs

LEMMA ExpiryFrame ==
    ASSUME IInv, ExpiryInv, Settled, UNCHANGED <<worker, expired, reaped, used, forgotten, contended>>,
           stale' \subseteq stale, marked \subseteq marked',
           \A t \in Sessions : t \notin reaped \/ t \in contended \/ dir'[t] \in {0, dir[t]}
    PROVE  ExpiryInv'
<1>1. \A t \in Sessions : IsExpired(t) => IsExpired(t)'
  BY DEF IsExpired
<1>2. ReapedInv'
  BY <1>1 DEF ExpiryInv, ReapedInv
<1>3. ASSUME NEW d \in Clients, client'[d].pc = "marker"
      PROVE  MarkerOK(client[d].s)'
  <2>1. client[d].pc = "marker" /\ client'[d].s = client[d].s
    BY <1>3 DEF Settled
  <2>2. client[d].s \in Sessions
    BY <2>1, SessionOf
  <2>3. MarkerOK(client[d].s)  BY <2>1 DEF ExpiryInv
  <2>4. QED  BY <2>1, <2>2, <2>3 DEF MarkerOK, Reapable
<1>4. \A d \in Clients : client'[d].pc \in GonePcs =>
          client'[d].s \notin reaped' \/ client'[d].s \in contended'
  BY DEF ExpiryInv, Settled
<1>5. QED  BY <1>2, <1>3, <1>4 DEF ExpiryInv

\* A reaping: the session is in the cache, and no call is looking at its marker.
LEMMA ReapRemembered ==
    ASSUME IInv, ExpiryInv, NEW c \in Clients,
           NEW call \in AllCalls, NEW s \in Sessions, Reap(c, call, s)
    PROVE  ExpiryInv'
<1> DEFINE x == InCall(call, "reap_close", s, worker[s], 0)
<1>1. /\ Reapable(s) /\ worker' = [worker EXCEPT ![s] = 0] /\ stale' = stale \ {s}
      /\ expired' = MarkExpired(s) /\ reaped' = reaped \cup {s}
      /\ forgotten' = forgotten \cup {t \in Evicted(s) : dir[t] \notin marked}
      /\ client' = [client EXCEPT ![c] = x]
      /\ UNCHANGED <<dir, marked, used, contended>>
  BY DEF Reap, Forget, disk, counts
<1>2. /\ worker[s] # 0 /\ worker[s] \in 0 .. MaxWorkers /\ 0 \in 0 .. MaxDirs /\ "reap_close" \in Pcs
  BY <1>1, Bounds, SomePcs DEF Reapable, IInv, Typed
<1>3. x \in ClientState /\ x.pc = "reap_close"
  BY <1>2, InCallFacts
<1> HIDE DEF x
<1>4. Others(c) /\ client'[c] = x
  BY <1>1, <1>3, SetFacts DEF IInv
<1>5. \A d \in Clients : client'[d].pc \in {"marker"} \cup GonePcs => client'[d] = client[d]
  BY <1>3, <1>4 DEF Others, GonePcs
<1>6. /\ expired' \in Seq(Sessions) /\ Len(expired') <= ExpiredCap /\ IsExpired(s)'
      /\ \A t \in Sessions : IsExpired(t) => IsExpired(t)' \/ t \in Evicted(s)
  BY <1>1, MarkFacts DEF ExpiryInv
<1>7. s <= used
  <2>1. used \in Nat /\ s \in Nat  BY Bounds DEF IInv, Typed
  <2>2. QED  BY <1>2, <2>1 DEF IInv, OwnerInv
<1>8. ReapedInv'
  BY <1>1, <1>6, <1>7 DEF ExpiryInv, ReapedInv
<1>9. ASSUME NEW d \in Clients, client'[d].pc = "marker"
      PROVE  MarkerOK(client[d].s)'
  <2>1. client'[d] = client[d] /\ client[d].pc = "marker" /\ MarkerOK(client[d].s)
    BY <1>5, <1>9 DEF ExpiryInv
  <2>2. client[d].s \in Sessions
    BY <2>1, SessionOf
  <2>3. CASE client[d].s \in forgotten \cup contended
    BY <1>1, <2>1, <2>3 DEF MarkerOK
  <2>4. CASE client[d].s \notin forgotten \cup contended
    <3>1. client[d].s # s  BY <1>1, <2>1, <2>4 DEF MarkerOK
    <3>2. worker'[client[d].s] = worker[client[d].s]
      BY <1>1, <2>2, <3>1 DEF IInv, Typed
    <3>3. QED  BY <1>1, <2>1, <2>4, <3>1, <3>2 DEF MarkerOK, Reapable
  <2>5. QED  BY <2>3, <2>4
<1>10. ASSUME NEW d \in Clients, client'[d].pc \in GonePcs
       PROVE  client'[d].s \notin reaped' \/ client'[d].s \in contended'
  <2>1. client'[d] = client[d] /\ client[d].pc \in GonePcs
    BY <1>5, <1>10
  <2>2. worker[client[d].s] = 0 \/ client[d].s \in contended
    BY <2>1 DEF IInv, OwnerInv, GonePcs, ActivePcs
  <2>3. QED  BY <1>1, <1>2, <2>1, <2>2 DEF ExpiryInv
<1>11. QED  BY <1>6, <1>8, <1>9, <1>10 DEF ExpiryInv

\* execute() finds neither an entry nor an idle worker: an expired session has
\* its marker by now.
LEMMA FindWorkerRemembered ==
    ASSUME IInv, ExpiryInv, NEW c \in Clients, client[c].pc = "lookup",
           ~IsExpired(client[c].s), FindWorker(c, client[c].s)
    PROVE  ExpiryInv'
<1> DEFINE s == client[c].s
<1> DEFINE pc == IF worker[s] # 0 THEN "run" ELSE "marker"
<1>1. /\ ~Reapable(s) /\ client' = [client EXCEPT ![c].pc = pc, ![c].w = worker[s]]
  BY DEF FindWorker
<1>2. UNCHANGED <<worker, stale, expired, dir, marked, reaped, used, forgotten, contended>>
  BY DEF FindWorker, table, disk, counts, history, mishaps
<1>3. s \in Sessions /\ worker[s] \in 0 .. MaxWorkers /\ pc \in Pcs /\ pc \in {"run", "marker"}
  BY SessionOf, SomePcs DEF IInv, Typed
<1>4. Others(c) /\ client'[c].pc = pc /\ client'[c].s = s
  <2> HIDE DEF pc
  <2>1. QED  BY <1>1, <1>3 DEF IInv, Typed, ClientState, Others
<1>5. MarkerOK(s)
  BY <1>1, <1>3 DEF ExpiryInv, ReapedInv, MarkerOK
<1> HIDE DEF s, pc
<1>7. ASSUME NEW d \in Clients, client'[d].pc = "marker"
      PROVE  MarkerOK(client[d].s)'
  <2>1. CASE d = c
    BY <1>2, <1>4, <1>5, <2>1 DEF MarkerOK, Reapable
  <2>2. CASE d # c
    <3>1. client'[d] = client[d]  BY <1>4, <2>2 DEF Others
    <3>2. MarkerOK(client[d].s)  BY <1>7, <3>1 DEF ExpiryInv
    <3>3. QED  BY <1>2, <3>1, <3>2 DEF MarkerOK, Reapable
  <2>3. QED  BY <2>1, <2>2
<1>8. ASSUME NEW d \in Clients, client'[d].pc \in GonePcs
      PROVE  client'[d].s \notin reaped' \/ client'[d].s \in contended'
  <2>1. d # c
    BY <1>3, <1>4, <1>8 DEF GonePcs
  <2>2. client'[d] = client[d]  BY <1>4, <2>1 DEF Others
  <2>3. QED  BY <1>2, <1>8, <2>2 DEF ExpiryInv
<1>9. ReapedInv'
  BY <1>2 DEF ExpiryInv, ReapedInv, IsExpired
<1>10. QED  BY <1>2, <1>7, <1>8, <1>9 DEF ExpiryInv

\* start() clears the entry of a session that has not expired.
LEMMA PublishRemembered ==
    ASSUME IInv, ExpiryInv, NEW c \in Clients, Publish(c)
    PROVE  ExpiryInv'
<1> DEFINE s == client[c].s
<1>1. /\ client[c].pc = "publish" /\ worker' = [worker EXCEPT ![s] = client[c].w]
      /\ stale' = stale \ {s} /\ Return(c)
      /\ expired' = expired \/ expired' = DiscardExpired(s)
      /\ UNCHANGED <<dir, marked, reaped, used, forgotten, contended>>
  BY DEF Publish, At, disk, counts, history, mishaps
<1>2. s \in Sessions /\ (s \notin reaped \/ s \in contended)
  BY <1>1, SessionOf DEF ExpiryInv, GonePcs
<1>3. /\ expired' \in Seq(Sessions) /\ Len(expired') <= ExpiredCap
      /\ \A t \in Sessions : t # s /\ IsExpired(t) => IsExpired(t)'
  <2>1. CASE expired' = expired
    BY <2>1 DEF ExpiryInv, IsExpired
  <2>2. CASE expired' = DiscardExpired(s)
    BY <1>2, <2>2, DiscardFacts DEF ExpiryInv
  <2>3. QED  BY <1>1, <2>1, <2>2
<1>4. Settled
  BY <1>1, ReturnSettled
<1> HIDE DEF s
<1>5. ReapedInv'
  BY <1>1, <1>2, <1>3 DEF ExpiryInv, ReapedInv
<1>6. ASSUME NEW d \in Clients, client'[d].pc = "marker"
      PROVE  MarkerOK(client[d].s)'
  <2>1. client[d].pc = "marker" /\ client'[d].s = client[d].s /\ MarkerOK(client[d].s)
    BY <1>4, <1>6 DEF Settled, ExpiryInv
  <2>2. client[d].s \in Sessions
    BY <2>1, SessionOf
  <2>3. client[d].s \notin stale' \/ worker'[client[d].s] = worker[client[d].s]
    BY <1>1, <2>2 DEF IInv, Typed
  <2>4. QED  BY <1>1, <2>1, <2>3 DEF MarkerOK, Reapable
<1>7. \A d \in Clients : client'[d].pc \in GonePcs =>
          client'[d].s \notin reaped' \/ client'[d].s \in contended'
  BY <1>1, <1>4 DEF ExpiryInv, Settled
<1>8. QED  BY <1>3, <1>5, <1>6, <1>7 DEF ExpiryInv

\* A stop or a restore takes the expiry of s back.
LEMMA PopRemembered ==
    ASSUME IInv, ExpiryInv, NEW c \in Clients, NEW s \in Sessions, Others(c),
           client'[c].pc # "marker", client'[c].pc \in GonePcs => client'[c].s = s,
           worker' = [worker EXCEPT ![s] = 0], stale' = stale \ {s},
           expired' = DiscardExpired(s), reaped' = reaped \ {s}, forgotten' = forgotten \ {s},
           contended \subseteq contended', UNCHANGED <<dir, marked, used>>
    PROVE  ExpiryInv'
<1>1. /\ expired' \in Seq(Sessions) /\ Len(expired') <= ExpiredCap
      /\ \A t \in Sessions : t # s /\ IsExpired(t) => IsExpired(t)'
  BY DiscardFacts DEF ExpiryInv
<1>2. ReapedInv'
  BY <1>1 DEF ExpiryInv, ReapedInv
<1>3. ASSUME NEW d \in Clients, client'[d].pc = "marker"
      PROVE  MarkerOK(client[d].s)'
  <2>1. client'[d] = client[d] /\ client[d].pc = "marker" /\ MarkerOK(client[d].s)
    BY <1>3 DEF Others, ExpiryInv
  <2>2. client[d].s \in Sessions  BY <2>1, SessionOf
  <2>3. client[d].s = s \/ worker'[client[d].s] = worker[client[d].s]
    BY <2>2 DEF IInv, Typed
  <2>4. QED  BY <2>1, <2>3 DEF MarkerOK, Reapable
<1>4. \A d \in Clients : client'[d].pc \in GonePcs =>
          client'[d].s \notin reaped' \/ client'[d].s \in contended'
  BY DEF ExpiryInv, Others
<1>5. QED  BY <1>1, <1>2, <1>3, <1>4 DEF ExpiryInv

LEMMA StopPopsRemembered ==
    ASSUME IInv, ExpiryInv, NEW c \in Clients, NEW s \in Sessions, StopPops(c, s)
    PROVE  ExpiryInv'
<1> DEFINE pc == IF worker[s] # 0 THEN "close" ELSE "rmtree"
<1> DEFINE x == InCall("stop", pc, s, worker[s], identity[s])
<1>1. /\ worker' = [worker EXCEPT ![s] = 0] /\ stale' = stale \ {s}
      /\ expired' = DiscardExpired(s) /\ reaped' = reaped \ {s} /\ forgotten' = forgotten \ {s}
      /\ client' = [client EXCEPT ![c] = x]
      /\ UNCHANGED <<dir, marked, used, contended>>
  BY DEF StopPops, Forget, disk, counts
<1>2. /\ worker[s] \in 0 .. MaxWorkers /\ identity[s] \in 0 .. MaxDirs /\ pc \in Pcs
      /\ "stop" \in AllCalls /\ pc # "marker"
  BY SomePcs DEF IInv, Typed, AllCalls
<1>3. x \in ClientState /\ x.pc = pc /\ x.s = s
  <2> HIDE DEF pc
  <2>1. QED  BY <1>2, InCallFacts
<1> HIDE DEF x, pc
<1>4. Others(c) /\ client'[c] = x
  BY <1>1, <1>3, SetFacts DEF IInv
<1>5. QED  BY <1>1, <1>2, <1>3, <1>4, PopRemembered

LEMMA RestorePopsRemembered ==
    ASSUME IInv, ExpiryInv, NEW c \in Clients, RestorePops(c)
    PROVE  ExpiryInv'
<1> DEFINE s == client[c].s
<1> DEFINE pc == IF worker[s] # 0 THEN "close" ELSE "aside"
<1>1. /\ client[c].pc = "pop" /\ worker' = [worker EXCEPT ![s] = 0] /\ stale' = stale \ {s}
      /\ expired' = DiscardExpired(s) /\ reaped' = reaped \ {s} /\ forgotten' = forgotten \ {s}
      /\ client' = [client EXCEPT ![c].w = worker[s], ![c].pc = pc]
      /\ contended \subseteq contended' /\ UNCHANGED <<dir, marked, used>>
  BY DEF RestorePops, Forget, disk, counts, At
<1>2. s \in Sessions /\ worker[s] \in 0 .. MaxWorkers /\ pc \in Pcs /\ pc # "marker"
  BY <1>1, SessionOf, SomePcs DEF IInv, Typed
<1> HIDE DEF s, pc
<1>3. Others(c) /\ client'[c].pc = pc /\ client'[c].s = client[c].s
  BY <1>1, <1>2 DEF IInv, Typed, ClientState, Others
<1>4. client'[c].s = s  BY <1>3 DEF s
<1>5. QED  BY <1>1, <1>2, <1>3, <1>4, PopRemembered

LEMMA MakeSessionRemembered ==
    ASSUME IInv, ExpiryInv, NEW c \in Clients, NEW call \in {"start", "restore_new"},
           MakeSession(c, call)
    PROVE  ExpiryInv'
<1> DEFINE s == used + 1
<1> DEFINE x == IF s \in Stateful THEN InCall(call, "spawn", s, 0, 0) ELSE Idle
<1>1. /\ used' = s /\ dir' = [dir EXCEPT ![s] = dirs + 1] /\ client' = [client EXCEPT ![c] = x]
      /\ used < MaxSessions
      /\ UNCHANGED <<worker, stale, expired, marked, reaped, forgotten, contended>>
  BY DEF MakeSession, history, mishaps
<1>2. used \in Nat /\ s \in Sessions
  BY <1>1, Bounds DEF IInv, Typed
<1>3. x \in ClientState /\ x.pc \in {"spawn", "idle"} /\ (x.pc = "spawn" => x.s = s)
  <2>1. CASE s \in Stateful
    <3>1. call \in AllCalls /\ "spawn" \in Pcs /\ 0 \in 0 .. MaxWorkers /\ 0 \in 0 .. MaxDirs
      BY Bounds, SomePcs DEF AllCalls
    <3>2. QED  BY <1>2, <2>1, <3>1, InCallFacts
  <2>2. CASE s \notin Stateful
    BY <2>2, IdleFacts
  <2>3. QED  BY <2>1, <2>2
<1>4. s \notin reaped
  BY <1>2 DEF ExpiryInv, ReapedInv
<1> HIDE DEF x
<1>5. Others(c) /\ client'[c] = x
  BY <1>1, <1>3, SetFacts DEF IInv
<1>6. \A t \in Sessions : t # s => dir'[t] = dir[t]
  BY <1>1 DEF IInv, Typed
<1>7. ReapedInv'
  <2>1. \A t \in Sessions : t \in Nat  BY Bounds
  <2>2. QED  BY <1>1, <1>2, <1>4, <1>6, <2>1 DEF ExpiryInv, ReapedInv, IsExpired
<1>8. ASSUME NEW d \in Clients, client'[d].pc = "marker"
      PROVE  MarkerOK(client[d].s)'
  <2>1. client'[d] = client[d] /\ client[d].pc = "marker" /\ MarkerOK(client[d].s)
    BY <1>3, <1>5, <1>8 DEF Others, ExpiryInv
  <2>2. client[d].s \in Sessions /\ client[d].s # s
    BY <1>2, <2>1, SessionOf
  <2>3. dir'[client[d].s] = dir[client[d].s]  BY <1>6, <2>2
  <2>4. QED  BY <1>1, <2>1, <2>3 DEF MarkerOK, Reapable
<1>9. \A d \in Clients : client'[d].pc \in GonePcs =>
          client'[d].s \notin reaped' \/ client'[d].s \in contended'
  BY <1>1, <1>3, <1>4, <1>5 DEF ExpiryInv, Others, GonePcs
<1>10. QED  BY <1>1, <1>7, <1>8, <1>9 DEF ExpiryInv

\* Time does not pass for a session whose marker a call is looking at.
LEMMA PassTtlRemembered ==
    ASSUME IInv, ExpiryInv, NEW s \in Sessions, PassTtl(s)
    PROVE  ExpiryInv'
<1>1. /\ ~Busy(s) /\ stale' = stale \cup {s}
      /\ UNCHANGED <<worker, expired, client, dir, marked, reaped, used, forgotten, contended>>
  BY DEF PassTtl, disk, counts, history, mishaps
<1>2. \A d \in Clients : client[d].pc = "marker" => client[d].s # s
  BY <1>1 DEF Busy
<1>3. QED  BY <1>1, <1>2 DEF ExpiryInv, ReapedInv, MarkerOK, IsExpired, Reapable

\* A restart loses the cache; an expiry whose marker is not on disk is forgotten.
LEMMA RestartRemembered ==
    ASSUME IInv, ExpiryInv, Restart
    PROVE  ExpiryInv'
<1>1. /\ expired' = <<>> /\ reaped' = reaped
      /\ forgotten' = forgotten \cup {s \in reaped : dir[s] \notin marked}
      /\ client' = [c \in Clients |-> Idle] /\ UNCHANGED <<dir, marked, used>>
  BY DEF Restart
<1>2. expired' \in Seq(Sessions) /\ Len(expired') <= ExpiredCap
  BY <1>1, SessionLifecycleAssumption
<1>3. \A c \in Clients : client'[c].pc = "idle"
  BY <1>1, IdleFacts
<1>4. ReapedInv'
  BY <1>1 DEF ExpiryInv, ReapedInv
<1>5. QED  BY <1>2, <1>3, <1>4 DEF ExpiryInv, GonePcs

\* Calls that go on or return.
LEMMA GoesRemembered ==
    ASSUME IInv, ExpiryInv, NEW c \in Clients,
           \/ WriteLock(c) \/ WriteMarker(c) \/ RemoveLock(c) \/ Note(c)
           \/ CheckMarker(c) \/ RunFresh(c) \/ Save(c)
    PROVE  ExpiryInv'
<1>1. /\ UNCHANGED <<worker, expired, reaped, used, dir, forgotten, contended>>
      /\ stale' \subseteq stale /\ marked \subseteq marked'
  BY DEF WriteLock, WriteMarker, RemoveLock, Note, CheckMarker, RunFresh, Save,
         table, disk, counts, history, mishaps
<1>2. \/ Return(c)
      \/ Goto(c, "publish") /\ client[c].pc = "lock"
      \/ Goto(c, "aside") /\ client[c].pc = "unlock"
      \/ \E pc \in {"reap_unlock", "note", "rmtree", "save", "verify", "fresh"} : Goto(c, pc)
  <2>1. CASE WriteLock(c)  BY <2>1 DEF WriteLock, At
  <2>2. CASE WriteMarker(c)  BY <2>2 DEF WriteMarker
  <2>3. CASE RemoveLock(c)  BY <2>3 DEF RemoveLock, At
  <2>4. CASE Note(c)  BY <2>4 DEF Note
  <2>5. CASE CheckMarker(c) \/ RunFresh(c) \/ Save(c)  BY <2>5 DEF CheckMarker, RunFresh, Save
  <2>6. QED  BY <2>1, <2>2, <2>3, <2>4, <2>5
<1>3. Settled
  <2>1. CASE Return(c)  BY <2>1, ReturnSettled
  <2>2. CASE Goto(c, "publish") /\ client[c].pc = "lock"
    BY <2>2, GotoSettled, SomePcs DEF GonePcs
  <2>3. CASE Goto(c, "aside") /\ client[c].pc = "unlock"
    BY <2>3, GotoSettled, SomePcs DEF GonePcs
  <2>4. ASSUME NEW pc \in {"reap_unlock", "note", "rmtree", "save", "verify", "fresh"}, Goto(c, pc)
        PROVE  Settled
    <3>1. pc \in Pcs /\ pc # "marker" /\ pc \notin GonePcs  BY SomePcs DEF GonePcs
    <3>2. QED  BY <2>4, <3>1, GotoSettled
  <2>5. QED  BY <1>2, <2>1, <2>2, <2>3, <2>4
<1>4. QED  BY <1>1, <1>3, ExpiryFrame

LEMMA HandsRemembered ==
    ASSUME IInv, ExpiryInv, NEW c \in Clients, Spawn(c) \/ Close(c) \/ Run(c)
    PROVE  ExpiryInv'
<1>1. UNCHANGED <<worker, expired, reaped, used, dir, stale, marked, forgotten, contended>>
  BY DEF Spawn, Close, Run, table, disk, counts, history, mishaps
<1>2. Settled
  <2>1. ASSUME NEW pc \in Pcs, NEW w, client' = [client EXCEPT ![c].pc = pc, ![c].w = w],
               pc # "marker", pc \in GonePcs => client[c].pc \in GonePcs
        PROVE  Settled
    <3>1. Others(c) /\ client'[c].pc = pc /\ client'[c].s = client[c].s
      BY <2>1 DEF IInv, Typed, ClientState, Others
    <3>2. QED  BY <2>1, <3>1, ThreadSettled
  <2>2. CASE Spawn(c)
    <3>1. CASE Return(c)  BY <3>1, ReturnSettled
    <3>2. CASE client' = [client EXCEPT ![c].pc = "lock", ![c].w = spawned + 1]
      <4>1. client[c].pc \in GonePcs  BY <2>2 DEF Spawn, At, GonePcs
      <4>2. QED  BY <2>1, <3>2, <4>1, SomePcs
    <3>3. QED  BY <2>2, <3>1, <3>2 DEF Spawn
  <2>3. CASE Close(c)
    <3> DEFINE pc == IF client[c].pc = "close" THEN "unlock" ELSE "reap_mark"
    <3>1. client' = [client EXCEPT ![c].pc = pc, ![c].w = 0]  BY <2>3 DEF Close
    <3>2. pc \in Pcs /\ pc # "marker" /\ (pc \in GonePcs => client[c].pc \in GonePcs)
      BY SomePcs DEF GonePcs
    <3> HIDE DEF pc
    <3>3. QED  BY <2>1, <3>1, <3>2
  <2>4. CASE Run(c)
    <3>1. client' = [client EXCEPT ![c].pc = "note", ![c].w = 0]  BY <2>4 DEF Run
    <3>2. "note" \in Pcs /\ "note" \notin GonePcs  BY SomePcs DEF GonePcs
    <3>3. QED  BY <2>1, <3>1, <3>2
  <2>5. QED  BY <2>2, <2>3, <2>4
<1>3. QED  BY <1>1, <1>2, ExpiryFrame

LEMMA StopRemovesRemembered ==
    ASSUME IInv, ExpiryInv, NEW c \in Clients, StopRemoves(c)
    PROVE  ExpiryInv'
<1>1. /\ client[c].pc = "rmtree" /\ RemoveDir(client[c].s, client[c].g) /\ Return(c)
      /\ UNCHANGED <<worker, expired, reaped, used, stale, marked, forgotten, contended>>
  BY DEF StopRemoves, At, table, counts, mishaps
<1>2. client[c].s \in Sessions
  BY <1>1, SessionOf
<1>3. \A t \in Sessions : dir'[t] \in {0, dir[t]}
  BY <1>1, <1>2, RemoveDirFacts
<1>4. Settled
  BY <1>1, ReturnSettled
<1>5. QED  BY <1>1, <1>3, <1>4, ExpiryFrame

\* The steps of a restore after its pop: the session has no expiry to remember.
LEMMA RestoreRemembered ==
    ASSUME IInv, ExpiryInv, NEW c \in Clients,
           RestoreExtracts(c) \/ RestoreAside(c) \/ RestoreSwaps(c) \/ RestoreIdentifies(c)
    PROVE  ExpiryInv'
<1> DEFINE s == client[c].s
<1>1. UNCHANGED <<worker, expired, reaped, used, stale, marked, forgotten, contended>>
  BY DEF RestoreExtracts, RestoreAside, RestoreSwaps, RestoreIdentifies, table, disk, counts,
         history, mishaps
<1>2. client[c].pc \in {"verify", "aside", "swap_in", "identify"}
  BY DEF RestoreExtracts, RestoreAside, RestoreSwaps, RestoreIdentifies, At
<1>3. s \in Sessions  BY <1>2, SessionOf
<1>4. Settled
  <2>1. ASSUME Others(c), client'[c].pc \in {"pop", "swap_in", "identify", "spawn"},
               client'[c].s = client[c].s, client'[c].pc # "pop" => client[c].pc # "verify"
        PROVE  Settled
    BY <1>2, <2>1, ThreadSettled DEF GonePcs
  <2>2. CASE Return(c)  BY <2>2, ReturnSettled
  <2>3. CASE client' = [client EXCEPT ![c].pc = "pop", ![c].g = dirs + 1]
    BY <2>1, <2>3 DEF IInv, Typed, ClientState, Others
  <2>4. CASE RestoreAside(c) /\ client' = [client EXCEPT ![c].pc = "swap_in", ![c].old = dir[s]]
    <3>1. Others(c) /\ client'[c].pc = "swap_in" /\ client'[c].s = client[c].s
      BY <2>4 DEF IInv, Typed, ClientState, Others
    <3>2. client[c].pc # "verify"  BY <2>4 DEF RestoreAside, At
    <3>3. QED  BY <2>1, <3>1, <3>2
  <2>5. CASE RestoreSwaps(c) /\ client' = [client EXCEPT ![c].pc = "identify", ![c].old = 0]
    <3>1. Others(c) /\ client'[c].pc = "identify" /\ client'[c].s = client[c].s
      BY <2>5 DEF IInv, Typed, ClientState, Others
    <3>2. client[c].pc # "verify"  BY <2>5 DEF RestoreSwaps, At
    <3>3. QED  BY <2>1, <3>1, <3>2
  <2>6. CASE RestoreIdentifies(c) /\ client' = [client EXCEPT ![c].pc = "spawn", ![c].g = 0]
    <3>1. Others(c) /\ client'[c].pc = "spawn" /\ client'[c].s = client[c].s
      BY <2>6 DEF IInv, Typed, ClientState, Others
    <3>2. client[c].pc # "verify"  BY <2>6 DEF RestoreIdentifies, At
    <3>3. QED  BY <2>1, <3>1, <3>2
  <2>7. QED
    BY <2>2, <2>3, <2>4, <2>5, <2>6 DEF RestoreExtracts, RestoreAside, RestoreSwaps,
       RestoreIdentifies
<1>5. \A t \in Sessions : t \notin reaped \/ t \in contended \/ dir'[t] \in {0, dir[t]}
  <2>1. CASE RestoreExtracts(c) \/ RestoreIdentifies(c)
    <3>1. dir' = dir  BY <2>1 DEF RestoreExtracts, RestoreIdentifies, disk
    <3>2. QED  BY <3>1
  <2>2. CASE RestoreAside(c)
    <3>1. dir' = dir \/ dir' = [dir EXCEPT ![s] = 0]  BY <2>2 DEF RestoreAside
    <3>2. QED  BY <3>1 DEF IInv, Typed
  <2>3. CASE RestoreSwaps(c)
    <3>1. \A t \in Sessions : t # s => dir'[t] = dir[t]
      BY <1>3, <2>3 DEF RestoreSwaps, SwapFails, IInv, Typed
    <3>2. s \notin reaped \/ s \in contended
      BY <2>3 DEF RestoreSwaps, At, ExpiryInv, GonePcs
    <3>3. QED  BY <3>1, <3>2
  <2>4. QED  BY <2>1, <2>2, <2>3
<1>6. QED  BY <1>1, <1>4, <1>5, ExpiryFrame

LEMMA BeginsRemembered ==
    ASSUME IInv, ExpiryInv, NEW c \in Clients, NEW call \in AllCalls, NEW pc \in {"note", "lookup"},
           NEW s \in Sessions, client' = [client EXCEPT ![c] = InCall(call, pc, s, 0, 0)],
           UNCHANGED <<table, proc, disk, eligible, counts, history>>
    PROVE  ExpiryInv'
<1> DEFINE x == InCall(call, pc, s, 0, 0)
<1>1. x \in ClientState /\ x.pc = pc
  <2>1. 0 \in 0 .. MaxWorkers /\ 0 \in 0 .. MaxDirs /\ pc \in Pcs  BY Bounds, SomePcs
  <2>2. QED  BY <2>1, InCallFacts
<1>2. client' = [client EXCEPT ![c] = x]
  OBVIOUS
<1> HIDE DEF x
<1>3. Others(c) /\ client'[c] = x
  BY <1>1, <1>2, SetFacts DEF IInv
<1>4. Settled
  BY <1>1, <1>3, ThreadSettled DEF GonePcs
<1>5. UNCHANGED <<worker, expired, reaped, used, stale, marked, forgotten, contended, dir>>
  BY DEF table, disk, counts, history, mishaps
<1>6. QED  BY <1>4, <1>5, ExpiryFrame

LEMMA NewCallRemembered ==
    ASSUME IInv, ExpiryInv, NEW c \in Clients, NewCall(c)
    PROVE  ExpiryInv'
<1>1. CASE Start(c) \/ RestoreNew(c)
  BY <1>1, MakeSessionRemembered DEF Start, RestoreNew
<1>2. ASSUME NEW s \in Sessions, StopPops(c, s)  PROVE ExpiryInv'
  BY <1>2, StopPopsRemembered
<1>3. ASSUME NEW s \in Sessions, ExecuteBegins(c, s)  PROVE ExpiryInv'
  <2>1. "execute" \in AllCalls  BY DEF AllCalls
  <2>2. QED  BY <1>3, <2>1, BeginsRemembered DEF ExecuteBegins
<1>4. ASSUME NEW s \in Sessions, Sweep(c, s)  PROVE ExpiryInv'
  <2>1. "sweep" \in AllCalls  BY DEF AllCalls
  <2>2. QED  BY <1>4, <2>1, ReapRemembered DEF Sweep
<1>5. ASSUME NEW s \in Sessions, NEW call \in Calls, TouchBegins(c, call, s)  PROVE ExpiryInv'
  <2>1. call \in AllCalls  BY SessionLifecycleAssumption
  <2>2. CASE Reap(c, call, s)
    BY <2>1, <2>2, ReapRemembered
  <2>3. CASE /\ client' = [client EXCEPT ![c] = InCall(call, "note", s, 0, 0)]
             /\ UNCHANGED <<table, proc, disk, eligible, counts, history>>
    BY <2>1, <2>3, BeginsRemembered
  <2>4. QED  BY <1>5, <2>2, <2>3 DEF TouchBegins
<1>6. QED  BY <1>1, <1>2, <1>3, <1>4, <1>5 DEF NewCall

LEMMA LookupRemembered ==
    ASSUME IInv, ExpiryInv, NEW c \in Clients, Lookup(c)
    PROVE  ExpiryInv'
<1>1. client[c].pc = "lookup"
  BY DEF Lookup, At
<1>2. client[c].s \in Sessions /\ "execute" \in AllCalls
  BY <1>1, SessionOf DEF AllCalls
<1>3. CASE Return(c) /\ UNCHANGED <<table, proc, disk, eligible, counts, history>>
  <2>1. Settled  BY <1>3, ReturnSettled
  <2>2. QED  BY <1>3, <2>1, ExpiryFrame DEF table, disk, counts, history, mishaps
<1>4. CASE Reap(c, "execute", client[c].s)
  BY <1>2, <1>4, ReapRemembered
<1>5. CASE ~IsExpired(client[c].s) /\ FindWorker(c, client[c].s)
  BY <1>1, <1>5, FindWorkerRemembered
<1>6. QED  BY <1>3, <1>4, <1>5 DEF Lookup

LEMMA CallStepRemembered ==
    ASSUME IInv, ExpiryInv, NEW c \in Clients, CallStep(c)
    PROVE  ExpiryInv'
<1>1. CASE Spawn(c) \/ Close(c) \/ Run(c)
  BY <1>1, HandsRemembered
<1>2. CASE \/ WriteLock(c) \/ WriteMarker(c) \/ RemoveLock(c) \/ Note(c)
           \/ CheckMarker(c) \/ RunFresh(c) \/ Save(c)
  BY <1>2, GoesRemembered
<1>3. CASE Publish(c) \/ Lookup(c) \/ StopRemoves(c)
  BY <1>3, PublishRemembered, LookupRemembered, StopRemovesRemembered
<1>4. CASE \/ RestoreExtracts(c) \/ RestoreAside(c) \/ RestoreSwaps(c) \/ RestoreIdentifies(c)
           \/ RestorePops(c)
  BY <1>4, RestoreRemembered, RestorePopsRemembered
<1>5. QED  BY <1>1, <1>2, <1>3, <1>4 DEF CallStep

LEMMA NextRemembers ==
    ASSUME IInv, ExpiryInv, [Next]_vars
    PROVE  ExpiryInv'
<1>1. ASSUME NEW c \in Clients, NewCall(c) \/ CallStep(c)  PROVE ExpiryInv'
  BY <1>1, NewCallRemembered, CallStepRemembered
<1>2. ASSUME client' = client,
             UNCHANGED <<worker, expired, reaped, used, stale, marked, forgotten, contended>>,
             \A t \in Sessions : dir'[t] = dir[t] \/ dir'[t] = 0
      PROVE  ExpiryInv'
  <2>1. Settled  BY <1>2 DEF Settled
  <2>2. QED  BY <1>2, <2>1, ExpiryFrame
<1>3. ASSUME NEW s \in Sessions, PassTtl(s) \/ PassAge(s)  PROVE ExpiryInv'
  <2>1. CASE PassTtl(s)  BY <2>1, PassTtlRemembered
  <2>2. CASE PassAge(s)
    BY <1>2, <2>2 DEF PassAge, table, counts, history, mishaps
  <2>3. QED  BY <1>3, <2>1, <2>2
<1>4. ASSUME NEW s \in Sessions, CleanupScans(s)  PROVE ExpiryInv'
  BY <1>2, <1>4 DEF CleanupScans, table, disk, counts, history, mishaps
<1>5. ASSUME NEW s \in Sessions, CleanupRemoves(s)  PROVE ExpiryInv'
  <2>1. /\ RemoveDir(s, eligible[s])
        /\ UNCHANGED <<worker, expired, reaped, used, stale, marked, client>>
        /\ UNCHANGED <<forgotten, contended>>
    BY <1>5 DEF CleanupRemoves, table, counts, mishaps
  <2>2. \A t \in Sessions : dir'[t] = dir[t] \/ dir'[t] = 0
    BY <2>1, RemoveDirFacts
  <2>3. QED  BY <1>2, <2>1, <2>2
<1>6. CASE Environment
  BY <1>3, <1>4, <1>5, <1>6, RestartRemembered DEF Environment
<1>7. CASE UNCHANGED vars
  BY <1>2, <1>7 DEF vars, table, disk, counts, history, mishaps
<1>8. QED  BY <1>1, <1>6, <1>7 DEF Next


\* No call begins to run a fresh process.
NoneFresh == \A c \in Clients : client'[c].pc = "fresh" => client[c].pc = "fresh"

LEMMA GotoNotFresh ==
    ASSUME IInv, NEW d \in Clients, NEW pc \in Pcs, Goto(d, pc), pc # "fresh"
    PROVE  NoneFresh
<1>1. Others(d) /\ client'[d].pc = pc
  BY GotoFacts DEF IInv
<1>2. QED  BY <1>1 DEF NoneFresh, Others

LEMMA ReturnNotFresh == ASSUME IInv, NEW d \in Clients, Return(d)  PROVE NoneFresh
<1>1. Others(d) /\ client'[d] = Idle
  BY ReturnFacts DEF IInv
<1>2. QED  BY <1>1, IdleFacts DEF NoneFresh, Others

LEMMA HandNotFresh ==
    ASSUME IInv, NEW d \in Clients, NEW pc \in Pcs, NEW w,
           client' = [client EXCEPT ![d].pc = pc, ![d].w = w], pc # "fresh"
    PROVE  NoneFresh
BY DEF IInv, Typed, ClientState, NoneFresh

LEMMA CallNotFresh ==
    ASSUME IInv, NEW d \in Clients, NEW call, NEW pc, NEW s, NEW w, NEW g,
           client' = [client EXCEPT ![d] = InCall(call, pc, s, w, g)], pc # "fresh"
    PROVE  NoneFresh
<1>1. InCall(call, pc, s, w, g).pc = pc
  BY DEF InCall
<1> DEFINE x == InCall(call, pc, s, w, g)
<1>2. client' = [client EXCEPT ![d] = x] /\ x.pc # "fresh"
  BY <1>1
<1> HIDE DEF x
<1>3. QED  BY <1>2 DEF IInv, Typed, NoneFresh

LEMMA NewCallNotFresh == ASSUME IInv, NEW d \in Clients, NewCall(d)  PROVE NoneFresh
<1>1. ASSUME NEW call, MakeSession(d, call)  PROVE NoneFresh
  <2>1. CASE used + 1 \in Stateful
    <3>1. client' = [client EXCEPT ![d] = InCall(call, "spawn", used + 1, 0, 0)]
      BY <1>1, <2>1 DEF MakeSession
    <3>2. QED  BY <3>1, CallNotFresh
  <2>2. CASE used + 1 \notin Stateful
    <3>1. Return(d)  BY <1>1, <2>2 DEF MakeSession, Return
    <3>2. QED  BY <3>1, ReturnNotFresh
  <2>3. QED  BY <2>1, <2>2
<1>2. ASSUME NEW s \in Sessions, NEW call, Reap(d, call, s)  PROVE NoneFresh
  BY <1>2, CallNotFresh DEF Reap
<1>3. ASSUME NEW s \in Sessions, StopPops(d, s)  PROVE NoneFresh
  <2> DEFINE pc == IF worker[s] # 0 THEN "close" ELSE "rmtree"
  <2>1. client' = [client EXCEPT ![d] = InCall("stop", pc, s, worker[s], identity[s])]
    BY <1>3 DEF StopPops
  <2>2. pc # "fresh"  OBVIOUS
  <2> HIDE DEF pc
  <2>3. QED  BY <2>1, <2>2, CallNotFresh
<1>4. ASSUME NEW s \in Sessions, ExecuteBegins(d, s)  PROVE NoneFresh
  BY <1>4, CallNotFresh DEF ExecuteBegins
<1>5. ASSUME NEW s \in Sessions, NEW call \in Calls, TouchBegins(d, call, s)  PROVE NoneFresh
  <2>1. CASE client' = [client EXCEPT ![d] = InCall(call, "note", s, 0, 0)]
    BY <2>1, CallNotFresh
  <2>2. QED  BY <1>2, <1>5, <2>1 DEF TouchBegins
<1>6. QED  BY <1>1, <1>2, <1>3, <1>4, <1>5 DEF NewCall, Start, RestoreNew, Sweep

LEMMA CallStepNotFresh ==
    ASSUME IInv, NEW d \in Clients, CallStep(d), ~CheckMarker(d)
    PROVE  NoneFresh
<1>1. CASE Spawn(d)
  <2>1. CASE Return(d)  BY <2>1, ReturnNotFresh
  <2>2. CASE client' = [client EXCEPT ![d].pc = "lock", ![d].w = spawned + 1]
    BY <2>2, HandNotFresh, SomePcs
  <2>3. QED  BY <1>1, <2>1, <2>2 DEF Spawn
<1>2. CASE WriteLock(d) \/ WriteMarker(d)
  BY <1>2, GotoNotFresh, SomePcs DEF WriteLock, WriteMarker
<1>3. CASE Publish(d) \/ RunFresh(d) \/ StopRemoves(d) \/ Save(d)
  BY <1>3, ReturnNotFresh DEF Publish, RunFresh, StopRemoves, Save
<1>4. CASE Close(d)
  <2> DEFINE pc == IF client[d].pc = "close" THEN "unlock" ELSE "reap_mark"
  <2>1. client' = [client EXCEPT ![d].pc = pc, ![d].w = 0]  BY <1>4 DEF Close
  <2>2. pc \in Pcs /\ pc # "fresh"  BY SomePcs
  <2> HIDE DEF pc
  <2>3. QED  BY <2>1, <2>2, HandNotFresh
<1>5. CASE RemoveLock(d)
  <2>1. Return(d) \/ Goto(d, "note") \/ Goto(d, "rmtree") \/ Goto(d, "aside")
    BY <1>5 DEF RemoveLock
  <2>2. QED  BY <2>1, ReturnNotFresh, GotoNotFresh, SomePcs
<1>6. CASE Note(d)
  <2>1. Return(d) \/ Goto(d, "save") \/ Goto(d, "verify")
    BY <1>6 DEF Note
  <2>2. QED  BY <2>1, ReturnNotFresh, GotoNotFresh, SomePcs
<1>7. CASE Lookup(d)
  <2>1. CASE Return(d)  BY <2>1, ReturnNotFresh
  <2>2. CASE Reap(d, "execute", client[d].s)
    BY <2>2, CallNotFresh DEF Reap
  <2>3. CASE FindWorker(d, client[d].s)
    <3> DEFINE s == client[d].s
    <3> DEFINE pc == IF worker[s] # 0 THEN "run" ELSE "marker"
    <3>1. client' = [client EXCEPT ![d].pc = pc, ![d].w = worker[s]]  BY <2>3 DEF FindWorker
    <3>2. pc \in Pcs /\ pc # "fresh"  BY SomePcs
    <3> HIDE DEF pc, s
    <3>3. QED  BY <3>1, <3>2, HandNotFresh
  <2>4. QED  BY <1>7, <2>1, <2>2, <2>3 DEF Lookup
<1>8. CASE Run(d)
  <2>1. client' = [client EXCEPT ![d].pc = "note", ![d].w = 0]  BY <1>8 DEF Run
  <2>2. QED  BY <2>1, HandNotFresh, SomePcs
<1>9. CASE RestoreExtracts(d) \/ RestoreAside(d)
  <2>1. CASE Return(d)  BY <2>1, ReturnNotFresh
  <2>2. CASE client' = [client EXCEPT ![d].pc = "pop", ![d].g = dirs + 1]
    BY <2>2 DEF IInv, Typed, ClientState, NoneFresh
  <2>3. CASE client' = [client EXCEPT ![d].pc = "swap_in", ![d].old = dir[client[d].s]]
    BY <2>3 DEF IInv, Typed, ClientState, NoneFresh
  <2>4. QED  BY <1>9, <2>1, <2>2, <2>3 DEF RestoreExtracts, RestoreAside
<1>10. CASE RestoreSwaps(d) \/ RestoreIdentifies(d)
  <2>1. CASE Return(d)  BY <2>1, ReturnNotFresh
  <2>2. CASE client' = [client EXCEPT ![d].pc = "identify", ![d].old = 0]
    BY <2>2 DEF IInv, Typed, ClientState, NoneFresh
  <2>3. CASE client' = [client EXCEPT ![d].pc = "spawn", ![d].g = 0]
    BY <2>3 DEF IInv, Typed, ClientState, NoneFresh
  <2>4. QED  BY <1>10, <2>1, <2>2, <2>3 DEF RestoreSwaps, RestoreIdentifies
<1>11. CASE RestorePops(d)
  <2> DEFINE pc == IF worker[client[d].s] # 0 THEN "close" ELSE "aside"
  <2>1. client' = [client EXCEPT ![d].w = worker[client[d].s], ![d].pc = pc]
    BY <1>11 DEF RestorePops
  <2>2. pc # "fresh"  OBVIOUS
  <2> HIDE DEF pc
  <2>3. QED  BY <2>1, <2>2 DEF IInv, Typed, ClientState, NoneFresh
<1>12. QED  BY <1>1, <1>2, <1>3, <1>4, <1>5, <1>6, <1>7, <1>8, <1>9, <1>10, <1>11 DEF CallStep

\* Only the look at the marker lets a call run a fresh process.
LEMMA OnlyCheckMarker ==
    ASSUME IInv, [Next]_vars, NEW c \in Clients,
           client[c].pc # "fresh", client'[c].pc = "fresh"
    PROVE  CheckMarker(c)
<1>1. ~NoneFresh
  BY DEF NoneFresh
<1>2. ASSUME NEW d \in Clients, NewCall(d) \/ CallStep(d)  PROVE CheckMarker(c)
  <2>1. CheckMarker(d)
    BY <1>1, <1>2, NewCallNotFresh, CallStepNotFresh
  <2>2. Return(d) \/ Goto(d, "fresh")
    BY <2>1 DEF CheckMarker
  <2>3. Others(d)
    BY <2>2, ReturnFacts, GotoFacts, SomePcs DEF IInv
  <2>4. c = d
    BY <2>3 DEF Others
  <2>5. QED  BY <2>1, <2>4
<1>3. ASSUME client' = client  PROVE FALSE
  BY <1>3
<1>4. CASE Environment
  <2>1. CASE Restart
    BY <2>1, IdleFacts DEF Restart
  <2>2. QED  BY <1>3, <1>4, <2>1 DEF Environment, PassTtl, PassAge, CleanupScans, CleanupRemoves
<1>5. CASE UNCHANGED vars
  BY <1>3, <1>5 DEF vars
<1>6. QED  BY <1>2, <1>4, <1>5 DEF Next

LEMMA ExpiryInvariance == Spec => []ExpiryInv
<1>1. Init => ExpiryInv
  <2>1. SUFFICES ASSUME Init  PROVE ExpiryInv
    OBVIOUS
  <2>2. expired = <<>> /\ reaped = {} /\ \A c \in Clients : client[c].pc = "idle"
    BY <2>1, IdleFacts DEF Init
  <2>3. expired \in Seq(Sessions) /\ Len(expired) <= ExpiredCap
    BY <2>2, SessionLifecycleAssumption
  <2>4. QED  BY <2>2, <2>3 DEF ExpiryInv, ReapedInv, GonePcs
<1>2. IInv /\ ExpiryInv /\ [Next]_vars => ExpiryInv'
  BY NextRemembers
<1>3. QED  BY <1>1, <1>2, Invariance, PTL DEF Spec

\* execute() never answers a call to a session whose worker idle expiry took
\* away with a fresh process in its workspace, whatever other calls, reapings,
\* restores, failed marker writes and restarts come between the two looks of
\* _get_worker_or_expired, at the tables and at the marker; the exceptions are
\* the two that NoSilentRespawn names.
THEOREM NeverRespawned == Spec => NoSilentRespawn
<1>1. ASSUME IInv, ExpiryInv, [Next]_vars, NEW c \in Clients,
             ~At(c, "fresh"), client'[c].pc = "fresh"
      PROVE  \/ client[c].s \notin reaped
             \/ dir[client[c].s] = 0
             \/ client[c].s \in forgotten \cup contended
  <2>1. CheckMarker(c)
    BY <1>1, OnlyCheckMarker DEF At
  <2>2. client[c].pc = "marker" /\ (dir[client[c].s] \in marked => Return(c))
    BY <2>1 DEF CheckMarker, At
  <2>3. dir[client[c].s] \notin marked
    BY <1>1, <2>2, ReturnFacts, IdleFacts DEF IInv
  <2>4. QED  BY <1>1, <2>2, <2>3 DEF ExpiryInv, MarkerOK
<1>2. IInv /\ ExpiryInv /\ [Next]_vars =>
          [\A c \in Clients : ~At(c, "fresh") /\ client'[c].pc = "fresh" =>
               \/ client[c].s \notin reaped
               \/ dir[client[c].s] = 0
               \/ client[c].s \in forgotten \cup contended]_vars
  BY <1>1
<1>3. QED  BY <1>2, Invariance, ExpiryInvariance, PTL DEF Spec, NoSilentRespawn

=============================================================================
