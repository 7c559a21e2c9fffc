------------------------ MODULE RunSupervisorProofs ------------------------
(***************************************************************************)
(* Proofs about RunSupervisor, for any number of runs, calls, workers and  *)
(* crashes and any admission and retention limits.                         *)
(***************************************************************************)
EXTENDS RunSupervisorRefinement, FiniteSetTheorems, TLAPS

\* What holds of one run: the record, its future, its directory and its
\* journal file fit together.
RunInv(r) ==
    /\ r >= next => /\ kind[r] = "none" /\ run[r] = NoRun /\ future[r] = "none"
                    /\ workdir[r] = "none" /\ journal[r] = NoEntry
    /\ r < next => kind[r] \in AllKinds
    /\ ~InMemory(r) => run[r] = NoRun /\ future[r] = "none"
    /\ InMemory(r) => mode = "up" /\ future[r] # "none"
    /\ InMemory(r) /\ journal[r].state # "absent" => journal[r] = Entry(run[r], kind[r])
    /\ run[r].state \in Active => /\ run[r].result = "none"
                                  /\ ~run[r].cleaned
                                  /\ ~run[r].workdir_cleaned
                                  /\ journal[r].state # "absent"
    /\ run[r].result # "none" => Done(r)
    /\ run[r].state = "finished" => run[r].result # "none"
    /\ run[r].state = "cleaned" => run[r].cleaned
    /\ InMemory(r) /\ kind[r] = "dependencies" =>
           /\ run[r].result = "none" => run[r].state \in Active /\ workdir[r] = "present"
           /\ run[r].result # "none" => run[r].workdir_cleaned
    /\ journal[r].workdir => kind[r] = "dependencies"
    /\ workdir[r] = "present" => /\ journal[r].state \in Active
                                 /\ journal[r].workdir
                                 /\ ~journal[r].workdir_cleaned
                                 /\ kind[r] = "dependencies"
                                 /\ mode = "up" => InMemory(r) /\ run[r].result = "none"
                                 /\ mode = "recovering" => r \in todo

\* What holds of one tool call in flight.
CallInv(c) ==
    /\ client[c].op \in {"wait", "cleanup", "cancel", "collect", "release"} =>
           /\ client[c].run \in Runs
           /\ InMemory(client[c].run)
    /\ client[c].op \in {"wait", "cleanup", "cancel"} => kind[client[c].run] = "managed"
    /\ client[c].op = "collect" => run[client[c].run].state \in Terminal
    /\ client[c].op = "release" => run[client[c].run].result # "none"
    /\ client[c].op # "idle" => mode = "up"

IInv ==
    /\ TypeOK
    /\ \A r \in Runs : RunInv(r)
    /\ \A c \in Clients : CallInv(c)

----------------------------------------------------------------------------
(* What the helpers do.                                                    *)

\* Entry is a well-formed journal file of a record that is in the table.
LEMMA EntryType ==
    ASSUME NEW rec \in RunRecord, rec.state # "none", NEW k
    PROVE  /\ Entry(rec, k) \in JournalEntry
           /\ Entry(rec, k).state = rec.state
           /\ Entry(rec, k).workdir = (k = "dependencies")
           /\ k = "dependencies" => Entry(rec, k).workdir_cleaned = rec.workdir_cleaned
BY DEF Entry, RunRecord, JournalEntry, Active, Terminal

\* Pruning drops whole files, and only files that record a terminal state.
LEMMA PruneDrops ==
    ASSUME NEW j \in [Runs -> JournalEntry], NEW t
    PROVE  /\ Prune(j, t) \in [Runs -> JournalEntry]
           /\ \A r \in Runs : \/ Prune(j, t)[r] = j[r]
                              \/ j[r].state \in Terminal /\ Prune(j, t)[r] = NoEntry
<1>1. NoEntry \in JournalEntry
  BY DEF NoEntry, JournalEntry
<1>2. QED  BY <1>1 DEF Prune, IsTerminal

\* The order of the modification times stays a relation on runs.
LEMMA TimesType ==
    ASSUME TypeOK, NEW S \in SUBSET Runs
    PROVE  /\ Touched(S) \in [Runs -> SUBSET Runs]
           /\ \A j : Compact(j, Touched(S)) \in [Runs -> SUBSET Runs]
           /\ \A j : Compact(j, newer) \in [Runs -> SUBSET Runs]
<1>1. Touched(S) \in [Runs -> SUBSET Runs]
  BY DEF TypeOK, Touched
<1>2. QED  BY <1>1 DEF TypeOK, Compact

\* Saving the runs S writes their entries and at most drops terminal files.
LEMMA SaveFacts ==
    ASSUME TypeOK, NEW S \in SUBSET Runs, NEW tab \in [Runs -> RunRecord], NEW k,
           \A r \in S : tab[r].state # "none"
    PROVE  /\ Save(S, tab, k) =>
                /\ journal' \in [Runs -> JournalEntry] /\ newer' \in [Runs -> SUBSET Runs]
                /\ \A r \in S : journal'[r] = Entry(tab[r], k[r])
                /\ \A r \in Runs \ S : journal'[r] = journal[r]
           /\ SaveAndPrune(S, tab, k) =>
                /\ journal' \in [Runs -> JournalEntry] /\ newer' \in [Runs -> SUBSET Runs]
                /\ \A r \in S : \/ journal'[r] = Entry(tab[r], k[r])
                                \/ tab[r].state \in Terminal /\ journal'[r] = NoEntry
                /\ \A r \in Runs \ S : \/ journal'[r] = journal[r]
                                       \/ journal[r].state \in Terminal /\ journal'[r] = NoEntry
<1> DEFINE w == [r \in Runs |-> IF r \in S THEN Entry(tab[r], k[r]) ELSE journal[r]]
<1>1. \A r \in S : Entry(tab[r], k[r]) \in JournalEntry /\ Entry(tab[r], k[r]).state = tab[r].state
  BY EntryType
<1>2. w \in [Runs -> JournalEntry]
  BY <1>1 DEF TypeOK
<1>3. \A r \in S : w[r] = Entry(tab[r], k[r])
  OBVIOUS
<1>4. \A r \in Runs \ S : w[r] = journal[r]
  OBVIOUS
<1>5. Save(S, tab, k) => journal' = w /\ newer' = Touched(S)
  BY DEF Save
<1>6. SaveAndPrune(S, tab, k) => journal' = Prune(w, Touched(S))
                              /\ newer' = Compact(Prune(w, Touched(S)), Touched(S))
  BY DEF SaveAndPrune
<1> HIDE DEF w
<1>7. CASE Save(S, tab, k)
  BY <1>1, <1>2, <1>3, <1>4, <1>5, <1>6, <1>7, TimesType, PruneDrops
<1>8. CASE SaveAndPrune(S, tab, k)
  <2>1. newer' \in [Runs -> SUBSET Runs]
    BY <1>6, <1>8, TimesType
  <2>2. /\ Prune(w, Touched(S)) \in [Runs -> JournalEntry]
        /\ \A r \in Runs : \/ Prune(w, Touched(S))[r] = w[r]
                           \/ w[r].state \in Terminal /\ Prune(w, Touched(S))[r] = NoEntry
    BY <1>2, PruneDrops
  <2>3. QED  BY <1>1, <1>3, <1>4, <1>5, <1>6, <1>8, <2>1, <2>2, TimesType
<1>9. QED  BY <1>7, <1>8

\* Removing directories never leaves one of them untouched.
LEMMA RemoveFacts ==
    ASSUME TypeOK, NEW S \in SUBSET Runs, RemoveWorkdirs(S)
    PROVE  /\ workdir' \in [Runs -> Workdirs]
           /\ \A r \in S : workdir'[r] # "present" /\ workdir'[r] # "none"
           /\ \A r \in Runs \ S : workdir'[r] = workdir[r]
BY DEF TypeOK, RemoveWorkdirs, Workdirs

\* Collecting runs that have no result sets their results and releases them.
LEMMA CollectAllFacts ==
    ASSUME TypeOK, NEW S \in SUBSET Runs
    PROVE  /\ CollectAll(S) \in [Runs -> RunRecord]
           /\ \A r \in S : /\ CollectAll(S)[r].state = "finished"
                           /\ CollectAll(S)[r].result \in {"value", "failed"}
                           /\ CollectAll(S)[r].cleaned = run[r].cleaned
                           /\ CollectAll(S)[r].workdir_cleaned = (kind[r] = "dependencies")
           /\ \A r \in Runs \ S : CollectAll(S)[r] = run[r]
<1>1. \A r \in Runs : /\ Collected(r) \in RunRecord
                      /\ Collected(r).state = "finished"
                      /\ Collected(r).result \in {"value", "failed"}
                      /\ Collected(r).cleaned = run[r].cleaned
                      /\ Collected(r).workdir_cleaned = (kind[r] = "dependencies")
  BY DEF TypeOK, Collected, RunRecord
<1>2. QED  BY <1>1 DEF TypeOK, CollectAll

----------------------------------------------------------------------------
(* The inductive invariant.                                                *)

\* A fresh server satisfies it.
LEMMA InitInv == Init => IInv
<1> SUFFICES ASSUME Init PROVE IInv
  OBVIOUS
<1> USE RunSupervisorAssumption
<1>1. NoRun \in RunRecord /\ NoEntry \in JournalEntry /\ Idle \in [op : Ops, run : Runs \cup {0}]
  BY DEF NoRun, RunRecord, NoEntry, JournalEntry, Idle, Ops
<1>2. TypeOK
  BY <1>1 DEF Init, TypeOK, Futures, Workdirs, Runs
<1>3. \A r \in Runs : RunInv(r)
  BY DEF Init, RunInv, NoRun, NoEntry, InMemory, Done, Active, Runs
<1>4. \A c \in Clients : CallInv(c)
  BY DEF Init, CallInv, Idle
<1>5. QED  BY <1>2, <1>3, <1>4 DEF IInv

\* What one run needs to know of a step that leaves its record alone: its
\* file is as it was, or it was terminal and is gone.
LEMMA Bystander ==
    ASSUME IInv, NEW q \in Runs, q # next \/ next' = next,
           run'[q] = run[q], future'[q] = future[q], kind'[q] = kind[q],
           workdir'[q] = workdir[q], mode' = mode, todo' = todo,
           next' \in {next, next + 1},
           \/ journal'[q] = journal[q]
           \/ journal[q].state \in Terminal /\ journal'[q] = NoEntry
    PROVE  RunInv(q)'
<1>1. RunInv(q) /\ next \in Int /\ q \in Int
  BY DEF IInv, TypeOK, Runs
<1>2. NoEntry.state = "absent" /\ NoEntry.workdir = FALSE
  BY DEF NoEntry
<1>3. CASE journal'[q] = journal[q]
  BY <1>1, <1>3 DEF RunInv, InMemory, Done
<1>4. CASE journal[q].state \in Terminal /\ journal'[q] = NoEntry
  <2>1. /\ journal[q].state # "absent" /\ journal[q].state \notin Active
        /\ Entry(run[q], kind[q]).state = run[q].state
    BY <1>4 DEF Active, Terminal, Entry
  <2>2. q < next /\ q < next'
    BY <1>1, <1>2, <2>1 DEF RunInv
  <2>3. run[q].state \notin Active /\ workdir[q] # "present"
    BY <1>1, <2>1 DEF RunInv, InMemory, Active
  <2>4. QED  BY <1>1, <1>2, <1>4, <2>1, <2>2, <2>3 DEF RunInv, InMemory, Done
<1>5. QED  BY <1>3, <1>4

\* _collect keeps the run's parts together, whoever calls it.
LEMMA CollectOne ==
    ASSUME IInv, NEW r \in Runs, InMemory(r), Done(r), Collect(r),
           UNCHANGED <<future, boot, ids>>
    PROVE  /\ run' \in [Runs -> RunRecord]
           /\ workdir' \in [Runs -> Workdirs]
           /\ journal' \in [Runs -> JournalEntry]
           /\ newer' \in [Runs -> SUBSET Runs]
           /\ \A q \in Runs : RunInv(q)'
           /\ \A q \in Runs \ {r} : run'[q] = run[q]
           /\ run'[r].result # "none"
           /\ run'[r].state \in Terminal
           /\ run[r].result # "none" => run'[r] = run[r]
<1>0. /\ TypeOK /\ RunInv(r) /\ UNCHANGED <<mode, todo, next, kind>>
  BY DEF IInv, boot, ids
<1>1. CASE run[r].result # "none"
  <2>1. UNCHANGED <<run, workdir, journal, newer>>
    BY <1>1 DEF Collect, disk
  <2>2. \A q \in Runs : RunInv(q)'
    BY <2>1, <1>0, Bystander
  <2>3. run[r].state \in Terminal
    BY <1>0, <1>1 DEF RunInv, InMemory, Active, Terminal, TypeOK, RunRecord
  <2>4. QED  BY <1>1, <2>1, <2>2, <2>3, <1>0 DEF TypeOK
<1>2. CASE run[r].result = "none"
  <2>1. {r} \cap {q \in Runs : run[q].result = "none"} = {r}
    BY <1>2
  <2>2. /\ run' = CollectAll({r})
        /\ RemoveWorkdirs(Owned({r}))
        /\ SaveAndPrune({r}, CollectAll({r}), kind)
    BY <2>1 DEF Collect
  <2>3. /\ run' \in [Runs -> RunRecord]
        /\ run'[r].state = "finished"
        /\ run'[r].result \in {"value", "failed"}
        /\ run'[r].cleaned = run[r].cleaned
        /\ run'[r].workdir_cleaned = (kind[r] = "dependencies")
        /\ \A q \in Runs \ {r} : run'[q] = run[q]
    BY <1>0, <2>2, CollectAllFacts
  <2>4. /\ journal' \in [Runs -> JournalEntry] /\ newer' \in [Runs -> SUBSET Runs]
        /\ \/ journal'[r] = Entry(run'[r], kind[r])
           \/ journal'[r] = NoEntry
        /\ \A q \in Runs \ {r} : \/ journal'[q] = journal[q]
                                 \/ journal[q].state \in Terminal /\ journal'[q] = NoEntry
    <3>1. {r} \in SUBSET Runs /\ CollectAll({r}) \in [Runs -> RunRecord]
      BY <2>2, <2>3
    <3>2. \A q \in {r} : CollectAll({r})[q].state # "none"
      BY <2>2, <2>3
    <3>3. /\ journal' \in [Runs -> JournalEntry] /\ newer' \in [Runs -> SUBSET Runs]
          /\ \A q \in {r} : \/ journal'[q] = Entry(CollectAll({r})[q], kind[q])
                            \/ CollectAll({r})[q].state \in Terminal /\ journal'[q] = NoEntry
          /\ \A q \in Runs \ {r} : \/ journal'[q] = journal[q]
                                   \/ journal[q].state \in Terminal /\ journal'[q] = NoEntry
      BY <1>0, <2>2, <3>1, <3>2, SaveFacts
    <3>4. QED  BY <2>2, <3>3
  <2>5. /\ workdir' \in [Runs -> Workdirs]
        /\ \A q \in Owned({r}) : workdir'[q] # "present" /\ workdir'[q] # "none"
        /\ \A q \in Runs \ Owned({r}) : workdir'[q] = workdir[q]
    BY <1>0, <2>2, RemoveFacts DEF Owned
  <2>6. \A q \in Runs \ {r} : RunInv(q)'
    <3> SUFFICES ASSUME NEW q \in Runs \ {r} PROVE RunInv(q)'
      OBVIOUS
    <3>1. q \notin Owned({r})
      BY DEF Owned
    <3>2. QED  BY <1>0, <2>3, <2>4, <2>5, <3>1, Bystander
  <2>7. workdir'[r] # "present"
    <3>1. CASE kind[r] = "dependencies"
      BY <1>0, <1>2, <2>5, <3>1 DEF RunInv, Owned, Active
    <3>2. CASE kind[r] # "dependencies"
      BY <1>0, <2>5, <3>2 DEF RunInv, Owned
    <3>3. QED  BY <3>1, <3>2
  <2>8. r < next
    BY <1>0 DEF RunInv, InMemory, NoRun, TypeOK, Runs
  <2>9. RunInv(r)'
    <3>1. /\ NoEntry.state = "absent" /\ ~NoEntry.workdir
      BY DEF NoEntry
    <3>2. /\ Entry(run'[r], kind[r]).workdir = (kind[r] = "dependencies")
      BY DEF Entry
    <3>3. next \in Int
      BY <1>0 DEF TypeOK
    <3>4. QED
      BY <1>0, <1>2, <2>3, <2>4, <2>7, <2>8, <3>1, <3>2, <3>3
         DEF RunInv, InMemory, Done, Active, Runs
  <2>10. QED  BY <1>2, <2>3, <2>4, <2>5, <2>6, <2>9 DEF Terminal
<1>3. QED  BY <1>1, <1>2

\* A call in flight keeps its invariant when the step of somebody else takes
\* no run out of the table and reopens none.
LEMMA OtherCalls ==
    ASSUME IInv, NEW c \in Clients, client'[c] = client[c], mode' = mode,
           \A r \in Runs : InMemory(r) =>
               /\ kind'[r] = kind[r]
               /\ run'[r].state # "none"
               /\ run[r].state \in Terminal => run'[r].state \in Terminal
               /\ run[r].result # "none" => run'[r].result # "none"
    PROVE  CallInv(c)'
BY DEF IInv, CallInv, InMemory, Terminal

\* Steps that touch neither the table nor the disk.
LEMMA QuietStep ==
    ASSUME IInv, UNCHANGED <<run, disk, boot, ids>>,
           \A r \in Runs : /\ future'[r] = "none" <=> future[r] = "none"
                           /\ Done(r) => Done(r)',
           future' \in [Runs -> Futures],
           client' \in [Clients -> [op : Ops, run : Runs \cup {0}]],
           acked' \in SUBSET Runs,
           \A c \in Clients : client'[c] = client[c] \/ CallInv(c)'
    PROVE  IInv'
<1>1. TypeOK'
  BY DEF IInv, TypeOK, disk, boot, ids
<1>2. \A r \in Runs : RunInv(r)'
  BY DEF IInv, RunInv, InMemory, Done, disk, boot, ids
<1>3. \A c \in Clients : CallInv(c)'
  BY OtherCalls DEF InMemory, boot, ids
<1>4. QED  BY <1>1, <1>2, <1>3 DEF IInv

\* A thread that becomes idle is fine.
LEMMA IdleCall ==
    ASSUME NEW c \in Clients, client'[c] = Idle
    PROVE  CallInv(c)'
BY DEF CallInv, Idle

LEMMA ReplyInv == ASSUME IInv, NEW c \in Clients, Reply(c) PROVE IInv'
<1>1. /\ client' \in [Clients -> [op : Ops, run : Runs \cup {0}]]
      /\ \A d \in Clients : client'[d] = client[d] \/ client'[d] = Idle
  BY DEF IInv, TypeOK, Reply, Idle, Ops
<1>2. QED  BY <1>1, QuietStep, IdleCall DEF Reply, IInv, TypeOK, Done

LEMMA DispatchInv == ASSUME IInv, NEW r \in Runs, Dispatch(r) PROVE IInv'
BY QuietStep DEF Dispatch, IInv, TypeOK, Done, Futures

LEMMA SettleInv == ASSUME IInv, NEW r \in Runs, Settle(r) PROVE IInv'
BY QuietStep DEF Settle, IInv, TypeOK, Done, Futures

LEMMA CancelAcceptedInv == ASSUME IInv, NEW c \in Clients, CancelAccepted(c) PROVE IInv'
<1>1. /\ client' \in [Clients -> [op : Ops, run : Runs \cup {0}]]
      /\ \A d \in Clients : client'[d] = client[d] \/ client'[d] = Idle
      /\ acked' \in SUBSET Runs
  BY DEF IInv, TypeOK, CallInv, CancelAccepted, Idle, Ops
<1>2. QED  BY <1>1, QuietStep, IdleCall DEF CancelAccepted, IInv, TypeOK, Done

LEMMA WaitTimesOutInv == ASSUME IInv, NEW c \in Clients, WaitTimesOut(c) PROVE IInv'
<1>1. /\ client' \in [Clients -> [op : Ops, run : Runs \cup {0}]]
      /\ \A d \in Clients \ {c} : client'[d] = client[d]
      /\ client'[c].op = "cleanup" /\ client'[c].run = client[c].run
  BY DEF IInv, TypeOK, WaitTimesOut, ToCleanup, Ops
<1>2. CallInv(c)'
  BY <1>1 DEF IInv, CallInv, WaitTimesOut, InMemory, boot, ids
<1>3. QED  BY <1>1, <1>2, QuietStep DEF WaitTimesOut, IInv, TypeOK, Done

LEMMA WaitCollectsInv == ASSUME IInv, NEW c \in Clients, WaitCollects(c) PROVE IInv'
<1> DEFINE r == client[c].run
<1>1. /\ r \in Runs /\ InMemory(r) /\ kind[r] = "managed" /\ mode = "up"
      /\ UNCHANGED <<mode, kind, future, acked, registered, todo, crashes, next>>
      /\ Done(r) /\ Collect(r) /\ UNCHANGED <<future, boot, ids>>
  BY DEF IInv, CallInv, WaitCollects, boot, ids
<1>2. /\ client' \in [Clients -> [op : Ops, run : Runs \cup {0}]]
      /\ \A d \in Clients \ {c} : client'[d] = client[d]
      /\ client'[c].op = "cleanup" /\ client'[c].run = r
  BY DEF IInv, TypeOK, WaitCollects, ToCleanup, Ops
<1> HIDE DEF r
<1>3. /\ run' \in [Runs -> RunRecord]
      /\ workdir' \in [Runs -> Workdirs]
      /\ journal' \in [Runs -> JournalEntry]
      /\ newer' \in [Runs -> SUBSET Runs]
      /\ \A q \in Runs : RunInv(q)'
      /\ \A q \in Runs \ {r} : run'[q] = run[q]
      /\ run'[r].result # "none"
      /\ run'[r].state \in Terminal
  BY <1>1, CollectOne
<1>4. TypeOK'
  BY <1>1, <1>2, <1>3 DEF IInv, TypeOK
<1>5. run'[r].state # "none"
  BY <1>3 DEF Terminal
<1>6. \A d \in Clients \ {c} : CallInv(d)'
  BY <1>1, <1>2, <1>3, <1>5, OtherCalls DEF InMemory
<1>7. CallInv(c)'
  BY <1>1, <1>2, <1>5 DEF CallInv, InMemory
<1>8. QED  BY <1>3, <1>4, <1>6, <1>7 DEF IInv

LEMMA InspectCollectsInv == ASSUME IInv, NEW c \in Clients, InspectCollects(c) PROVE IInv'
<1> DEFINE r == client[c].run
<1>1. /\ r \in Runs /\ InMemory(r) /\ mode = "up"
      /\ UNCHANGED <<mode, kind, future, acked, registered, todo, crashes, next>>
      /\ UNCHANGED <<future, boot, ids>>
  BY DEF IInv, CallInv, InspectCollects, boot, ids
<1>2. /\ client' \in [Clients -> [op : Ops, run : Runs \cup {0}]]
      /\ \A d \in Clients \ {c} : client'[d] = client[d]
      /\ client'[c].run = r
  BY DEF IInv, TypeOK, InspectCollects, Ops
<1>3. CASE Done(r) /\ Collect(r) /\ client' = [client EXCEPT ![c].op = "release"]
  <2>0. client'[c].op = "release"
    BY <1>3 DEF IInv, TypeOK
  <2> HIDE DEF r
  <2>1. /\ run' \in [Runs -> RunRecord]
        /\ workdir' \in [Runs -> Workdirs]
        /\ journal' \in [Runs -> JournalEntry]
        /\ newer' \in [Runs -> SUBSET Runs]
        /\ \A q \in Runs : RunInv(q)'
        /\ \A q \in Runs \ {r} : run'[q] = run[q]
        /\ run'[r].result # "none"
        /\ run'[r].state \in Terminal
    BY <1>1, <1>3, CollectOne
  <2>2. TypeOK'
    BY <1>1, <1>2, <2>1 DEF IInv, TypeOK
  <2>3. run'[r].state # "none"
    BY <2>1 DEF Terminal
  <2>4. \A d \in Clients \ {c} : CallInv(d)'
    BY <1>1, <1>2, <2>1, <2>3, OtherCalls DEF InMemory
  <2>5. CallInv(c)'
    BY <1>1, <1>2, <2>0, <2>1, <2>3 DEF CallInv, InMemory
  <2>6. QED  BY <2>1, <2>2, <2>4, <2>5 DEF IInv
<1>4. CASE ~Done(r) /\ client' = [client EXCEPT ![c].op = "not_collectible"] /\ UNCHANGED <<run, disk>>
  <2>1. client'[c].op = "not_collectible"
    BY <1>4 DEF IInv, TypeOK
  <2>2. CallInv(c)'
    BY <1>1, <2>1 DEF CallInv
  <2>3. QED  BY <1>1, <1>2, <1>4, <2>2, QuietStep DEF IInv, TypeOK, Done
<1>5. QED  BY <1>3, <1>4 DEF InspectCollects

LEMMA RunInspectInv == ASSUME IInv, NEW c \in Clients, NEW r \in Runs, RunInspect(c, r) PROVE IInv'
<1>1. /\ InMemory(r) /\ mode = "up"
      /\ UNCHANGED <<mode, kind, future, acked, registered, todo, crashes, next>>
      /\ UNCHANGED <<future, boot, ids>>
  BY DEF IInv, RunInspect, boot, ids, InMemory
<1>2. /\ client' \in [Clients -> [op : Ops, run : Runs \cup {0}]]
      /\ \A d \in Clients \ {c} : client'[d] = client[d]
      /\ \/ client'[c] = Idle
         \/ run'[r].state \in Terminal /\ client'[c] = [op |-> "collect", run |-> r]
  BY DEF IInv, TypeOK, RunInspect, Ops, Idle
<1>3. CASE r \in Reapable
  <2>1. Done(r) /\ Collect(r)
    BY <1>3 DEF RunInspect, Reapable
  <2>2. /\ run' \in [Runs -> RunRecord]
        /\ workdir' \in [Runs -> Workdirs]
        /\ journal' \in [Runs -> JournalEntry]
        /\ newer' \in [Runs -> SUBSET Runs]
        /\ \A q \in Runs : RunInv(q)'
        /\ \A q \in Runs \ {r} : run'[q] = run[q]
        /\ run'[r].result # "none"
        /\ run'[r].state \in Terminal
    BY <1>1, <2>1, CollectOne
  <2>3. TypeOK'
    BY <1>1, <1>2, <2>2 DEF IInv, TypeOK
  <2>4. run'[r].state # "none"
    BY <2>2 DEF Terminal
  <2>5. \A d \in Clients \ {c} : CallInv(d)'
    BY <1>1, <1>2, <2>2, <2>4, OtherCalls DEF InMemory
  <2>6. CallInv(c)'
    BY <1>1, <1>2, <2>2, <2>4, IdleCall DEF CallInv, InMemory
  <2>7. QED  BY <2>2, <2>3, <2>5, <2>6 DEF IInv
<1>4. CASE r \notin Reapable
  <2>1. UNCHANGED <<run, disk>>
    BY <1>4 DEF RunInspect
  <2>2. CallInv(c)'
    BY <1>1, <1>2, <2>1, IdleCall DEF CallInv, InMemory
  <2>3. QED  BY <1>1, <1>2, <2>1, <2>2, QuietStep DEF IInv, TypeOK, Done
<1>5. QED  BY <1>3, <1>4

\* cleanup() of a run that is managed or already has its result.
LEMMA CleanupInv ==
    ASSUME IInv, NEW c \in Clients, NEW r \in Runs, InMemory(r),
           kind[r] = "managed" \/ run[r].result # "none",
           Cleanup(r) \/ UNCHANGED <<run, journal, newer>>,
           client' = [client EXCEPT ![c] = Idle],
           UNCHANGED <<future, acked, workdir, boot, ids>>
    PROVE  IInv'
<1>0. /\ TypeOK /\ RunInv(r) /\ next \in Int /\ r \in Int
      /\ UNCHANGED <<mode, registered, todo, crashes, next, kind>>
  BY DEF IInv, TypeOK, Runs, boot, ids
<1>1. /\ client' \in [Clients -> [op : Ops, run : Runs \cup {0}]]
      /\ \A d \in Clients \ {c} : client'[d] = client[d]
      /\ client'[c] = Idle
  BY DEF IInv, TypeOK, Idle, Ops
<1>2. CASE UNCHANGED <<run, journal, newer>>
  BY <1>0, <1>1, <1>2, QuietStep, IdleCall DEF IInv, TypeOK, Done, disk
<1>3. CASE ~UNCHANGED <<run, journal, newer>>
  <2> DEFINE tab == [run EXCEPT ![r] = [@ EXCEPT !.cleaned = TRUE, !.state = "cleaned"]]
  <2>1. /\ ~run[r].cleaned /\ run' = tab /\ SaveAndPrune({r}, tab, kind)
    BY <1>3 DEF Cleanup
  <2>2. /\ tab \in [Runs -> RunRecord]
        /\ tab[r].state = "cleaned" /\ tab[r].cleaned = TRUE
        /\ tab[r].result = run[r].result
        /\ tab[r].workdir_cleaned = run[r].workdir_cleaned
        /\ \A q \in Runs \ {r} : tab[q] = run[q]
    <3> DEFINE rec == [run[r] EXCEPT !.cleaned = TRUE, !.state = "cleaned"]
    <3>1. run \in [Runs -> RunRecord]
      BY <1>0 DEF TypeOK
    <3>2. /\ rec \in RunRecord
          /\ rec.state = "cleaned" /\ rec.cleaned = TRUE
          /\ rec.result = run[r].result
          /\ rec.workdir_cleaned = run[r].workdir_cleaned
      BY <3>1 DEF RunRecord
    <3>3. /\ tab[r] = rec
          /\ \A q \in Runs \ {r} : tab[q] = run[q]
          /\ DOMAIN tab = Runs
      BY <3>1
    <3> HIDE DEF rec
    <3>4. tab = [q \in Runs |-> IF q = r THEN rec ELSE run[q]]
      BY <3>1 DEF rec
    <3> HIDE DEF tab
    <3>5. QED  BY <3>1, <3>2, <3>3, <3>4
  <2>3. \A q \in {r} : tab[q].state # "none"
    BY <2>2
  <2> HIDE DEF tab
  <2>4. /\ journal' \in [Runs -> JournalEntry] /\ newer' \in [Runs -> SUBSET Runs]
        /\ \A q \in {r} : \/ journal'[q] = Entry(tab[q], kind[q])
                          \/ tab[q].state \in Terminal /\ journal'[q] = NoEntry
        /\ \A q \in Runs \ {r} : \/ journal'[q] = journal[q]
                                 \/ journal[q].state \in Terminal /\ journal'[q] = NoEntry
    BY <1>0, <2>1, <2>2, <2>3, SaveFacts
  <2>5. TypeOK'
    BY <1>0, <1>1, <2>1, <2>2, <2>4 DEF TypeOK
  <2>6. \A q \in Runs \ {r} : RunInv(q)'
    BY <1>0, <2>1, <2>2, <2>4, Bystander
  <2>7. RunInv(r)'
    <3>1. /\ NoEntry.state = "absent" /\ ~NoEntry.workdir
      BY DEF NoEntry
    <3>2. /\ Entry(run'[r], kind[r]).workdir = (kind[r] = "dependencies")
      BY DEF Entry
    <3>3. r < next /\ workdir[r] # "present"
      BY <1>0 DEF RunInv, InMemory, NoRun
    <3>4. run[r].result # "none" => Done(r)
      BY <1>0 DEF RunInv
    <3>5. kind[r] = "dependencies" => run[r].result # "none" /\ run[r].workdir_cleaned
      BY <1>0 DEF RunInv
    <3>6. mode = "up" /\ future[r] # "none" /\ kind[r] \in AllKinds
      BY <1>0, <3>3 DEF RunInv
    <3>7. /\ run'[r].state = "cleaned" /\ run'[r].cleaned
          /\ run'[r].result = run[r].result
          /\ run'[r].workdir_cleaned = run[r].workdir_cleaned
          /\ journal'[r] = Entry(run'[r], kind[r]) \/ journal'[r] = NoEntry
      BY <2>1, <2>2, <2>4
    <3>8. QED
      BY <1>0, <3>1, <3>2, <3>3, <3>4, <3>5, <3>6, <3>7 DEF RunInv, InMemory, Done, Active
  <2>8. \A d \in Clients \ {c} : CallInv(d)'
    BY <1>0, <1>1, <2>1, <2>2, OtherCalls DEF InMemory, Terminal
  <2>9. QED  BY <1>1, <2>5, <2>6, <2>7, <2>8, IdleCall DEF IInv
<1>4. QED  BY <1>2, <1>3

LEMMA ExecuteReturnsInv == ASSUME IInv, NEW c \in Clients, ExecuteReturns(c) PROVE IInv'
<1>1. /\ client[c].run \in Runs /\ InMemory(client[c].run) /\ kind[client[c].run] = "managed"
  BY DEF IInv, CallInv, ExecuteReturns
<1>2. QED  BY <1>1, CleanupInv DEF ExecuteReturns

LEMMA InspectReturnsInv == ASSUME IInv, NEW c \in Clients, InspectReturns(c) PROVE IInv'
<1>1. /\ client[c].run \in Runs /\ InMemory(client[c].run)
      /\ run[client[c].run].result # "none"
  BY DEF IInv, CallInv, InspectReturns
<1>2. QED  BY <1>1, CleanupInv DEF InspectReturns

\* Moving the label of an active run of a managed provider.
LEMMA RelabelInv ==
    ASSUME IInv, NEW c \in Clients, NEW r \in Runs, NEW label \in Active,
           run[r].state \in Active, kind[r] = "managed",
           run' = [run EXCEPT ![r].state = label],
           Save({r}, [run EXCEPT ![r].state = label], kind),
           UNCHANGED <<future, acked, workdir, boot, ids>>,
           client' \in [Clients -> [op : Ops, run : Runs \cup {0}]],
           \A d \in Clients \ {c} : client'[d] = client[d],
           \/ client'[c] = Idle
           \/ client'[c] = [op |-> "cancel", run |-> r]
    PROVE  IInv'
<1>0. /\ TypeOK /\ RunInv(r) /\ next \in Int /\ r \in Int
      /\ UNCHANGED <<mode, registered, todo, crashes, next, kind>>
  BY DEF IInv, TypeOK, Runs, boot, ids
<1> DEFINE tab == [run EXCEPT ![r].state = label]
<1>1. /\ tab \in [Runs -> RunRecord]
      /\ tab[r].state = label
      /\ tab[r].cleaned = run[r].cleaned
      /\ tab[r].result = run[r].result
      /\ tab[r].workdir_cleaned = run[r].workdir_cleaned
      /\ \A q \in Runs \ {r} : tab[q] = run[q]
  BY <1>0 DEF TypeOK, RunRecord, Active
<1>2. \A q \in {r} : tab[q].state # "none"
  BY <1>1 DEF Active
<1>3. run' = tab /\ Save({r}, tab, kind)
  OBVIOUS
<1> HIDE DEF tab
<1>4. /\ journal' \in [Runs -> JournalEntry] /\ newer' \in [Runs -> SUBSET Runs]
      /\ \A q \in {r} : journal'[q] = Entry(tab[q], kind[q])
      /\ \A q \in Runs \ {r} : journal'[q] = journal[q]
  BY <1>0, <1>1, <1>2, <1>3, SaveFacts
<1>5. TypeOK'
  BY <1>0, <1>1, <1>3, <1>4 DEF TypeOK
<1>6. \A q \in Runs \ {r} : RunInv(q)'
  BY <1>0, <1>1, <1>3, <1>4, Bystander
<1>7. RunInv(r)'
  <2>1. /\ Entry(run'[r], kind[r]).workdir = (kind[r] = "dependencies")
        /\ Entry(run'[r], kind[r]).state = run'[r].state
    BY DEF Entry
  <2>2. InMemory(r) /\ r < next /\ workdir[r] # "present" /\ label # "none" /\ label # "absent"
    BY <1>0 DEF RunInv, InMemory, NoRun, Active
  <2>3. /\ mode = "up" /\ future[r] # "none" /\ kind[r] \in AllKinds
        /\ run[r].result = "none" /\ ~run[r].cleaned /\ ~run[r].workdir_cleaned
    BY <1>0, <2>2 DEF RunInv
  <2>4. /\ run'[r].state = label
        /\ run'[r].cleaned = run[r].cleaned
        /\ run'[r].result = run[r].result
        /\ run'[r].workdir_cleaned = run[r].workdir_cleaned
        /\ journal'[r] = Entry(run'[r], kind[r])
    BY <1>1, <1>3, <1>4
  <2>5. QED
    BY <1>0, <2>1, <2>2, <2>3, <2>4 DEF RunInv, InMemory, Done, Active
<1>8. \A d \in Clients \ {c} : CallInv(d)'
  BY <1>0, <1>1, <1>2, <1>3, OtherCalls DEF InMemory, Active, Terminal
<1>9. CallInv(c)'
  <2>1. mode = "up" /\ run'[r].state # "none"
    BY <1>0, <1>1, <1>2, <1>3 DEF RunInv, InMemory, Active
  <2>2. QED  BY <1>0, <2>1, IdleCall DEF CallInv, InMemory
<1>10. QED  BY <1>5, <1>6, <1>7, <1>8, <1>9 DEF IInv

LEMMA CancelBeginsInv ==
    ASSUME IInv, NEW c \in Clients, NEW r \in Runs, CancelBegins(c, r) PROVE IInv'
<1>1. /\ client' \in [Clients -> [op : Ops, run : Runs \cup {0}]]
      /\ \A d \in Clients \ {c} : client'[d] = client[d]
      /\ client'[c] = [op |-> "cancel", run |-> r]
  BY DEF IInv, TypeOK, CancelBegins, Ops
<1>2. "cancelling" \in Active
  BY DEF Active
<1>3. QED  BY <1>1, <1>2, RelabelInv DEF CancelBegins

LEMMA CancelFailsInv == ASSUME IInv, NEW c \in Clients, CancelFails(c) PROVE IInv'
<1>1. /\ client' \in [Clients -> [op : Ops, run : Runs \cup {0}]]
      /\ \A d \in Clients \ {c} : client'[d] = client[d]
      /\ client'[c] = Idle
  BY DEF IInv, TypeOK, CancelFails, Ops, Idle
<1>2. client[c].run \in Runs /\ kind[client[c].run] = "managed"
  BY DEF IInv, CallInv, CancelFails
<1>3. CASE run[client[c].run].state = "cancelling"
  <2>1. "running" \in Active /\ "cancelling" \in Active
    BY DEF Active
  <2>2. /\ run' = [run EXCEPT ![client[c].run].state = "running"]
        /\ Save({client[c].run}, [run EXCEPT ![client[c].run].state = "running"], kind)
        /\ UNCHANGED <<future, acked, workdir, boot, ids>>
    BY <1>3 DEF CancelFails
  <2>3. run[client[c].run].state \in Active
    BY <1>3, <2>1
  <2> HIDE DEF CancelFails
  <2>4. QED  BY <1>1, <1>2, <2>1, <2>2, <2>3, RelabelInv
<1>4. CASE run[client[c].run].state # "cancelling"
  BY <1>1, <1>4, QuietStep, IdleCall DEF CancelFails, IInv, TypeOK, Done, disk
<1>5. QED  BY <1>3, <1>4

----------------------------------------------------------------------------
(* Crashes and recovery.                                                   *)

\* A crash empties the memory; what is on disk may have had directories
\* removed, and one journal file torn whose directory was removed.
LEMMA LoseMemoryInv ==
    ASSUME IInv, LoseMemory,
           journal' \in [Runs -> JournalEntry], newer' \in [Runs -> SUBSET Runs],
           workdir' \in [Runs -> Workdirs],
           \A r \in Runs :
               /\ workdir'[r] = workdir[r] \/ (workdir'[r] # "present" /\ r < next)
               /\ \/ journal'[r] = journal[r]
                  \/ journal'[r] = Torn /\ workdir'[r] # "present" /\ r < next
    PROVE  IInv'
<1>0. /\ TypeOK /\ next \in Int /\ MaxCrashes \in Nat
      /\ next' = next /\ kind' = kind /\ mode' = "down"
  BY RunSupervisorAssumption DEF IInv, TypeOK, LoseMemory, ids
<1>1. NoRun \in RunRecord /\ Idle \in [op : Ops, run : Runs \cup {0}]
  BY DEF NoRun, RunRecord, Idle, Ops
<1>2. TypeOK'
  BY <1>0, <1>1 DEF TypeOK, LoseMemory, Futures, ids
<1>3. ASSUME NEW r \in Runs PROVE RunInv(r)'
  <2>1. /\ run'[r] = NoRun /\ future'[r] = "none" /\ NoRun.state = "none"
        /\ NoRun.result = "none" /\ Torn.workdir = FALSE /\ r \in Int
    BY DEF LoseMemory, NoRun, Torn, NoEntry, Runs
  <2>2. RunInv(r)
    BY DEF IInv
  <2>3. QED  BY <1>0, <2>1, <2>2 DEF RunInv, InMemory, Active
<1>4. \A c \in Clients : CallInv(c)'
  BY IdleCall DEF LoseMemory
<1>5. QED  BY <1>2, <1>3, <1>4 DEF IInv

LEMMA CrashInv == ASSUME IInv, Crash PROVE IInv'
BY LoseMemoryInv DEF Crash, disk, IInv, TypeOK

LEMMA CrashInCollectInv == ASSUME IInv, NEW r \in Runs, CrashInCollect(r) PROVE IInv'
<1>1. /\ workdir' \in [Runs -> Workdirs]
      /\ workdir'[r] # "present"
      /\ \A q \in Runs \ {r} : workdir'[q] = workdir[q]
  BY RemoveFacts DEF CrashInCollect, IInv
<1>2. r < next
  BY DEF CrashInCollect, IInv, RunInv, Owned, Runs, TypeOK
<1>3. QED  BY <1>1, <1>2, LoseMemoryInv DEF CrashInCollect, IInv, TypeOK

LEMMA TornIsEntry == Torn \in JournalEntry
BY DEF Torn, NoEntry, JournalEntry

\* Sweeping the directory of one journal file.
LEMMA SweepFacts ==
    ASSUME IInv, NEW r \in Runs, RemoveWorkdirs({r} \cap {q \in Runs : Sweepable(q)})
    PROVE  /\ workdir' \in [Runs -> Workdirs]
           /\ workdir'[r] # "present"
           /\ \A q \in Runs \ {r} : workdir'[q] = workdir[q]
           /\ ~Sweepable(r) => workdir'[r] = workdir[r]
<1> DEFINE S == {r} \cap {q \in Runs : Sweepable(q)}
<1>1. /\ workdir' \in [Runs -> Workdirs]
      /\ \A q \in S : workdir'[q] # "present" /\ workdir'[q] # "none"
      /\ \A q \in Runs \ S : workdir'[q] = workdir[q]
  BY RemoveFacts DEF IInv
<1>2. workdir[r] = "present" => Sweepable(r)
  BY DEF IInv, RunInv, Sweepable
<1>3. QED  BY <1>1, <1>2

LEMMA CrashInRecoverWriteInv ==
    ASSUME IInv, NEW r \in Runs, CrashInRecoverWrite(r) PROVE IInv'
<1>1. /\ workdir' \in [Runs -> Workdirs]
      /\ workdir'[r] # "present"
      /\ \A q \in Runs \ {r} : workdir'[q] = workdir[q]
  BY SweepFacts DEF CrashInRecoverWrite
<1>2. r < next
  <2>1. journal[r].state # "absent" \/ journal[r].workdir
    BY DEF CrashInRecoverWrite, Recoverable, Sweepable, Active
  <2>2. QED  BY <2>1 DEF IInv, RunInv, NoEntry, Runs, TypeOK
<1>3. newer' \in [Runs -> SUBSET Runs]
  BY TimesType DEF CrashInRecoverWrite, IInv
<1>4. /\ journal' \in [Runs -> JournalEntry]
      /\ journal'[r] = Torn
      /\ \A q \in Runs \ {r} : journal'[q] = journal[q]
  BY TornIsEntry DEF CrashInRecoverWrite, IInv, TypeOK
<1>5. QED  BY <1>1, <1>2, <1>3, <1>4, LoseMemoryInv DEF CrashInRecoverWrite

\* When the server is not up, its memory is empty and no call is in flight.
LEMMA DownIsEmpty ==
    ASSUME IInv, mode # "up"
    PROVE  /\ \A r \in Runs : run[r] = NoRun /\ future[r] = "none" /\ ~InMemory(r)
           /\ \A c \in Clients : client[c].op = "idle"
BY DEF IInv, RunInv, CallInv

LEMMA BootInv == ASSUME IInv, Boot PROVE IInv'
<1>0. /\ UNCHANGED <<run, future, client, acked, workdir, journal, newer, next, kind, crashes>>
      /\ mode = "down" /\ mode' = "recovering"
  BY DEF Boot, memory, disk, ids
<1>1. TypeOK'
  BY <1>0 DEF IInv, TypeOK, Boot
<1>2. ASSUME NEW r \in Runs PROVE RunInv(r)'
  <2>1. RunInv(r) /\ run[r] = NoRun /\ ~InMemory(r)
    BY <1>0, DownIsEmpty DEF IInv
  <2>2. workdir[r] = "present" => r \in todo'
    BY <2>1 DEF RunInv, Boot, Active
  <2>3. QED  BY <1>0, <2>1, <2>2 DEF RunInv, InMemory, Done
<1>3. \A c \in Clients : CallInv(c)'
  BY <1>0, DownIsEmpty DEF CallInv
<1>4. QED  BY <1>1, <1>2, <1>3 DEF IInv

LEMMA RecoverAbortsInv == ASSUME IInv, NEW r \in Runs, RecoverAborts(r) PROVE IInv'
<1>0. /\ UNCHANGED <<run, future, client, acked, workdir, journal, newer, next, kind, crashes, registered>>
      /\ mode = "recovering" /\ mode' = "down" /\ todo' = {}
  BY DEF RecoverAborts, memory, disk, ids
<1>1. TypeOK'
  BY <1>0 DEF IInv, TypeOK
<1>2. ASSUME NEW q \in Runs PROVE RunInv(q)'
  <2>1. RunInv(q) /\ run[q] = NoRun /\ ~InMemory(q)
    BY <1>0, DownIsEmpty DEF IInv
  <2>2. QED  BY <1>0, <2>1 DEF RunInv, InMemory, Done
<1>3. \A c \in Clients : CallInv(c)'
  BY <1>0, DownIsEmpty DEF CallInv
<1>4. QED  BY <1>1, <1>2, <1>3 DEF IInv

LEMMA RecoverDoneInv == ASSUME IInv, RecoverDone PROVE IInv'
<1>0. /\ UNCHANGED <<run, future, client, acked, workdir, next, kind, crashes, registered, todo>>
      /\ mode = "recovering" /\ mode' = "up" /\ todo = {}
      /\ journal' = Prune(journal, newer)
      /\ newer' = Compact(journal', newer)
  BY DEF RecoverDone, memory, ids
<1>1. /\ journal' \in [Runs -> JournalEntry]
      /\ \A r \in Runs : \/ journal'[r] = journal[r]
                         \/ journal[r].state \in Terminal /\ journal'[r] = NoEntry
  BY <1>0, PruneDrops DEF IInv, TypeOK
<1>2. newer' \in [Runs -> SUBSET Runs]
  BY <1>0 DEF IInv, TypeOK, Compact
<1>3. TypeOK'
  BY <1>0, <1>1, <1>2 DEF IInv, TypeOK
<1>4. ASSUME NEW r \in Runs PROVE RunInv(r)'
  <2>1. RunInv(r) /\ run[r] = NoRun /\ ~InMemory(r)
    BY <1>0, DownIsEmpty DEF IInv
  <2>2. workdir[r] # "present"
    BY <1>0, <2>1 DEF RunInv
  <2>3. NoEntry.workdir = FALSE /\ NoEntry.state = "absent"
    BY DEF NoEntry
  <2>4. journal[r].state \in Terminal => r < next
    BY <2>1, <2>3 DEF RunInv, Terminal, IInv, TypeOK, Runs
  <2>5. /\ NoRun.state = "none" /\ NoRun.result = "none" /\ "none" \notin Active
        /\ r \in Int /\ next \in Int
    BY DEF NoRun, Active, Runs, IInv, TypeOK
  <2>6. CASE journal'[r] = journal[r]
    BY <1>0, <2>1, <2>2, <2>5, <2>6 DEF RunInv, InMemory
  <2>7. CASE journal[r].state \in Terminal /\ journal'[r] = NoEntry
    BY <1>0, <2>1, <2>2, <2>3, <2>4, <2>5, <2>7 DEF RunInv, InMemory
  <2>8. QED  BY <1>1, <2>6, <2>7
<1>5. \A c \in Clients : CallInv(c)'
  BY <1>0, DownIsEmpty DEF CallInv
<1>6. QED  BY <1>3, <1>4, <1>5 DEF IInv

\* recover_orphans rewrites a journal file into a well-formed one that still
\* belongs to the same kind of run.
LEMMA RecoveredFacts ==
    ASSUME IInv, NEW r \in Runs
    PROVE  /\ RecoveredEntry(r) \in JournalEntry
           /\ RecoveredEntry(r).workdir = journal[r].workdir
<1>1. journal[r] \in JournalEntry
  BY DEF IInv, TypeOK
<1>2. /\ (IF Recoverable(r) THEN "recovered" ELSE journal[r].state)
           \in {"absent", "torn"} \cup Active \cup Terminal
      /\ (journal[r].cleaned \/ Recoverable(r)) \in BOOLEAN
      /\ (journal[r].workdir_cleaned \/ Sweepable(r)) \in BOOLEAN
  BY <1>1 DEF JournalEntry, Terminal
<1>3. QED  BY <1>1, <1>2 DEF RecoveredEntry, JournalEntry

LEMMA RecoverEntryInv == ASSUME IInv, NEW r \in Runs, RecoverEntry(r) PROVE IInv'
<1>0. /\ UNCHANGED <<run, future, client, acked, next, kind, crashes, registered, mode>>
      /\ mode = "recovering" /\ r \in todo /\ todo' = todo \ {r}
  BY DEF RecoverEntry, memory, ids
<1>1. /\ workdir' \in [Runs -> Workdirs]
      /\ journal' \in [Runs -> JournalEntry]
      /\ newer' \in [Runs -> SUBSET Runs]
      /\ \A q \in Runs \ {r} : workdir'[q] = workdir[q] /\ journal'[q] = journal[q]
      /\ workdir'[r] # "present"
      /\ \/ journal'[r] = journal[r] /\ workdir'[r] = workdir[r]
         \/ /\ journal'[r] = RecoveredEntry(r)
            /\ journal[r].state # "absent" \/ journal[r].workdir
  <2>1. CASE Recoverable(r) \/ Sweepable(r)
    <3>1. /\ workdir' \in [Runs -> Workdirs]
          /\ workdir'[r] # "present"
          /\ \A q \in Runs \ {r} : workdir'[q] = workdir[q]
      BY <2>1, SweepFacts DEF RecoverEntry
    <3>2. newer' \in [Runs -> SUBSET Runs]
      BY <2>1, TimesType DEF RecoverEntry, IInv
    <3>3. /\ journal' \in [Runs -> JournalEntry]
          /\ journal'[r] = RecoveredEntry(r)
          /\ \A q \in Runs \ {r} : journal'[q] = journal[q]
      BY <2>1, RecoveredFacts DEF RecoverEntry, IInv, TypeOK
    <3>4. journal[r].state # "absent" \/ journal[r].workdir
      BY <2>1 DEF Recoverable, Sweepable, Active
    <3>5. QED  BY <3>1, <3>2, <3>3, <3>4
  <2>2. CASE ~(Recoverable(r) \/ Sweepable(r))
    <3>1. UNCHANGED <<workdir, journal, newer>>
      BY <2>2 DEF RecoverEntry, disk
    <3>2. workdir[r] # "present"
      BY <2>2 DEF IInv, RunInv, Sweepable
    <3>3. QED  BY <3>1, <3>2 DEF IInv, TypeOK
  <2>3. QED  BY <2>1, <2>2
<1>2. TypeOK'
  BY <1>0, <1>1 DEF IInv, TypeOK
<1>3. ASSUME NEW q \in Runs PROVE RunInv(q)'
  <2>1. RunInv(q) /\ run[q] = NoRun /\ ~InMemory(q) /\ NoRun.state = "none"
    BY <1>0, DownIsEmpty DEF IInv, NoRun
  <2>2. CASE q # r
    BY <1>0, <1>1, <2>1, <2>2 DEF RunInv, InMemory, Done
  <2>3. CASE q = r
    <3>1. RecoveredEntry(r).workdir = journal[r].workdir
      BY RecoveredFacts
    <3>2. NoEntry.state = "absent" /\ NoEntry.workdir = FALSE
      BY DEF NoEntry
    <3>3. /\ NoRun.result = "none" /\ "none" \notin Active
          /\ r \in Int /\ next \in Int
      BY DEF NoRun, Active, Runs, IInv, TypeOK
    <3>4. CASE journal'[r] = journal[r] /\ workdir'[r] = workdir[r]
      BY <1>0, <1>1, <2>1, <2>3, <3>3, <3>4 DEF RunInv, InMemory
    <3>5. CASE /\ journal'[r] = RecoveredEntry(r)
               /\ journal[r].state # "absent" \/ journal[r].workdir
      <4>1. r < next
        BY <2>1, <2>3, <3>2, <3>3, <3>5 DEF RunInv
      <4>2. QED  BY <1>0, <1>1, <2>1, <2>3, <3>1, <3>3, <3>5, <4>1 DEF RunInv, InMemory
    <3>6. QED  BY <1>1, <3>4, <3>5
  <2>4. QED  BY <2>2, <2>3
<1>4. \A c \in Clients : CallInv(c)'
  BY <1>0, DownIsEmpty DEF CallInv
<1>5. QED  BY <1>2, <1>3, <1>4 DEF IInv

----------------------------------------------------------------------------
(* start().                                                                *)

\* The table after the reaping at the head of start().
LEMMA ReapedTable ==
    ASSUME IInv
    PROVE  /\ Reapable \in SUBSET Runs /\ Owned(Reapable) \in SUBSET Reapable
           /\ CollectAll(Reapable) \in [Runs -> RunRecord]
           /\ \A r \in Reapable :
                  /\ CollectAll(Reapable)[r].state = "finished"
                  /\ CollectAll(Reapable)[r].result # "none"
                  /\ CollectAll(Reapable)[r].workdir_cleaned = (kind[r] = "dependencies")
                  /\ InMemory(r) /\ Done(r) /\ r < next
                  /\ workdir[r] = "present" => r \in Owned(Reapable)
           /\ \A r \in Runs \ Reapable : CollectAll(Reapable)[r] = run[r]
<1>1. Reapable \in SUBSET Runs /\ Owned(Reapable) \in SUBSET Reapable
  BY DEF Reapable, Owned
<1>2. ASSUME NEW r \in Reapable
      PROVE  /\ InMemory(r) /\ Done(r) /\ r < next
             /\ workdir[r] = "present" => r \in Owned(Reapable)
  <2>1. RunInv(r) /\ run[r].state \in Active /\ Done(r)
    BY <1>1 DEF IInv, Reapable
  <2>2. InMemory(r)
    BY <2>1 DEF InMemory, Active
  <2>3. r \in Int /\ next \in Int
    BY <1>1 DEF IInv, TypeOK, Runs
  <2>4. r < next
    BY <2>1, <2>2, <2>3 DEF RunInv, InMemory, NoRun
  <2>5. QED  BY <2>1, <2>2, <2>4 DEF RunInv, Owned
<1>3. QED  BY <1>1, <1>2, CollectAllFacts DEF IInv

\* A run reaped by start() ends as _collect leaves it.
LEMMA ReapedRun ==
    ASSUME IInv, NEW q \in Reapable, run'[q] = CollectAll(Reapable)[q],
           future'[q] = future[q], kind'[q] = kind[q], workdir'[q] # "present",
           mode' = mode, todo' = todo, next' \in {next, next + 1},
           journal'[q] = Entry(run'[q], kind[q]) \/ journal'[q] = NoEntry
    PROVE  RunInv(q)'
<1>1. /\ q \in Runs /\ q \in Int /\ next \in Int /\ RunInv(q) /\ q < next
      /\ InMemory(q) /\ Done(q)
      /\ run'[q].state = "finished" /\ run'[q].result # "none"
      /\ run'[q].workdir_cleaned = (kind[q] = "dependencies")
  BY ReapedTable DEF IInv, TypeOK, Runs
<1>2. /\ NoEntry.state = "absent" /\ ~NoEntry.workdir
  BY DEF NoEntry
<1>3. Entry(run'[q], kind[q]).workdir = (kind[q] = "dependencies")
  BY DEF Entry
<1>4. /\ mode = "up" /\ future[q] # "none" /\ kind[q] \in AllKinds /\ Done(q)'
      /\ q < next' /\ InMemory(q)' /\ run'[q].state \notin Active
  BY <1>1 DEF RunInv, InMemory, Done, Active
<1>5. journal'[q].workdir => kind[q] = "dependencies"
  BY <1>2, <1>3
<1>6. /\ kind[q] = "dependencies" => run'[q].workdir_cleaned
      /\ InMemory(q)' /\ journal'[q].state # "absent" => journal'[q] = Entry(run'[q], kind'[q])
  BY <1>1, <1>2
<1>7. QED
  BY <1>1, <1>4, <1>5, <1>6 DEF RunInv, InMemory

\* Nothing is lost from the table by reaping.
LEMMA ReapKeepsCalls ==
    ASSUME IInv, mode' = mode,
           \A r \in Runs : r # next => kind'[r] = kind[r] /\ run'[r] = CollectAll(Reapable)[r]
    PROVE  \A r \in Runs : InMemory(r) =>
               /\ kind'[r] = kind[r]
               /\ run'[r].state # "none"
               /\ run[r].state \in Terminal => run'[r].state \in Terminal
               /\ run[r].result # "none" => run'[r].result # "none"
<1> SUFFICES ASSUME NEW r \in Runs, InMemory(r)
             PROVE  /\ kind'[r] = kind[r]
                    /\ run'[r].state # "none"
                    /\ run[r].state \in Terminal => run'[r].state \in Terminal
                    /\ run[r].result # "none" => run'[r].result # "none"
  OBVIOUS
<1>1. r # next
  BY DEF IInv, RunInv, InMemory, NoRun, TypeOK, Runs
<1>2. QED  BY <1>1, ReapedTable DEF InMemory, Terminal

LEMMA RejectInv == ASSUME IInv, NEW c \in Clients, mode = "up", Reject(c) PROVE IInv'
<1> DEFINE tab == CollectAll(Reapable)
<1>0. /\ TypeOK /\ run' = tab
      /\ UNCHANGED <<future, acked, mode, registered, todo, crashes, next, kind>>
  BY DEF IInv, Reject, boot, ids
<1>1. /\ client' \in [Clients -> [op : Ops, run : Runs \cup {0}]]
      /\ \A d \in Clients \ {c} : client'[d] = client[d]
      /\ client'[c].op = "rejected"
  BY DEF IInv, TypeOK, Reject, Ops
<1>2. /\ workdir' \in [Runs -> Workdirs]
      /\ \A q \in Owned(Reapable) : workdir'[q] # "present"
      /\ \A q \in Runs \ Owned(Reapable) : workdir'[q] = workdir[q]
  BY <1>0, ReapedTable, RemoveFacts DEF Reject
<1>3. /\ journal' \in [Runs -> JournalEntry] /\ newer' \in [Runs -> SUBSET Runs]
      /\ \A q \in Reapable : \/ journal'[q] = Entry(tab[q], kind[q])
                             \/ journal'[q] = NoEntry
      /\ \A q \in Runs \ Reapable : \/ journal'[q] = journal[q]
                                    \/ journal[q].state \in Terminal /\ journal'[q] = NoEntry
  <2>1. CASE Reapable = {}
    BY <1>0, <2>1 DEF Reject, TypeOK
  <2>2. CASE Reapable # {}
    <3>1. SaveAndPrune(Reapable, tab, kind)
      BY <2>2 DEF Reject
    <3>2. \A q \in Reapable : tab[q].state # "none"
      BY ReapedTable
    <3>3. Reapable \in SUBSET Runs /\ tab \in [Runs -> RunRecord]
      BY ReapedTable
    <3> HIDE DEF tab
    <3>4. /\ journal' \in [Runs -> JournalEntry] /\ newer' \in [Runs -> SUBSET Runs]
          /\ \A q \in Reapable : \/ journal'[q] = Entry(tab[q], kind[q])
                                 \/ tab[q].state \in Terminal /\ journal'[q] = NoEntry
          /\ \A q \in Runs \ Reapable : \/ journal'[q] = journal[q]
                                        \/ journal[q].state \in Terminal /\ journal'[q] = NoEntry
      BY <1>0, <3>1, <3>2, <3>3, SaveFacts
    <3>5. QED  BY <3>4
  <2>3. QED  BY <2>1, <2>2
<1>4. TypeOK'
  BY <1>0, <1>1, <1>2, <1>3, ReapedTable DEF TypeOK
<1>5. ASSUME NEW q \in Runs PROVE RunInv(q)'
  <2>1. CASE q \in Reapable
    BY <1>0, <1>2, <1>3, <2>1, ReapedTable, ReapedRun
  <2>2. CASE q \notin Reapable
    <3>1. run'[q] = run[q] /\ workdir'[q] = workdir[q]
      BY <1>0, <1>2, <2>2, ReapedTable
    <3>2. QED  BY <1>0, <1>3, <2>2, <3>1, Bystander
  <2>3. QED  BY <2>1, <2>2
<1>6. \A d \in Clients \ {c} : CallInv(d)'
  <2>1. \A r \in Runs : r # next => kind'[r] = kind[r] /\ run'[r] = CollectAll(Reapable)[r]
    BY <1>0
  <2>2. QED  BY <1>0, <1>1, <2>1, ReapKeepsCalls, OtherCalls
<1>7. CallInv(c)'
  BY <1>0, <1>1 DEF CallInv
<1>8. QED  BY <1>4, <1>5, <1>6, <1>7 DEF IInv

LEMMA AdmitInv ==
    ASSUME IInv, NEW c \in Clients, NEW k \in AllKinds, NEW op \in {"idle", "wait"},
           op = "wait" => k = "managed", mode = "up", next \in Runs, Admit(c, k, op)
    PROVE  IInv'
<1> DEFINE reaped == CollectAll(Reapable)
           tab == [reaped EXCEPT ![next] = NewRun]
           kinds == [kind EXCEPT ![next] = k]
<1>0. /\ TypeOK /\ run' = tab /\ kind' = kinds /\ next' = next + 1 /\ next \in Int
      /\ future' = [future EXCEPT ![next] = "queued"]
      /\ UNCHANGED <<acked, mode, registered, todo, crashes>>
  BY DEF IInv, Admit, boot, TypeOK
<1>1. /\ client' \in [Clients -> [op : Ops, run : Runs \cup {0}]]
      /\ \A d \in Clients \ {c} : client'[d] = client[d]
      /\ client'[c].op = op
      /\ op = "wait" => client'[c].run = next
  <2>1. [op |-> op, run |-> IF op = "wait" THEN next ELSE 0] \in [op : Ops, run : Runs \cup {0}]
    BY DEF Ops
  <2>2. QED  BY <2>1 DEF IInv, TypeOK, Admit
<1>2. /\ NewRun \in RunRecord /\ NewRun.state = "running" /\ NewRun.result = "none"
      /\ NewRun.cleaned = FALSE /\ NewRun.workdir_cleaned = FALSE
  BY DEF NewRun, NoRun, RunRecord
<1>3. next \notin Reapable
  BY <1>0, ReapedTable
<1>4. /\ tab \in [Runs -> RunRecord] /\ tab[next] = NewRun
      /\ \A r \in Runs \ {next} : tab[r] = reaped[r]
  BY <1>2, ReapedTable
<1>5. /\ kinds \in [Runs -> AllKinds \cup {"none"}] /\ kinds[next] = k
      /\ \A r \in Runs \ {next} : kinds[r] = kind[r]
  BY <1>0 DEF TypeOK
<1>6. \A r \in Reapable \cup {next} : tab[r].state # "none"
  BY <1>2, <1>3, <1>4, ReapedTable
<1>7. /\ workdir' \in [Runs -> Workdirs]
      /\ \A q \in Owned(Reapable) : workdir'[q] # "present"
      /\ k = "dependencies" => workdir'[next] = "present"
      /\ k # "dependencies" => workdir'[next] = workdir[next]
      /\ \A q \in Runs \ (Owned(Reapable) \cup {next}) : workdir'[q] = workdir[q]
  <2>1. next \notin Owned(Reapable)
    BY <1>3, ReapedTable
  <2>2. PICK gone \in SUBSET Owned(Reapable) :
               workdir' = [r \in Runs |->
                              IF r \in gone THEN "removed"
                              ELSE IF r \in Owned(Reapable) THEN "leaked"
                              ELSE IF r = next /\ k = "dependencies" THEN "present"
                              ELSE workdir[r]]
    BY DEF Admit
  <2>3. \A r \in Runs : workdir'[r] \in Workdirs
    BY <1>0, <2>2 DEF TypeOK, Workdirs
  <2>4. workdir' \in [Runs -> Workdirs]
    BY <2>2, <2>3
  <2>5. \A q \in Owned(Reapable) : workdir'[q] # "present"
    BY <2>2, ReapedTable
  <2>6. /\ k = "dependencies" => workdir'[next] = "present"
        /\ k # "dependencies" => workdir'[next] = workdir[next]
    BY <2>1, <2>2
  <2>7. \A q \in Runs \ (Owned(Reapable) \cup {next}) : workdir'[q] = workdir[q]
    BY <2>2
  <2>8. QED  BY <2>4, <2>5, <2>6, <2>7
<1> HIDE DEF tab, kinds
<1>8. /\ journal' \in [Runs -> JournalEntry] /\ newer' \in [Runs -> SUBSET Runs]
      /\ \A q \in Reapable : \/ journal'[q] = Entry(tab[q], kinds[q])
                             \/ journal'[q] = NoEntry
      /\ journal'[next] = Entry(tab[next], kinds[next])
      /\ \A q \in Runs \ (Reapable \cup {next}) :
             \/ journal'[q] = journal[q]
             \/ journal[q].state \in Terminal /\ journal'[q] = NoEntry
  <2>0. tab[next].state \notin Terminal /\ Reapable \cup {next} \in SUBSET Runs
    BY <1>2, <1>4, ReapedTable DEF Terminal
  <2>1. CASE Reapable = {}
    <3>1. Save({next}, tab, kinds)
      BY <2>1 DEF Admit, tab, kinds
    <3>2. \A r \in {next} : tab[r].state # "none"
      BY <1>6
    <3>3. {next} \in SUBSET Runs
      OBVIOUS
    <3>4. /\ journal' \in [Runs -> JournalEntry] /\ newer' \in [Runs -> SUBSET Runs]
          /\ \A q \in {next} : journal'[q] = Entry(tab[q], kinds[q])
          /\ \A q \in Runs \ {next} : journal'[q] = journal[q]
      BY <1>0, <1>4, <3>1, <3>2, <3>3, SaveFacts
    <3>5. QED  BY <2>1, <3>4
  <2>2. CASE Reapable # {}
    <3>1. SaveAndPrune(Reapable \cup {next}, tab, kinds)
      BY <2>2 DEF Admit, tab, kinds
    <3>2. /\ journal' \in [Runs -> JournalEntry] /\ newer' \in [Runs -> SUBSET Runs]
          /\ \A q \in Reapable \cup {next} :
                 \/ journal'[q] = Entry(tab[q], kinds[q])
                 \/ tab[q].state \in Terminal /\ journal'[q] = NoEntry
          /\ \A q \in Runs \ (Reapable \cup {next}) :
                 \/ journal'[q] = journal[q]
                 \/ journal[q].state \in Terminal /\ journal'[q] = NoEntry
      BY <1>0, <1>4, <1>6, <2>0, <3>1, SaveFacts
    <3>3. QED  BY <2>0, <3>2
  <2>3. QED  BY <2>1, <2>2
<1>9. TypeOK'
  <2>1. next + 1 \in 1 .. MaxRuns + 1
    BY RunSupervisorAssumption DEF Runs
  <2>2. QED  BY <1>0, <1>1, <1>4, <1>5, <1>7, <1>8, <2>1 DEF TypeOK, Futures
<1>10. ASSUME NEW q \in Runs PROVE RunInv(q)'
  <2>1. CASE q \in Reapable
    <3>1. q # next /\ run'[q] = reaped[q] /\ kind'[q] = kind[q] /\ future'[q] = future[q]
      BY <1>0, <1>3, <1>4, <1>5, <2>1 DEF TypeOK
    <3>2. workdir'[q] # "present"
      BY <1>7, <2>1, <3>1, ReapedTable
    <3>3. journal'[q] = Entry(run'[q], kind[q]) \/ journal'[q] = NoEntry
      BY <1>0, <1>5, <1>8, <2>1, <3>1
    <3>4. QED  BY <1>0, <2>1, <3>1, <3>2, <3>3, ReapedRun
  <2>2. CASE q \notin Reapable /\ q # next
    <3>1. run'[q] = run[q] /\ workdir'[q] = workdir[q] /\ kind'[q] = kind[q] /\ future'[q] = future[q]
      BY <1>0, <1>4, <1>5, <1>7, <2>2, ReapedTable DEF TypeOK
    <3>2. QED  BY <1>0, <1>8, <2>2, <3>1, Bystander
  <2>3. CASE q = next
    <3>1. /\ run'[q] = NewRun /\ kind'[q] = k /\ future'[q] = "queued"
          /\ journal'[q] = Entry(NewRun, k) /\ workdir[q] = "none"
      BY <1>0, <1>4, <1>5, <1>8, <2>3 DEF TypeOK, IInv, RunInv
    <3>2. /\ Entry(NewRun, k).state = "running"
          /\ Entry(NewRun, k).workdir = (k = "dependencies")
          /\ k = "dependencies" => ~Entry(NewRun, k).workdir_cleaned
      BY <1>2 DEF Entry
    <3>3. k = "dependencies" => workdir'[q] = "present"
      BY <1>7, <2>3
    <3>4. k # "dependencies" => workdir'[q] = "none"
      BY <1>7, <2>3, <3>1
    <3>5. /\ InMemory(q)' /\ q < next' /\ run'[q].state = "running" /\ run'[q].result = "none"
          /\ ~run'[q].cleaned /\ ~run'[q].workdir_cleaned /\ kind'[q] \in AllKinds
          /\ mode' = "up" /\ future'[q] # "none"
      BY <1>0, <1>2, <2>3, <3>1 DEF InMemory
    <3>6. /\ journal'[q] = Entry(run'[q], kind'[q]) /\ journal'[q].state = "running"
          /\ journal'[q].workdir => kind'[q] = "dependencies"
          /\ workdir'[q] = "present" => /\ journal'[q].workdir
                                        /\ ~journal'[q].workdir_cleaned
                                        /\ kind'[q] = "dependencies"
          /\ kind'[q] = "dependencies" => workdir'[q] = "present"
      BY <3>1, <3>2, <3>3, <3>4
    <3>7. q \in Int /\ next' \in Int
      BY <1>0, <2>3
    <3>8. QED
      BY <3>5, <3>6, <3>7 DEF RunInv, InMemory, Active
  <2>4. QED  BY <2>1, <2>2, <2>3
<1>11. \A d \in Clients \ {c} : CallInv(d)'
  <2>1. \A r \in Runs : r # next => kind'[r] = kind[r] /\ run'[r] = CollectAll(Reapable)[r]
    BY <1>0, <1>4, <1>5
  <2>2. QED  BY <1>0, <1>1, <2>1, ReapKeepsCalls, OtherCalls
<1>12. CallInv(c)'
  <2>1. mode' = "up" /\ run'[next].state = "running" /\ kind'[next] = k
    BY <1>0, <1>2, <1>4, <1>5
  <2>2. CASE op = "idle"
    BY <1>1, <2>2 DEF CallInv
  <2>3. CASE op = "wait"
    BY <1>1, <2>1, <2>3 DEF CallInv, InMemory
  <2>4. QED  BY <2>2, <2>3
<1>13. QED  BY <1>9, <1>10, <1>11, <1>12 DEF IInv

LEMMA SubmitFailsInv ==
    ASSUME IInv, NEW c \in Clients, NEW k \in AllKinds,
           mode = "up", next \in Runs, SubmitFails(c, k)
    PROVE  IInv'
<1> DEFINE reaped == CollectAll(Reapable)
           failed == [NewRun EXCEPT !.state = "finished", !.workdir_cleaned = TRUE]
           kinds == [kind EXCEPT ![next] = k]
           dirs == Owned(Reapable) \cup (IF k = "dependencies" THEN {next} ELSE {})
           unpruned == [r \in Runs |-> IF r \in Reapable THEN Entry(reaped[r], kind[r])
                                       ELSE journal[r]]
           pruned == IF Reapable = {} THEN journal ELSE Prune(unpruned, Touched(Reapable))
           written == [pruned EXCEPT ![next] = Entry(failed, k)]
<1>0. /\ TypeOK /\ run' = reaped /\ kind' = kinds /\ next' = next + 1 /\ next \in Int
      /\ UNCHANGED <<future, client, acked, mode, registered, todo, crashes>>
      /\ RemoveWorkdirs(dirs)
      /\ journal' = written
      /\ newer' = Compact(written, Touched(Reapable \cup {next}))
  BY DEF IInv, SubmitFails, boot, TypeOK
<1>1. next \notin Reapable /\ run[next] = NoRun /\ future[next] = "none"
  BY <1>0, ReapedTable DEF IInv, RunInv
<1>2. /\ kinds \in [Runs -> AllKinds \cup {"none"}] /\ kinds[next] = k
      /\ \A r \in Runs \ {next} : kinds[r] = kind[r]
  BY <1>0 DEF TypeOK
<1>3. /\ workdir' \in [Runs -> Workdirs]
      /\ \A q \in dirs : workdir'[q] # "present"
      /\ \A q \in Runs \ dirs : workdir'[q] = workdir[q]
  <2>1. dirs \in SUBSET Runs
    BY ReapedTable
  <2>2. QED  BY <1>0, <2>1, RemoveFacts
<1>4. workdir'[next] # "present" /\ \A q \in Runs \ {next} : q \in dirs <=> q \in Owned(Reapable)
  <2>1. CASE k = "dependencies"
    BY <1>3, <2>1
  <2>2. CASE k # "dependencies"
    <3>1. next \notin dirs /\ workdir[next] = "none"
      BY <1>0, <1>1, <2>2, ReapedTable DEF IInv, RunInv
    <3>2. QED  BY <1>3, <2>2, <3>1
  <2>3. QED  BY <2>1, <2>2
<1>5. failed \in RunRecord /\ failed.state = "finished"
  BY DEF NewRun, NoRun, RunRecord
<1>6. Entry(failed, k) \in JournalEntry /\ Entry(failed, k).workdir = (k = "dependencies")
  BY <1>5, EntryType
<1>7. unpruned \in [Runs -> JournalEntry]
  <2>1. \A r \in Reapable : Entry(reaped[r], kind[r]) \in JournalEntry
    BY ReapedTable, EntryType
  <2>2. QED  BY <1>0, <2>1 DEF TypeOK
<1>8. /\ pruned \in [Runs -> JournalEntry]
      /\ \A q \in Reapable : pruned[q] = Entry(reaped[q], kind[q]) \/ pruned[q] = NoEntry
      /\ \A q \in Runs \ Reapable :
             \/ pruned[q] = journal[q]
             \/ journal[q].state \in Terminal /\ pruned[q] = NoEntry
  <2>1. CASE Reapable = {}
    BY <1>0, <2>1 DEF TypeOK
  <2>2. CASE Reapable # {}
    <3>1. /\ \A q \in Reapable : unpruned[q] = Entry(reaped[q], kind[q])
          /\ \A q \in Runs \ Reapable : unpruned[q] = journal[q]
      BY ReapedTable
    <3> HIDE DEF unpruned
    <3>2. /\ Prune(unpruned, Touched(Reapable)) \in [Runs -> JournalEntry]
          /\ \A r \in Runs :
                 \/ Prune(unpruned, Touched(Reapable))[r] = unpruned[r]
                 \/ /\ unpruned[r].state \in Terminal
                    /\ Prune(unpruned, Touched(Reapable))[r] = NoEntry
      BY <1>7, PruneDrops
    <3>3. QED  BY <2>2, <3>1, <3>2, ReapedTable
  <2>3. QED  BY <2>1, <2>2
<1> HIDE DEF failed, unpruned, pruned, dirs, kinds
<1>9. /\ journal' \in [Runs -> JournalEntry]
      /\ journal'[next] = Entry(failed, k)
      /\ \A q \in Runs \ {next} : journal'[q] = pruned[q]
  BY <1>0, <1>6, <1>8
<1>10. newer' \in [Runs -> SUBSET Runs]
  <2>1. Reapable \cup {next} \in SUBSET Runs
    BY ReapedTable
  <2> HIDE DEF written
  <2>2. QED  BY <1>0, <2>1, TimesType
<1>11. TypeOK'
  <2>1. next + 1 \in 1 .. MaxRuns + 1
    BY RunSupervisorAssumption DEF Runs
  <2>2. QED  BY <1>0, <1>2, <1>3, <1>9, <1>10, <2>1, ReapedTable DEF TypeOK
<1>12. ASSUME NEW q \in Runs PROVE RunInv(q)'
  <2>1. CASE q \in Reapable
    <3>1. q # next /\ run'[q] = reaped[q] /\ kind'[q] = kind[q] /\ future'[q] = future[q]
      BY <1>0, <1>1, <1>2, <2>1
    <3>2. workdir'[q] # "present"
      BY <1>3, <1>4, <2>1, <3>1, ReapedTable
    <3>3. journal'[q] = Entry(run'[q], kind[q]) \/ journal'[q] = NoEntry
      BY <1>0, <1>8, <1>9, <2>1, <3>1
    <3>4. QED  BY <1>0, <2>1, <3>1, <3>2, <3>3, ReapedRun
  <2>2. CASE q \notin Reapable /\ q # next
    <3>1. run'[q] = run[q] /\ workdir'[q] = workdir[q] /\ kind'[q] = kind[q] /\ future'[q] = future[q]
      BY <1>0, <1>2, <1>3, <1>4, <2>2, ReapedTable
    <3>2. QED  BY <1>0, <1>8, <1>9, <2>2, <3>1, Bystander
  <2>3. CASE q = next
    <3>1. /\ run'[q] = NoRun /\ kind'[q] = k /\ future'[q] = "none"
          /\ NoRun.state = "none" /\ NoRun.result = "none" /\ q < next' /\ q \in Int /\ next' \in Int
      BY <1>0, <1>1, <1>2, <2>3, ReapedTable DEF NoRun
    <3>2. journal'[q].workdir => kind'[q] = "dependencies"
      BY <1>6, <1>9, <2>3, <3>1
    <3>3. QED  BY <1>4, <2>3, <3>1, <3>2 DEF RunInv, InMemory, Active
  <2>4. QED  BY <2>1, <2>2, <2>3
<1>13. \A d \in Clients : CallInv(d)'
  <2>1. \A r \in Runs : r # next => kind'[r] = kind[r] /\ run'[r] = CollectAll(Reapable)[r]
    BY <1>0, <1>2
  <2>2. QED  BY <1>0, <2>1, ReapKeepsCalls, OtherCalls
<1>14. QED  BY <1>11, <1>12, <1>13 DEF IInv

LEMMA RunSubmitInv == ASSUME IInv, NEW c \in Clients, RunSubmit(c) PROVE IInv'
<1>1. PICK k \in Kinds : CanStart(c, k) /\ (Admit(c, k, "idle") \/ Reject(c) \/ SubmitFails(c, k))
  BY DEF RunSubmit
<1>2. k \in AllKinds /\ mode = "up" /\ next \in Runs
  BY <1>1, RunSupervisorAssumption DEF CanStart
<1>3. QED  BY <1>1, <1>2, AdmitInv, RejectInv, SubmitFailsInv

LEMMA ExecuteManagedInv == ASSUME IInv, NEW c \in Clients, ExecuteManaged(c) PROVE IInv'
<1>1. mode = "up" /\ next \in Runs /\ "managed" \in AllKinds
  BY DEF ExecuteManaged, CanStart, AllKinds
<1>2. QED  BY <1>1, AdmitInv, RejectInv, SubmitFailsInv DEF ExecuteManaged

\* Every step keeps the invariant.
LEMMA NextInv == IInv /\ [Next]_vars => IInv'
<1> SUFFICES ASSUME IInv, [Next]_vars PROVE IInv'
  OBVIOUS
<1>1. ASSUME NEW c \in Clients, NewCall(c) PROVE IInv'
  BY <1>1, RunSubmitInv, ExecuteManagedInv, RunInspectInv, CancelBeginsInv DEF NewCall
<1>2. ASSUME NEW c \in Clients, ClientStep(c) PROVE IInv'
  BY <1>2, ReplyInv, WaitCollectsInv, WaitTimesOutInv, ExecuteReturnsInv, InspectCollectsInv,
     InspectReturnsInv, CancelAcceptedInv, CancelFailsInv DEF ClientStep
<1>3. ASSUME NEW r \in Runs, Dispatch(r) \/ Settle(r) PROVE IInv'
  BY <1>3, DispatchInv, SettleInv
<1>4. CASE Recovery
  BY <1>4, BootInv, RecoverEntryInv, RecoverAbortsInv, RecoverDoneInv DEF Recovery
<1>5. CASE Failure
  BY <1>5, CrashInv, CrashInCollectInv, CrashInRecoverWriteInv DEF Failure
<1>6. CASE UNCHANGED vars
  BY <1>6, QuietStep DEF vars, memory, IInv, TypeOK, Done
<1>7. QED  BY <1>1, <1>2, <1>3, <1>4, <1>5, <1>6 DEF Next

\* The inductive invariant holds throughout.
THEOREM Invariance == Spec => []IInv
<1>1. QED  BY InitInv, NextInv, PTL DEF Spec

\* Type correctness of the supervisor's state.
THEOREM TypeCorrect == Spec => []TypeOK
<1>1. IInv => TypeOK
  BY DEF IInv
<1>2. QED  BY <1>1, Invariance, PTL

\* The journal holds what a restart needs, at every instant: the file of every
\* active run, and the name of every dependency directory not yet removed.
THEOREM CrashSafety == Spec => []CrashRecoverable
<1>1. IInv => CrashRecoverable
  <2>1. ASSUME IInv, NEW r \in Runs, run[r].state \in Active PROVE journal[r].state \in Active
    <3>1. RunInv(r) /\ InMemory(r)
      BY <2>1 DEF IInv, InMemory, Active
    <3>2. journal[r] = Entry(run[r], kind[r])
      BY <2>1, <3>1 DEF RunInv
    <3>3. QED  BY <2>1, <3>2 DEF Entry
  <2>2. QED  BY <2>1 DEF IInv, RunInv, CrashRecoverable
<1>2. QED  BY <1>1, Invariance, PTL

\* A journal file of a run in memory says what the record says.
THEOREM JournalAgreement == Spec => []JournalAgrees
<1>1. IInv => JournalAgrees
  BY DEF IInv, RunInv, JournalAgrees
<1>2. QED  BY <1>1, Invariance, PTL

\* Dependency directories are there while they are needed, and none is left
\* without an owner once the server is up.
THEOREM WorkdirOwnership == Spec => []WorkdirOwned
<1>1. IInv => WorkdirOwned
  <2>1. ASSUME IInv, NEW r \in Runs, Unfinished(r), kind[r] = "dependencies"
        PROVE  workdir[r] = "present"
    <3>1. RunInv(r) /\ ~Done(r) /\ future[r] # "none"
      BY <2>1 DEF IInv, Unfinished, Done
    <3>2. InMemory(r) /\ run[r].result = "none"
      BY <3>1 DEF RunInv
    <3>3. QED  BY <2>1, <3>1, <3>2 DEF RunInv
  <2>2. QED  BY <2>1 DEF IInv, RunInv, WorkdirOwned
<1>2. QED  BY <1>1, Invariance, PTL

----------------------------------------------------------------------------
(* What a step may do to the table.                                        *)

\* The outcome of run r is kept, and r does not become active.
Kept(r) ==
    /\ run[r].result # "none" => run'[r].result = run[r].result
    /\ run[r].state \in Terminal => run'[r].state \in Terminal
    /\ run'[r].state \in Active => run[r].state \in Active

\* A start() that admits a run, seen on the table alone.
Admitted ==
    /\ next \in Runs
    /\ HasSlot(CollectAll(Reapable))
    /\ run' = [CollectAll(Reapable) EXCEPT ![next] = NewRun]

LEMMA ReapKeeps ==
    ASSUME IInv, NEW r \in Runs, run'[r] = CollectAll(Reapable)[r]
    PROVE  Kept(r)
<1>1. CASE r \in Reapable
  <2>1. /\ CollectAll(Reapable)[r].state = "finished"
        /\ run[r].result = "none"
    BY <1>1, ReapedTable DEF IInv, RunInv, Reapable
  <2>2. QED  BY <2>1 DEF Kept, Active, Terminal
<1>2. CASE r \notin Reapable
  BY <1>2, ReapedTable DEF Kept
<1>3. QED  BY <1>1, <1>2

LEMMA CollectKeeps ==
    ASSUME IInv, NEW r \in Runs, InMemory(r), Done(r), Collect(r),
           UNCHANGED <<future, boot, ids>>
    PROVE  \A q \in Runs : Kept(q)
<1>1. /\ \A q \in Runs \ {r} : run'[q] = run[q]
      /\ run'[r].state \in Terminal
      /\ run[r].result # "none" => run'[r] = run[r]
  BY CollectOne
<1>2. run'[r].state \notin Active
  BY <1>1 DEF Active, Terminal
<1>3. QED  BY <1>1, <1>2 DEF Kept

LEMMA CleanupKeeps ==
    ASSUME IInv, NEW r \in Runs, Cleanup(r) \/ UNCHANGED <<run, journal, newer>>
    PROVE  \A q \in Runs : Kept(q)
<1>1. CASE run' = run
  BY <1>1 DEF Kept
<1>2. CASE run' = [run EXCEPT ![r] = [@ EXCEPT !.cleaned = TRUE, !.state = "cleaned"]]
  <2>1. /\ run'[r].state = "cleaned" /\ run'[r].result = run[r].result
        /\ \A q \in Runs \ {r} : run'[q] = run[q]
    BY <1>2 DEF IInv, TypeOK, RunRecord
  <2>2. QED  BY <2>1 DEF Kept, Terminal, Active
<1>3. QED  BY <1>1, <1>2 DEF Cleanup

LEMMA RelabelKeeps ==
    ASSUME IInv, NEW r \in Runs, NEW label \in Active, run[r].state \in Active,
           run' = [run EXCEPT ![r].state = label]
    PROVE  \A q \in Runs : Kept(q)
<1>1. /\ run'[r].state = label /\ run'[r].result = run[r].result
      /\ \A q \in Runs \ {r} : run'[q] = run[q]
  BY DEF IInv, TypeOK, RunRecord
<1>2. QED  BY <1>1 DEF Kept, Active, Terminal

LEMMA SameKeeps == ASSUME run' = run PROVE \A r \in Runs : Kept(r)
BY DEF Kept

\* A step ends the process, keeps every outcome, or admits one run.
LEMMA TableStep ==
    ASSUME IInv, [Next]_vars
    PROVE  mode' # "up" \/ (\A r \in Runs : Kept(r)) \/ Admitted
<1>1. ASSUME NEW c \in Clients, NEW k \in Kinds, NEW op, CanStart(c, k),
             Admit(c, k, op) \/ Reject(c) \/ SubmitFails(c, k)
      PROVE  (\A r \in Runs : Kept(r)) \/ Admitted
  <2>1. CASE Admit(c, k, op)
    BY <1>1, <2>1 DEF Admit, Admitted, CanStart
  <2>2. CASE Reject(c)
    BY <2>2, ReapKeeps DEF Reject
  <2>3. CASE SubmitFails(c, k)
    BY <2>3, ReapKeeps DEF SubmitFails
  <2>4. QED  BY <1>1, <2>1, <2>2, <2>3
<1>2. ASSUME NEW c \in Clients, NewCall(c) PROVE (\A r \in Runs : Kept(r)) \/ Admitted
  <2>1. CASE RunSubmit(c)
    BY <1>1, <2>1 DEF RunSubmit
  <2>2. CASE ExecuteManaged(c)
    BY <1>1, <2>2 DEF ExecuteManaged, CanStart
  <2>3. ASSUME NEW r \in Runs, RunInspect(c, r) PROVE \A q \in Runs : Kept(q)
    <3>1. CASE r \in Reapable
      BY <2>3, <3>1, CollectKeeps DEF RunInspect, Reapable, InMemory
    <3>2. CASE r \notin Reapable
      BY <2>3, <3>2, SameKeeps DEF RunInspect
    <3>3. QED  BY <3>1, <3>2
  <2>4. ASSUME NEW r \in Runs, CancelBegins(c, r) PROVE \A q \in Runs : Kept(q)
    <3>1. "cancelling" \in Active
      BY DEF Active
    <3>2. QED  BY <2>4, <3>1, RelabelKeeps DEF CancelBegins
  <2>5. QED  BY <1>2, <2>1, <2>2, <2>3, <2>4 DEF NewCall
<1>3. ASSUME NEW c \in Clients, ClientStep(c) PROVE \A r \in Runs : Kept(r)
  <2>1. CASE Reply(c) \/ WaitTimesOut(c) \/ CancelAccepted(c)
    BY <2>1, SameKeeps DEF Reply, WaitTimesOut, CancelAccepted
  <2>2. CASE WaitCollects(c)
    BY <2>2, CollectKeeps DEF WaitCollects, IInv, CallInv
  <2>3. CASE InspectCollects(c)
    <3>1. /\ client[c].run \in Runs /\ InMemory(client[c].run)
          /\ UNCHANGED <<future, boot, ids>>
          /\ run' = run \/ (Done(client[c].run) /\ Collect(client[c].run))
      BY <2>3 DEF InspectCollects, IInv, CallInv
    <3>2. QED  BY <3>1, SameKeeps, CollectKeeps
  <2>4. CASE ExecuteReturns(c)
    BY <2>4, CleanupKeeps DEF ExecuteReturns, IInv, CallInv
  <2>5. CASE InspectReturns(c)
    BY <2>5, CleanupKeeps DEF InspectReturns, IInv, CallInv
  <2>6. CASE CancelFails(c)
    <3>1. client[c].run \in Runs /\ "running" \in Active /\ "cancelling" \in Active
      BY <2>6 DEF CancelFails, IInv, CallInv, Active
    <3>2. CASE run[client[c].run].state = "cancelling"
      BY <2>6, <3>1, <3>2, RelabelKeeps DEF CancelFails
    <3>3. CASE run[client[c].run].state # "cancelling"
      BY <2>6, <3>3, SameKeeps DEF CancelFails
    <3>4. QED  BY <3>2, <3>3
  <2>7. QED  BY <1>3, <2>1, <2>2, <2>3, <2>4, <2>5, <2>6 DEF ClientStep
<1>4. ASSUME NEW r \in Runs, Dispatch(r) \/ Settle(r) PROVE \A q \in Runs : Kept(q)
  BY <1>4, SameKeeps DEF Dispatch, Settle
<1>5. CASE Recovery
  BY <1>5, SameKeeps DEF Recovery, Boot, RecoverEntry, RecoverAborts, RecoverDone, memory
<1>6. CASE Failure
  BY <1>6 DEF Failure, Crash, CrashInCollect, CrashInRecoverWrite, LoseMemory
<1>7. CASE UNCHANGED vars
  BY <1>7, SameKeeps DEF vars, memory
<1>8. QED  BY <1>2, <1>3, <1>4, <1>5, <1>6, <1>7 DEF Next

\* Within one process no result changes and no terminal run is reopened.
THEOREM OutcomesFinal == Spec => OutcomeFinal
<1>1. ASSUME IInv, [Next]_vars
      PROVE  \A r \in Runs : InMemory(r) /\ mode' = "up" =>
                 /\ run[r].result # "none" => run'[r].result = run[r].result
                 /\ run[r].state \in Terminal => run'[r].state \in Terminal
  <2> SUFFICES ASSUME NEW r \in Runs, InMemory(r), mode' = "up"
               PROVE  /\ run[r].result # "none" => run'[r].result = run[r].result
                      /\ run[r].state \in Terminal => run'[r].state \in Terminal
    OBVIOUS
  <2>1. CASE \A q \in Runs : Kept(q)
    BY <2>1 DEF Kept
  <2>2. CASE Admitted
    <3>1. r # next
      BY <1>1 DEF IInv, RunInv, InMemory, NoRun, TypeOK, Runs
    <3>2. CollectAll(Reapable) \in [Runs -> RunRecord]
      BY <1>1, ReapedTable
    <3>3. run'[r] = CollectAll(Reapable)[r]
      BY <2>2, <3>1, <3>2 DEF Admitted
    <3>4. QED  BY <1>1, <3>3, ReapKeeps DEF Kept
  <2>3. QED  BY <1>1, <2>1, <2>2, TableStep
<1>2. QED  BY <1>1, Invariance, PTL DEF Spec, OutcomeFinal

\* A set of runs is finite, and a part of it is no larger.
LEMMA RunSets ==
    ASSUME NEW S \in SUBSET Runs
    PROVE  /\ IsFiniteSet(S) /\ Cardinality(S) \in Nat
           /\ \A T \in SUBSET S : Cardinality(T) <= Cardinality(S)
<1>1. IsFiniteSet(Runs)
  BY RunSupervisorAssumption, FS_Interval DEF Runs
<1>2. IsFiniteSet(S)
  BY <1>1, FS_Subset
<1>3. QED  BY <1>2, FS_Subset, FS_CardinalityType

\* start() never takes the number of active runs past the cap, and what the
\* pool still holds is active or was cleaned up early.
THEOREM Admission == Spec => []AdmissionBound
<1> DEFINE Bounded == Cardinality(ActiveIn(run)) <= MaxActive
<1>1. Init => Bounded
  <2> SUFFICES ASSUME Init PROVE Bounded
    OBVIOUS
  <2>1. ActiveIn(run) = {}
    BY DEF Init, ActiveIn, NoRun, Active
  <2>2. QED  BY <2>1, FS_EmptySet, RunSupervisorAssumption
<1>2. IInv /\ IInv' /\ Bounded /\ [Next]_vars => Bounded'
  <2> SUFFICES ASSUME IInv, IInv', Bounded, [Next]_vars PROVE Bounded'
    OBVIOUS
  <2>0. ActiveIn(run) \in SUBSET Runs /\ ActiveIn(run') \in SUBSET Runs
    BY DEF ActiveIn
  <2>1. CASE mode' # "up"
    <3>1. ActiveIn(run') = {}
      BY <2>1 DEF IInv, RunInv, InMemory, ActiveIn, Active
    <3>2. QED  BY <3>1, FS_EmptySet, RunSupervisorAssumption
  <2>2. CASE \A r \in Runs : Kept(r)
    <3>1. ActiveIn(run') \in SUBSET ActiveIn(run)
      BY <2>2 DEF Kept, ActiveIn
    <3>2. Cardinality(ActiveIn(run')) <= Cardinality(ActiveIn(run))
      BY <2>0, <3>1, RunSets
    <3>3. QED  BY <2>0, <3>2, RunSets, RunSupervisorAssumption
  <2>3. CASE Admitted
    <3> DEFINE reaped == CollectAll(Reapable)
    <3>1. ActiveIn(reaped) \in SUBSET Runs /\ Cardinality(ActiveIn(reaped)) < MaxActive
      BY <2>3 DEF ActiveIn, Admitted, HasSlot
    <3>2. reaped \in [Runs -> RunRecord]
      BY ReapedTable
    <3> HIDE DEF reaped
    <3>3. ActiveIn(run') \in SUBSET (ActiveIn(reaped) \cup {next})
      BY <2>3, <3>2 DEF ActiveIn, Admitted, reaped
    <3>4. ActiveIn(reaped) \cup {next} \in SUBSET Runs
      BY <2>3, <3>1 DEF Admitted
    <3>5. /\ Cardinality(ActiveIn(reaped)) \in Nat
          /\ Cardinality(ActiveIn(reaped) \cup {next}) <= Cardinality(ActiveIn(reaped)) + 1
      BY <3>1, RunSets, FS_AddElement
    <3>6. /\ Cardinality(ActiveIn(run')) <= Cardinality(ActiveIn(reaped) \cup {next})
          /\ Cardinality(ActiveIn(run')) \in Nat
          /\ Cardinality(ActiveIn(reaped) \cup {next}) \in Nat
      BY <2>0, <3>3, <3>4, RunSets
    <3>7. QED  BY <3>1, <3>5, <3>6, RunSupervisorAssumption
  <2>4. QED  BY <2>1, <2>2, <2>3, TableStep
<1>3. IInv /\ Bounded => AdmissionBound
  <2> SUFFICES ASSUME IInv, Bounded, NEW r \in Runs, Unfinished(r)
               PROVE  run[r].state \in Active \/ run[r].cleaned
    BY DEF AdmissionBound
  <2>1. RunInv(r) /\ ~Done(r) /\ future[r] # "none" /\ run[r] \in RunRecord
    BY DEF IInv, TypeOK, Unfinished, Done
  <2>2. InMemory(r) /\ run[r].state # "finished"
    BY <2>1 DEF RunInv
  <2>3. QED  BY <2>1, <2>2 DEF RunInv, RunRecord, Active, InMemory
<1> HIDE DEF Bounded
<1>4. QED  BY <1>1, <1>2, <1>3, Invariance, PTL DEF Spec

\* Every refusal of a submission finds the cap taken by unfinished runs.
THEOREM Rejection == Spec => RejectionIsReal
<1>1. ASSUME IInv, [Next]_vars
      PROVE  \A c \in Clients : client[c].op = "idle" /\ client'[c].op = "rejected" =>
                 Cardinality({r \in Runs : Unfinished(r) /\ run[r].state \in Active}) >= MaxActive
  <2> SUFFICES ASSUME NEW c \in Clients, client[c].op = "idle", client'[c].op = "rejected"
               PROVE  Cardinality({r \in Runs : Unfinished(r) /\ run[r].state \in Active}) >= MaxActive
    OBVIOUS
  <2>0. client \in [Clients -> [op : Ops, run : Runs \cup {0}]]
    BY <1>1 DEF IInv, TypeOK
  <2>1. ASSUME NEW d \in Clients, NEW k \in Kinds, NEW op \in {"idle", "wait"},
               Admit(d, k, op) \/ Reject(d) \/ SubmitFails(d, k)
        PROVE  ~HasSlot(CollectAll(Reapable))
    <3>1. CASE Admit(d, k, op)
      BY <1>1, <2>0, <3>1 DEF Admit
    <3>2. CASE Reject(d)
      BY <3>2 DEF Reject
    <3>3. CASE SubmitFails(d, k)
      BY <1>1, <3>3 DEF SubmitFails
    <3>4. QED  BY <2>1, <3>1, <3>2, <3>3
  <2>2. ASSUME NEW d \in Clients, NewCall(d) PROVE ~HasSlot(CollectAll(Reapable))
    <3>1. CASE RunSubmit(d)
      BY <2>1, <3>1 DEF RunSubmit
    <3>2. CASE ExecuteManaged(d)
      BY <2>1, <3>2 DEF ExecuteManaged, CanStart
    <3>3. CASE \E r \in Runs : RunInspect(d, r)
      BY <1>1, <2>0, <3>3 DEF RunInspect, Idle
    <3>4. CASE \E r \in Runs : CancelBegins(d, r)
      BY <1>1, <2>0, <3>4 DEF CancelBegins
    <3>5. QED  BY <2>2, <3>1, <3>2, <3>3, <3>4 DEF NewCall
  <2>3. ASSUME NEW d \in Clients, ClientStep(d) PROVE FALSE
    BY <1>1, <2>0, <2>3 DEF ClientStep, Reply, WaitCollects, WaitTimesOut, ToCleanup,
       ExecuteReturns, InspectCollects, InspectReturns, CancelAccepted, CancelFails, Idle
  <2>4. ASSUME NEW r \in Runs, Dispatch(r) \/ Settle(r) PROVE FALSE
    BY <1>1, <2>4 DEF Dispatch, Settle
  <2>5. ~Recovery
    BY <1>1 DEF Recovery, Boot, RecoverEntry, RecoverAborts, RecoverDone, memory
  <2>6. ~Failure
    <3>1. client' # [d \in Clients |-> Idle]
      BY <1>1 DEF Idle
    <3>2. QED  BY <3>1 DEF Failure, Crash, CrashInCollect, CrashInRecoverWrite, LoseMemory
  <2>7. ~UNCHANGED vars
    BY <1>1 DEF vars, memory
  <2>8. ~HasSlot(CollectAll(Reapable))
    BY <1>1, <2>2, <2>3, <2>4, <2>5, <2>6, <2>7 DEF Next
  <2>9. ActiveIn(CollectAll(Reapable)) = {r \in Runs : Unfinished(r) /\ run[r].state \in Active}
    <3>1. ASSUME NEW r \in Runs
          PROVE  CollectAll(Reapable)[r].state \in Active
                     <=> Unfinished(r) /\ run[r].state \in Active
      <4>1. CASE r \in Reapable
        <5>1. CollectAll(Reapable)[r].state = "finished" /\ Done(r)
          BY <1>1, <4>1, ReapedTable
        <5>2. QED  BY <5>1 DEF Active, Unfinished, Done
      <4>2. CASE r \notin Reapable
        <5>1. CollectAll(Reapable)[r] = run[r]
          BY <1>1, <4>2, ReapedTable
        <5>2. run[r].state \in Active => ~Done(r) /\ future[r] # "none" /\ future[r] \in Futures
          BY <1>1, <4>2 DEF Reapable, IInv, TypeOK, RunInv, InMemory, Active
        <5>3. QED  BY <5>1, <5>2 DEF Unfinished, Done, Futures
      <4>3. QED  BY <4>1, <4>2
    <3>2. QED  BY <3>1 DEF ActiveIn
  <2>10. ActiveIn(CollectAll(Reapable)) \in SUBSET Runs
    BY DEF ActiveIn
  <2>11. Cardinality(ActiveIn(CollectAll(Reapable))) \in Nat
    BY <2>10, RunSets
  <2>12. Cardinality(ActiveIn(CollectAll(Reapable))) >= MaxActive
    BY <2>8, <2>11, RunSupervisorAssumption DEF HasSlot
  <2>13. QED  BY <2>9, <2>12
<1>2. QED  BY <1>1, Invariance, PTL DEF Spec, RejectionIsReal

----------------------------------------------------------------------------
(* The label "cancelling".                                                 *)

\* Somebody is asking the provider of run r to cancel, or it has agreed.
Earned(r) == r \in acked \/ \E c \in Clients : client[c] = [op |-> "cancel", run |-> r]

\* The label of r is not new.
NotNew(r) == run'[r].state = "cancelling" => run[r].state = "cancelling"

\* A step that labels no run and ends no cancellation.
LEMMA EarnedStays ==
    ASSUME CancelLabelEarned, acked' = acked,
           \A r \in Runs : NotNew(r),
           \A c \in Clients : client[c].op = "cancel" => client'[c] = client[c]
    PROVE  CancelLabelEarned'
<1> SUFFICES ASSUME NEW r \in Runs, run'[r].state = "cancelling" PROVE Earned(r)'
  BY DEF CancelLabelEarned, Earned
<1>1. Earned(r)
  BY DEF CancelLabelEarned, Earned, NotNew
<1>2. QED  BY <1>1 DEF Earned

\* Collecting, cleaning and reaping label nothing.
LEMMA ReapNotNew ==
    ASSUME IInv, NEW r \in Runs, run'[r] = CollectAll(Reapable)[r]
    PROVE  NotNew(r)
BY ReapedTable DEF NotNew

LEMMA CollectNotNew ==
    ASSUME IInv, NEW r \in Runs, InMemory(r), Done(r), Collect(r),
           UNCHANGED <<future, boot, ids>>
    PROVE  \A q \in Runs : NotNew(q)
<1>1. /\ \A q \in Runs \ {r} : run'[q] = run[q]
      /\ run'[r].state \in Terminal
  BY CollectOne
<1>2. QED  BY <1>1 DEF NotNew, Terminal

LEMMA CleanupNotNew ==
    ASSUME IInv, NEW r \in Runs, Cleanup(r) \/ UNCHANGED <<run, journal, newer>>
    PROVE  \A q \in Runs : NotNew(q)
<1>1. CASE run' = run
  BY <1>1 DEF NotNew
<1>2. CASE run' = [run EXCEPT ![r] = [@ EXCEPT !.cleaned = TRUE, !.state = "cleaned"]]
  <2>1. run'[r].state = "cleaned" /\ \A q \in Runs \ {r} : run'[q] = run[q]
    BY <1>2 DEF IInv, TypeOK, RunRecord
  <2>2. QED  BY <2>1 DEF NotNew
<1>3. QED  BY <1>1, <1>2 DEF Cleanup

LEMMA EarnedStart ==
    ASSUME IInv, CancelLabelEarned, NEW c \in Clients, NEW k \in Kinds, NEW op, CanStart(c, k),
           Admit(c, k, op) \/ Reject(c) \/ SubmitFails(c, k)
    PROVE  CancelLabelEarned'
<1>1. acked' = acked
  BY DEF Admit, Reject, SubmitFails
<1>2. \A d \in Clients : client[d].op = "cancel" => client'[d] = client[d]
  <2>1. client[c] = Idle
    BY DEF CanStart
  <2>2. \A d \in Clients \ {c} : client'[d] = client[d]
    BY DEF Admit, Reject, SubmitFails, IInv, TypeOK
  <2>3. QED  BY <2>1, <2>2 DEF Idle
<1>3. ASSUME NEW r \in Runs PROVE NotNew(r)
  <2>1. CASE run'[r] = CollectAll(Reapable)[r]
    BY <2>1, ReapNotNew
  <2>2. CASE run'[r] = NewRun
    BY <2>2 DEF NotNew, NewRun, NoRun
  <2>3. CollectAll(Reapable) \in [Runs -> RunRecord]
    BY ReapedTable
  <2>4. QED  BY <2>1, <2>2, <2>3 DEF Admit, Reject, SubmitFails
<1>4. QED  BY <1>1, <1>2, <1>3, EarnedStays

LEMMA EarnedNext ==
    ASSUME IInv, CancelLabelEarned, [Next]_vars
    PROVE  CancelLabelEarned'
<1>1. ASSUME NEW c \in Clients, NewCall(c) PROVE CancelLabelEarned'
  <2>1. CASE RunSubmit(c)
    BY <2>1, EarnedStart DEF RunSubmit
  <2>2. CASE ExecuteManaged(c)
    BY <2>2, EarnedStart DEF ExecuteManaged, CanStart
  <2>3. ASSUME NEW r \in Runs, RunInspect(c, r) PROVE CancelLabelEarned'
    <3>1. \A d \in Clients : client[d].op = "cancel" => client'[d] = client[d]
      BY <2>3 DEF RunInspect, Idle, IInv, TypeOK
    <3>2. CASE r \in Reapable
      BY <2>3, <3>1, <3>2, CollectNotNew, EarnedStays DEF RunInspect, Reapable, InMemory
    <3>3. CASE r \notin Reapable
      BY <2>3, <3>1, <3>3, EarnedStays DEF RunInspect, NotNew
    <3>4. QED  BY <3>2, <3>3
  <2>4. ASSUME NEW r \in Runs, CancelBegins(c, r) PROVE CancelLabelEarned'
    <3>1. /\ \A d \in Clients \ {c} : client'[d] = client[d]
          /\ client[c] = Idle /\ client'[c] = [op |-> "cancel", run |-> r] /\ acked' = acked
          /\ \A q \in Runs \ {r} : run'[q] = run[q]
      BY <2>4 DEF CancelBegins, IInv, TypeOK
    <3>2. ASSUME NEW q \in Runs, run'[q].state = "cancelling" PROVE Earned(q)'
      <4>1. CASE q = r
        BY <3>1, <4>1 DEF Earned
      <4>2. CASE q # r
        <5>1. Earned(q)
          BY <3>1, <3>2, <4>2 DEF CancelLabelEarned, Earned
        <5>2. QED  BY <3>1, <5>1 DEF Earned, Idle
      <4>3. QED  BY <4>1, <4>2
    <3>3. QED  BY <3>2 DEF CancelLabelEarned, Earned
  <2>5. QED  BY <1>1, <2>1, <2>2, <2>3, <2>4 DEF NewCall
<1>2. ASSUME NEW c \in Clients, ClientStep(c) PROVE CancelLabelEarned'
  <2> DEFINE r == client[c].run
  <2>0. /\ \A d \in Clients \ {c} : client'[d] = client[d]
        /\ client[c].op # "cancel" => \A d \in Clients : client[d].op = "cancel" => client'[d] = client[d]
    BY <1>2 DEF ClientStep, Reply, WaitCollects, WaitTimesOut, ToCleanup, ExecuteReturns,
       InspectCollects, InspectReturns, CancelAccepted, CancelFails, IInv, TypeOK
  <2>1. CASE Reply(c) \/ WaitTimesOut(c)
    BY <2>0, <2>1, EarnedStays DEF Reply, WaitTimesOut, NotNew
  <2>2. CASE WaitCollects(c)
    BY <2>0, <2>2, CollectNotNew, EarnedStays DEF WaitCollects, IInv, CallInv
  <2>3. CASE InspectCollects(c)
    <3>1. /\ r \in Runs /\ InMemory(r) /\ client[c].op # "cancel" /\ acked' = acked
          /\ UNCHANGED <<future, boot, ids>>
          /\ run' = run \/ (Done(r) /\ Collect(r))
      BY <2>3 DEF InspectCollects, IInv, CallInv
    <3>2. \A q \in Runs : NotNew(q)
      BY <3>1, CollectNotNew DEF NotNew
    <3>3. QED  BY <2>0, <3>1, <3>2, EarnedStays
  <2>4. CASE ExecuteReturns(c) \/ InspectReturns(c)
    <3>1. r \in Runs /\ acked' = acked /\ client[c].op # "cancel"
      BY <2>4 DEF ExecuteReturns, InspectReturns, IInv, CallInv
    <3>2. \A q \in Runs : NotNew(q)
      BY <2>4, <3>1, CleanupNotNew DEF ExecuteReturns, InspectReturns
    <3>3. QED  BY <2>0, <3>1, <3>2, EarnedStays
  <2>5. CASE CancelAccepted(c)
    <3>1. run' = run /\ acked' = acked \cup {r}
      BY <2>5 DEF CancelAccepted
    <3>2. ASSUME NEW q \in Runs, run'[q].state = "cancelling" PROVE Earned(q)'
      <4>1. CASE q = r
        BY <3>1, <4>1 DEF Earned
      <4>2. CASE q # r
        <5>1. Earned(q)
          BY <3>1, <3>2 DEF CancelLabelEarned, Earned
        <5>2. QED  BY <2>0, <3>1, <4>2, <5>1 DEF Earned
      <4>3. QED  BY <4>1, <4>2
    <3>3. QED  BY <3>2 DEF CancelLabelEarned, Earned
  <2>6. CASE CancelFails(c)
    <3>1. r \in Runs /\ acked' = acked
      BY <2>6 DEF CancelFails, IInv, CallInv
    <3>2. run'[r].state # "cancelling" /\ \A q \in Runs \ {r} : run'[q] = run[q]
      <4>1. CASE run[r].state = "cancelling"
        BY <2>6, <3>1, <4>1 DEF CancelFails, IInv, TypeOK, RunRecord
      <4>2. CASE run[r].state # "cancelling"
        BY <2>6, <4>2 DEF CancelFails
      <4>3. QED  BY <4>1, <4>2
    <3>3. ASSUME NEW q \in Runs, run'[q].state = "cancelling" PROVE Earned(q)'
      <4>1. q # r
        BY <3>2, <3>3
      <4>2. Earned(q)
        BY <3>2, <3>3, <4>1 DEF CancelLabelEarned, Earned
      <4>3. QED  BY <2>0, <3>1, <4>1, <4>2 DEF Earned
    <3>4. QED  BY <3>3 DEF CancelLabelEarned, Earned
  <2>7. QED  BY <1>2, <2>1, <2>2, <2>3, <2>4, <2>5, <2>6 DEF ClientStep
<1>3. ASSUME NEW r \in Runs, Dispatch(r) \/ Settle(r) PROVE CancelLabelEarned'
  BY <1>3 DEF Dispatch, Settle, CancelLabelEarned
<1>4. CASE Recovery
  BY <1>4 DEF Recovery, Boot, RecoverEntry, RecoverAborts, RecoverDone, memory, CancelLabelEarned
<1>5. CASE Failure
  <2>1. run' = [r \in Runs |-> NoRun]
    BY <1>5 DEF Failure, Crash, CrashInCollect, CrashInRecoverWrite, LoseMemory
  <2>2. QED  BY <2>1 DEF NoRun, CancelLabelEarned
<1>6. CASE UNCHANGED vars
  BY <1>6 DEF vars, memory, CancelLabelEarned
<1>7. QED  BY <1>1, <1>2, <1>3, <1>4, <1>5, <1>6 DEF Next

\* A run is labelled "cancelling" only while a cancellation of it is in
\* progress or after one was accepted.
THEOREM CancelLabels == Spec => []CancelLabelEarned
<1>1. Init => CancelLabelEarned
  BY DEF Init, CancelLabelEarned, NoRun
<1>2. IInv /\ CancelLabelEarned /\ [Next]_vars => CancelLabelEarned'
  BY EarnedNext
<1>3. QED  BY <1>1, <1>2, Invariance, PTL DEF Spec

----------------------------------------------------------------------------
(* RunSupervisor implements BackgroundRuns.                                *)

\* The callers' view of a run, read off its record and its future.
LEMMA View ==
    ASSUME IInv, NEW r \in Runs
    PROVE  /\ StatusOf(r) = "unused" <=> r >= next
           /\ StatusOf(r) = "gone" <=> r < next /\ run[r].state = "none"
           /\ StatusOf(r) = "active" <=> run[r].state \in Active
           /\ StatusOf(r) = "ended" <=> run[r].state \in Terminal
           /\ TaskOf(r) \in {"returned", "raised"} <=> Done(r)
           /\ TaskOf(r) = "returned" <=> future[r] = "returned"
           /\ TaskOf(r) = "pending" <=> Unfinished(r)
<1>1. RunInv(r) /\ r \in Int /\ next \in Int /\ run[r].state \in {"none", "running", "cancelling", "finished", "cleaned"}
  BY DEF IInv, TypeOK, RunRecord, Runs
<1>2. r >= next => run[r].state = "none"
  BY <1>1 DEF RunInv, NoRun
<1>3. /\ TaskOf(r) \in {"returned", "raised"} <=> Done(r)
      /\ TaskOf(r) = "returned" <=> future[r] = "returned"
      /\ TaskOf(r) = "pending" <=> Unfinished(r)
  <2>1. future[r] \in Futures
    BY DEF IInv, TypeOK
  <2>2. QED  BY <2>1 DEF TaskOf, Unfinished, Done, Futures
<1>4. CASE r >= next
  <2>1. StatusOf(r) = "unused"
    BY <1>1, <1>4 DEF StatusOf
  <2>2. QED  BY <1>1, <1>2, <1>3, <1>4, <2>1 DEF Active, Terminal
<1>5. CASE r < next /\ run[r].state = "none"
  <2>1. StatusOf(r) = "gone"
    BY <1>1, <1>5 DEF StatusOf, Active
  <2>2. QED  BY <1>1, <1>3, <1>5, <2>1 DEF Active, Terminal
<1>6. CASE r < next /\ run[r].state \in Active
  <2>1. StatusOf(r) = "active"
    BY <1>1, <1>6 DEF StatusOf, Active
  <2>2. QED  BY <1>1, <1>3, <1>6, <2>1 DEF Active, Terminal
<1>7. CASE r < next /\ run[r].state \in Terminal
  <2>1. StatusOf(r) = "ended"
    BY <1>1, <1>7 DEF StatusOf, Active, Terminal
  <2>2. QED  BY <1>1, <1>3, <1>7, <2>1 DEF Active, Terminal
<1>8. QED  BY <1>1, <1>4, <1>5, <1>6, <1>7 DEF Active, Terminal

\* A step the callers do not see.
LEMMA Unseen ==
    ASSUME \A r \in Runs : /\ StatusOf(r)' = StatusOf(r)
                           /\ TaskOf(r)' = TaskOf(r)
                           /\ run'[r].result = run[r].result,
           \A c \in Clients : client'[c].op = "rejected" <=> client[c].op = "rejected"
    PROVE  UNCHANGED Promise!vars
BY DEF Promise!vars

\* The instance counts as FiniteSets does.
LEMMA SameCardinality == \A S : Promise!Cardinality(S) = Cardinality(S)
BY Zenon DEF Promise!Cardinality, Cardinality

\* What the callers see of the table when start() counts it.
LEMMA ViewOfReaping ==
    ASSUME IInv
    PROVE  Promise!Unnoticed = Reapable /\ (Promise!HasRoom <=> HasSlot(CollectAll(Reapable)))
<1>1. Promise!Unnoticed = Reapable
  BY View DEF Promise!Unnoticed, Promise!Over, Reapable
<1>2. {r \in Runs : StatusOf(r) = "active"} \ Reapable = ActiveIn(CollectAll(Reapable))
  BY View, ReapedTable DEF ActiveIn, Active
<1>3. ({r \in Runs : [q \in Runs |-> StatusOf(q)][r] = "active"} \ Promise!Unnoticed)
          = ActiveIn(CollectAll(Reapable))
  BY <1>1, <1>2
<1>4. Promise!HasRoom <=> Cardinality(ActiveIn(CollectAll(Reapable))) < MaxActive
  BY <1>3, SameCardinality, Zenon DEF Promise!HasRoom
<1>5. QED  BY <1>1, <1>4 DEF HasSlot

\* A run that the step leaves alone looks the same.
LEMMA SameView ==
    ASSUME IInv, NEW r \in Runs, run'[r].state = run[r].state,
           \/ next' = next
           \/ next' = next + 1 /\ r # next
    PROVE  StatusOf(r)' = StatusOf(r)
<1>1. r \in Int /\ next \in Int /\ (r >= next' <=> r >= next) /\ (r < next' <=> r < next)
  BY DEF IInv, TypeOK, Runs
<1>2. QED  BY <1>1 DEF StatusOf

\* What _collect does to one run, as the callers see it.
LEMMA CollectedView ==
    ASSUME IInv, NEW r \in Runs, InMemory(r), Done(r), run'[r] = Collected(r),
           next' \in {next, next + 1}
    PROVE  /\ StatusOf(r)' = "ended"
           /\ run'[r].result = IF TaskOf(r) = "returned" THEN "value" ELSE "failed"
<1>1. r \in Int /\ next \in Int /\ r < next
  BY DEF IInv, TypeOK, Runs, RunInv, InMemory, NoRun
<1>2. run'[r].state = "finished"
  BY DEF Collected
<1>3. StatusOf(r)' = "ended"
  BY <1>1, <1>2 DEF StatusOf, Active
<1>4. QED  BY <1>3, View DEF Collected

\* What start() does to the runs it finds in the table.
LEMMA ReapedView ==
    ASSUME IInv, NEW r \in Runs, run'[r] = CollectAll(Reapable)[r],
           \/ next' = next
           \/ next' = next + 1 /\ r # next
    PROVE  /\ StatusOf(r)' = Promise!StatusAfter(Promise!Unnoticed)[r]
           /\ run'[r].result = Promise!ResultAfter(Promise!Unnoticed)[r]
<1>1. Promise!Unnoticed = Reapable
  BY ViewOfReaping
<1>2. CASE r \in Reapable
  <2>1. InMemory(r) /\ Done(r) /\ run'[r] = Collected(r)
    BY <1>2, ReapedTable DEF CollectAll
  <2>2. /\ StatusOf(r)' = "ended"
        /\ run'[r].result = IF TaskOf(r) = "returned" THEN "value" ELSE "failed"
    BY <2>1, CollectedView
  <2>3. QED
    BY <1>1, <1>2, <2>2 DEF Promise!StatusAfter, Promise!ResultAfter, Promise!OutcomeOf
<1>3. CASE r \notin Reapable
  <2>1. run'[r] = run[r]
    BY <1>3, ReapedTable
  <2>2. StatusOf(r)' = StatusOf(r)
    BY <2>1, SameView
  <2>3. QED
    BY <1>1, <1>3, <2>1, <2>2 DEF Promise!StatusAfter, Promise!ResultAfter
<1>4. QED  BY <1>2, <1>3

LEMMA RejectRefines ==
    ASSUME IInv, NEW c \in Clients, Reject(c)
    PROVE  Promise!Refuse(c)
<1>1. /\ run' = CollectAll(Reapable) /\ future' = future /\ next' = next
      /\ ~HasSlot(CollectAll(Reapable))
  BY DEF Reject, ids
<1>2. {d \in Clients : client'[d].op = "rejected"} = {d \in Clients : client[d].op = "rejected"} \cup {c}
  BY DEF Reject, IInv, TypeOK
<1>3. \A r \in Runs : /\ StatusOf(r)' = Promise!StatusAfter(Promise!Unnoticed)[r]
                      /\ run'[r].result = Promise!ResultAfter(Promise!Unnoticed)[r]
                      /\ TaskOf(r)' = TaskOf(r)
  BY <1>1, ReapedView DEF TaskOf, Unfinished
<1>4. /\ [r \in Runs |-> StatusOf(r)'] = Promise!StatusAfter(Promise!Unnoticed)
      /\ [r \in Runs |-> run'[r].result] = Promise!ResultAfter(Promise!Unnoticed)
  BY <1>3 DEF Promise!StatusAfter, Promise!ResultAfter
<1>5. ~Promise!HasRoom
  BY <1>1, ViewOfReaping
<1>6. [r \in Runs |-> TaskOf(r)'] = [r \in Runs |-> TaskOf(r)]
  BY <1>3
<1>7. QED  BY <1>2, <1>4, <1>5, <1>6 DEF Promise!Refuse

LEMMA AdmitRefines ==
    ASSUME IInv, NEW c \in Clients, NEW k, NEW op \in {"idle", "wait"}, client[c] = Idle,
           NEW n \in Runs, n = next, Admit(c, k, op)
    PROVE  Promise!Accept(n)
<1>1. /\ run' = [CollectAll(Reapable) EXCEPT ![n] = NewRun] /\ next' = n + 1
      /\ future' = [future EXCEPT ![n] = "queued"]
      /\ HasSlot(CollectAll(Reapable)) /\ CollectAll(Reapable) \in [Runs -> RunRecord]
      /\ n \in Int
  BY ReapedTable DEF Admit, IInv, TypeOK
<1>2. {d \in Clients : client'[d].op = "rejected"} = {d \in Clients : client[d].op = "rejected"}
  BY DEF Admit, IInv, TypeOK, Idle
<1>3. ASSUME NEW r \in Runs, r # n
      PROVE  /\ StatusOf(r)' = Promise!StatusAfter(Promise!Unnoticed)[r]
             /\ run'[r].result = Promise!ResultAfter(Promise!Unnoticed)[r]
             /\ TaskOf(r)' = TaskOf(r)
  <2>1. run'[r] = CollectAll(Reapable)[r]
    BY <1>1, <1>3
  <2>2. future'[r] = future[r]
    BY <1>1, <1>3 DEF IInv, TypeOK
  <2>3. TaskOf(r)' = TaskOf(r)
    BY <2>2 DEF TaskOf, Unfinished
  <2>4. QED  BY <1>1, <1>3, <2>1, <2>3, ReapedView
<1>4. run'[n] = NewRun /\ NewRun.state = "running" /\ NewRun.result = "none"
  BY <1>1 DEF NewRun, NoRun
<1>5. StatusOf(n)' = "active" /\ TaskOf(n)' = "pending"
  <2>1. future'[n] = "queued"
    BY <1>1 DEF IInv, TypeOK
  <2>2. QED  BY <1>1, <1>4, <2>1 DEF StatusOf, TaskOf, Unfinished, Active
<1>6. n \notin Reapable /\ run[n].result = "none" /\ StatusOf(n) = "unused"
  <2>1. RunInv(n)
    BY DEF IInv
  <2>2. run[n].result = "none" /\ run[n].state = "none"
    BY <1>1, <2>1 DEF RunInv, NoRun
  <2>3. QED  BY <1>1, <2>2, View DEF Reapable, Active
<1>7. run'[n].result = Promise!ResultAfter(Promise!Unnoticed)[n]
  BY <1>4, <1>6, ViewOfReaping DEF Promise!ResultAfter
<1>8. /\ [r \in Runs |-> StatusOf(r)'] = [Promise!StatusAfter(Promise!Unnoticed) EXCEPT ![n] = "active"]
      /\ [r \in Runs |-> run'[r].result] = Promise!ResultAfter(Promise!Unnoticed)
      /\ [r \in Runs |-> TaskOf(r)'] = [[r \in Runs |-> TaskOf(r)] EXCEPT ![n] = "pending"]
  <2>1. \A r \in Runs : r = n \/ StatusOf(r)' = Promise!StatusAfter(Promise!Unnoticed)[r]
    BY <1>3
  <2>2. \A r \in Runs : run'[r].result = Promise!ResultAfter(Promise!Unnoticed)[r]
    BY <1>3, <1>7
  <2>3. \A r \in Runs : r = n \/ TaskOf(r)' = TaskOf(r)
    BY <1>3
  <2>4. [r \in Runs |-> StatusOf(r)'] = [Promise!StatusAfter(Promise!Unnoticed) EXCEPT ![n] = "active"]
    BY <1>5, <2>1 DEF Promise!StatusAfter
  <2>5. [r \in Runs |-> run'[r].result] = Promise!ResultAfter(Promise!Unnoticed)
    BY <2>2 DEF Promise!ResultAfter
  <2>6. [r \in Runs |-> TaskOf(r)'] = [[r \in Runs |-> TaskOf(r)] EXCEPT ![n] = "pending"]
    BY <1>5, <2>3
  <2>7. QED  BY <2>4, <2>5, <2>6
<1>9. Promise!HasRoom
  BY <1>1, ViewOfReaping
<1>10. QED  BY <1>2, <1>6, <1>8, <1>9 DEF Promise!Accept

LEMMA SubmitFailsRefines ==
    ASSUME IInv, NEW c \in Clients, NEW k, NEW n \in Runs, n = next, SubmitFails(c, k)
    PROVE  Promise!Fail(n)
<1>1. /\ run' = CollectAll(Reapable) /\ next' = n + 1 /\ UNCHANGED <<future, client>>
      /\ HasSlot(CollectAll(Reapable)) /\ n \in Int
  BY DEF SubmitFails, IInv, TypeOK
<1>2. n \notin Reapable /\ run[n] = NoRun /\ StatusOf(n) = "unused"
  <2>1. RunInv(n)
    BY DEF IInv
  <2>2. run[n] = NoRun
    BY <1>1, <2>1 DEF RunInv
  <2>3. QED  BY <1>1, <2>2, View DEF Reapable, Active, NoRun
<1>3. run'[n] = NoRun
  BY <1>1, <1>2, ReapedTable
<1>4. StatusOf(n)' = "gone"
  BY <1>1, <1>3 DEF StatusOf, NoRun, Active
<1>5. \A r \in Runs : r = n \/ StatusOf(r)' = Promise!StatusAfter(Promise!Unnoticed)[r]
  BY <1>1, ReapedView
<1>6. \A r \in Runs : run'[r].result = Promise!ResultAfter(Promise!Unnoticed)[r]
  <2>1. run'[n].result = Promise!ResultAfter(Promise!Unnoticed)[n]
    BY <1>2, <1>3, ViewOfReaping DEF Promise!ResultAfter
  <2>2. QED  BY <1>1, <2>1, ReapedView
<1>7. [r \in Runs |-> StatusOf(r)'] = [Promise!StatusAfter(Promise!Unnoticed) EXCEPT ![n] = "gone"]
  BY <1>4, <1>5 DEF Promise!StatusAfter
<1>8. [r \in Runs |-> run'[r].result] = Promise!ResultAfter(Promise!Unnoticed)
  BY <1>6 DEF Promise!ResultAfter
<1>9. [r \in Runs |-> TaskOf(r)'] = [r \in Runs |-> TaskOf(r)]
  BY <1>1 DEF TaskOf, Unfinished
<1>10. Promise!HasRoom
  BY <1>1, ViewOfReaping
<1>11. QED  BY <1>1, <1>2, <1>7, <1>8, <1>9, <1>10 DEF Promise!Fail

\* _collect: fetched for the first time, or nothing new.
LEMMA CollectRefines ==
    ASSUME IInv, NEW r \in Runs, InMemory(r), Done(r), Collect(r),
           UNCHANGED <<future, ids>>,
           \A c \in Clients : client'[c].op = "rejected" <=> client[c].op = "rejected"
    PROVE  Promise!Collect(r) \/ UNCHANGED Promise!vars
<1>0. /\ future' = future /\ next' = next /\ \A q \in Runs : TaskOf(q)' = TaskOf(q)
      /\ {c \in Clients : client'[c].op = "rejected"} = {c \in Clients : client[c].op = "rejected"}
  BY DEF ids, TaskOf, Unfinished
<1>1. CASE run[r].result # "none"
  <2>1. run' = run
    BY <1>1 DEF Collect
  <2>2. \A q \in Runs : StatusOf(q)' = StatusOf(q)
    BY <1>0, <2>1, SameView
  <2>3. QED  BY <1>0, <2>1, <2>2, Unseen
<1>2. CASE run[r].result = "none"
  <2>1. {r} \cap {q \in Runs : run[q].result = "none"} = {r}
    BY <1>2
  <2>2. run' = CollectAll({r})
    BY <2>1 DEF Collect
  <2>3. run'[r] = Collected(r) /\ \A q \in Runs \ {r} : run'[q] = run[q]
    BY <2>2 DEF CollectAll
  <2>4. /\ StatusOf(r)' = "ended"
        /\ run'[r].result = IF TaskOf(r) = "returned" THEN "value" ELSE "failed"
    BY <1>0, <2>3, CollectedView
  <2>5. \A q \in Runs \ {r} : StatusOf(q)' = StatusOf(q) /\ run'[q].result = run[q].result
    BY <1>0, <2>3, SameView
  <2>6. [q \in Runs |-> StatusOf(q)'] = Promise!StatusAfter({r})
    BY <2>4, <2>5 DEF Promise!StatusAfter
  <2>7. [q \in Runs |-> run'[q].result] = Promise!ResultAfter({r})
    BY <2>4, <2>5 DEF Promise!ResultAfter, Promise!OutcomeOf
  <2>8. StatusOf(r) \in {"active", "ended"} /\ TaskOf(r) \in {"returned", "raised"}
    <3>1. run[r].state \in Active \cup Terminal
      BY DEF IInv, TypeOK, RunRecord, InMemory, Active, Terminal
    <3>2. QED  BY <3>1, View
  <2>9. [q \in Runs |-> TaskOf(q)'] = [q \in Runs |-> TaskOf(q)]
    BY <1>0
  <2>10. QED  BY <1>0, <1>2, <2>6, <2>7, <2>8, <2>9 DEF Promise!Collect, Promise!Over
<1>3. QED  BY <1>1, <1>2

\* cleanup of a run that is still active abandons it.
LEMMA CleanupRefines ==
    ASSUME IInv, NEW r \in Runs, InMemory(r), Cleanup(r) \/ UNCHANGED <<run, journal, newer>>,
           UNCHANGED <<future, ids>>,
           \A c \in Clients : client'[c].op = "rejected" <=> client[c].op = "rejected"
    PROVE  Promise!Abandon(r) \/ UNCHANGED Promise!vars
<1>0. /\ future' = future /\ next' = next /\ \A q \in Runs : TaskOf(q)' = TaskOf(q)
      /\ {c \in Clients : client'[c].op = "rejected"} = {c \in Clients : client[c].op = "rejected"}
  BY DEF ids, TaskOf, Unfinished
<1>1. CASE run' = run
  <2>1. \A q \in Runs : StatusOf(q)' = StatusOf(q)
    BY <1>0, <1>1, SameView
  <2>2. QED  BY <1>0, <1>1, <2>1, Unseen
<1>2. CASE run' = [run EXCEPT ![r] = [@ EXCEPT !.cleaned = TRUE, !.state = "cleaned"]]
  <2>1. /\ run'[r].state = "cleaned" /\ run'[r].result = run[r].result
        /\ \A q \in Runs \ {r} : run'[q] = run[q]
    BY <1>2 DEF IInv, TypeOK, RunRecord
  <2>2. r \in Int /\ next \in Int /\ r < next
    BY DEF IInv, TypeOK, Runs, RunInv, InMemory, NoRun
  <2>3. StatusOf(r)' = "ended"
    BY <1>0, <2>1, <2>2 DEF StatusOf, Active
  <2>4. \A q \in Runs \ {r} : StatusOf(q)' = StatusOf(q)
    BY <1>0, <2>1, SameView
  <2>5. \A q \in Runs : run'[q].result = run[q].result
    BY <2>1
  <2>6. CASE run[r].state \in Active
    <3>1. StatusOf(r) = "active"
      BY <2>6, View
    <3>2. [q \in Runs |-> StatusOf(q)'] = [[q \in Runs |-> StatusOf(q)] EXCEPT ![r] = "ended"]
      BY <2>3, <2>4
    <3>3. /\ [q \in Runs |-> TaskOf(q)'] = [q \in Runs |-> TaskOf(q)]
          /\ [q \in Runs |-> run'[q].result] = [q \in Runs |-> run[q].result]
      BY <1>0, <2>5
    <3>4. QED  BY <1>0, <3>1, <3>2, <3>3 DEF Promise!Abandon
  <2>7. CASE run[r].state \notin Active
    <3>1. run[r].state \in Terminal
      BY <2>7 DEF IInv, TypeOK, RunRecord, InMemory, Active, Terminal
    <3>2. StatusOf(r) = "ended"
      BY <3>1, View
    <3>3. QED  BY <1>0, <2>3, <2>4, <2>5, <3>2, Unseen
  <2>8. QED  BY <2>6, <2>7
<1>3. QED  BY <1>1, <1>2 DEF Cleanup

\* The callers do not see labels.
LEMMA RelabelRefines ==
    ASSUME IInv, NEW r \in Runs, NEW label \in Active, run[r].state \in Active,
           run' = [run EXCEPT ![r].state = label], UNCHANGED <<future, ids>>,
           \A c \in Clients : client'[c].op = "rejected" <=> client[c].op = "rejected"
    PROVE  UNCHANGED Promise!vars
<1>0. /\ future' = future /\ next' = next /\ \A q \in Runs : TaskOf(q)' = TaskOf(q)
  BY DEF ids, TaskOf, Unfinished
<1>1. /\ run'[r].state = label /\ run'[r].result = run[r].result
      /\ \A q \in Runs \ {r} : run'[q] = run[q]
  BY DEF IInv, TypeOK, RunRecord
<1>2. r \in Int /\ next \in Int /\ r < next /\ StatusOf(r) = "active"
  BY View DEF IInv, TypeOK, Runs, RunInv, NoRun, Active
<1>3. StatusOf(r)' = "active"
  BY <1>0, <1>1, <1>2 DEF StatusOf, Active
<1>4. \A q \in Runs : StatusOf(q)' = StatusOf(q)
  BY <1>0, <1>1, <1>2, <1>3, SameView
<1>5. QED  BY <1>0, <1>1, <1>4, Unseen

\* A death of the process.
LEMMA LoseMemoryRefines ==
    ASSUME IInv, LoseMemory
    PROVE  Promise!ServerDies
<1>1. /\ run' = [r \in Runs |-> NoRun] /\ future' = [r \in Runs |-> "none"]
      /\ next' = next /\ client' = [c \in Clients |-> Idle]
  BY DEF LoseMemory, ids
<1>2. ASSUME NEW r \in Runs
      PROVE  /\ StatusOf(r)' = IF StatusOf(r) = "unused" THEN "unused" ELSE "gone"
             /\ TaskOf(r)' = "none" /\ run'[r].result = "none"
  <2>1. r \in Int /\ next \in Int /\ run'[r].state = "none" /\ run'[r].result = "none"
    BY <1>1 DEF IInv, TypeOK, Runs, NoRun
  <2>2. StatusOf(r) = "unused" <=> r >= next
    BY View
  <2>3. StatusOf(r)' = IF r >= next THEN "unused" ELSE "gone"
    BY <1>1, <2>1 DEF StatusOf, Active
  <2>4. TaskOf(r)' = "none"
    BY <1>1 DEF TaskOf, Unfinished
  <2>5. QED  BY <2>1, <2>2, <2>3, <2>4
<1>3. {c \in Clients : client'[c].op = "rejected"} = {}
  BY <1>1 DEF Idle
<1>4. /\ [r \in Runs |-> StatusOf(r)'] =
             [r \in Runs |-> IF [q \in Runs |-> StatusOf(q)][r] = "unused" THEN "unused" ELSE "gone"]
      /\ [r \in Runs |-> TaskOf(r)'] = [r \in Runs |-> "none"]
      /\ [r \in Runs |-> run'[r].result] = [r \in Runs |-> "none"]
  BY <1>2
<1>5. QED  BY <1>3, <1>4 DEF Promise!ServerDies

\* Every step of the supervisor is a step the callers may see, or none.
LEMMA NextRefines ==
    ASSUME IInv, [Next]_vars
    PROVE  [Promise!Next]_(Promise!vars)
<1>0. ASSUME run' = run, future' = future, next' = next,
             \A c \in Clients : client'[c].op = "rejected" <=> client[c].op = "rejected"
      PROVE  UNCHANGED Promise!vars
  BY <1>0, SameView, Unseen DEF TaskOf, Unfinished
<1>1. ASSUME NEW c \in Clients, NEW k \in Kinds, NEW op \in {"idle", "wait"}, CanStart(c, k),
             Admit(c, k, op) \/ Reject(c) \/ SubmitFails(c, k)
      PROVE  Promise!Next
  <2>1. PICK n \in Runs : n = next
    BY <1>1 DEF CanStart
  <2>2. CASE Admit(c, k, op)
    BY <1>1, <2>1, <2>2, AdmitRefines DEF Promise!Next, CanStart
  <2>3. CASE Reject(c)
    BY <2>3, RejectRefines DEF Promise!Next
  <2>4. CASE SubmitFails(c, k)
    BY <2>1, <2>4, SubmitFailsRefines DEF Promise!Next
  <2>5. QED  BY <1>1, <2>2, <2>3, <2>4
<1>2. ASSUME NEW c \in Clients, NewCall(c) PROVE [Promise!Next]_(Promise!vars)
  <2>1. CASE RunSubmit(c)
    BY <1>1, <2>1 DEF RunSubmit
  <2>2. CASE ExecuteManaged(c)
    BY <1>1, <2>2 DEF ExecuteManaged, CanStart
  <2>3. ASSUME NEW r \in Runs, RunInspect(c, r) PROVE [Promise!Next]_(Promise!vars)
    <3>1. /\ UNCHANGED <<future, ids>> /\ InMemory(r) /\ next' = next
          /\ \A d \in Clients : client'[d].op = "rejected" <=> client[d].op = "rejected"
      BY <2>3 DEF RunInspect, Idle, IInv, TypeOK, InMemory, ids
    <3>2. CASE r \in Reapable
      BY <2>3, <3>1, <3>2, CollectRefines DEF RunInspect, Reapable, Promise!Next
    <3>3. CASE r \notin Reapable
      BY <1>0, <2>3, <3>1, <3>3 DEF RunInspect
    <3>4. QED  BY <3>2, <3>3
  <2>4. ASSUME NEW r \in Runs, CancelBegins(c, r) PROVE UNCHANGED Promise!vars
    <3>1. /\ "cancelling" \in Active
          /\ \A d \in Clients : client'[d].op = "rejected" <=> client[d].op = "rejected"
      BY <2>4 DEF CancelBegins, Idle, IInv, TypeOK, Active
    <3>2. QED  BY <2>4, <3>1, RelabelRefines DEF CancelBegins
  <2>5. QED  BY <1>2, <2>1, <2>2, <2>3, <2>4 DEF NewCall
<1>3. ASSUME NEW c \in Clients, ClientStep(c) PROVE [Promise!Next]_(Promise!vars)
  <2> DEFINE r == client[c].run
  <2>0. /\ next' = next
        /\ ~Reply(c) => \A d \in Clients : client'[d].op = "rejected" <=> client[d].op = "rejected"
    BY <1>3 DEF ClientStep, Reply, WaitCollects, WaitTimesOut, ToCleanup, ExecuteReturns,
       InspectCollects, InspectReturns, CancelAccepted, CancelFails, Idle, IInv, TypeOK, ids
  <2>1. CASE Reply(c)
    <3>1. run' = run /\ future' = future
      BY <2>1 DEF Reply
    <3>2. {d \in Clients : client'[d].op = "rejected"} = {d \in Clients : client[d].op = "rejected"} \ {c}
      BY <2>1 DEF Reply, Idle, IInv, TypeOK
    <3>3. /\ [q \in Runs |-> StatusOf(q)'] = [q \in Runs |-> StatusOf(q)]
          /\ [q \in Runs |-> TaskOf(q)'] = [q \in Runs |-> TaskOf(q)]
          /\ [q \in Runs |-> run'[q].result] = [q \in Runs |-> run[q].result]
      BY <2>0, <3>1, SameView DEF TaskOf, Unfinished
    <3>4. Promise!Reply(c)
      BY <3>2, <3>3 DEF Promise!Reply
    <3>5. QED  BY <3>4 DEF Promise!Next
  <2>2. CASE (WaitTimesOut(c) \/ CancelAccepted(c)) /\ ~Reply(c)
    BY <1>0, <2>0, <2>2 DEF WaitTimesOut, CancelAccepted
  <2>3. CASE (WaitCollects(c) \/ InspectCollects(c)) /\ ~Reply(c)
    <3>1. /\ r \in Runs /\ InMemory(r) /\ UNCHANGED <<future, ids>>
          /\ run' = run \/ (Done(r) /\ Collect(r))
      BY <2>3 DEF WaitCollects, InspectCollects, IInv, CallInv
    <3> HIDE DEF r
    <3>2. PICK n \in Runs : n = r
      BY <3>1
    <3>3. CASE run' = run
      BY <1>0, <2>0, <2>3, <3>1, <3>3
    <3>4. CASE Done(r) /\ Collect(r)
      BY <2>0, <2>3, <3>1, <3>2, <3>4, CollectRefines DEF Promise!Next
    <3>5. QED  BY <3>1, <3>3, <3>4
  <2>4. CASE (ExecuteReturns(c) \/ InspectReturns(c)) /\ ~Reply(c)
    <3>1. /\ r \in Runs /\ InMemory(r) /\ UNCHANGED <<future, ids>>
          /\ Cleanup(r) \/ UNCHANGED <<run, journal, newer>>
      BY <2>4 DEF ExecuteReturns, InspectReturns, IInv, CallInv
    <3> HIDE DEF r
    <3>2. PICK n \in Runs : n = r
      BY <3>1
    <3>3. QED  BY <2>0, <2>4, <3>1, <3>2, CleanupRefines DEF Promise!Next
  <2>5. CASE CancelFails(c) /\ ~Reply(c)
    <3>1. r \in Runs /\ "running" \in Active /\ "cancelling" \in Active /\ UNCHANGED <<future, ids>>
      BY <2>5 DEF CancelFails, IInv, CallInv, Active
    <3>2. CASE run[r].state = "cancelling"
      BY <2>0, <2>5, <3>1, <3>2, RelabelRefines DEF CancelFails
    <3>3. CASE run[r].state # "cancelling"
      BY <1>0, <2>0, <2>5, <3>1, <3>3 DEF CancelFails
    <3>4. QED  BY <3>2, <3>3
  <2>6. QED  BY <1>3, <2>1, <2>2, <2>3, <2>4, <2>5 DEF ClientStep
<1>4. ASSUME NEW r \in Runs, Dispatch(r) PROVE UNCHANGED Promise!vars
  <2>1. /\ future[r] = "queued" /\ future' = [future EXCEPT ![r] = "executing"]
        /\ run' = run /\ client' = client /\ next' = next
    BY <1>4 DEF Dispatch, ids
  <2>2. \A q \in Runs : TaskOf(q)' = TaskOf(q)
    BY <2>1 DEF TaskOf, Unfinished, IInv, TypeOK
  <2>3. QED  BY <2>1, <2>2, SameView, Unseen
<1>5. ASSUME NEW r \in Runs, Settle(r) PROVE Promise!TaskEnds(r)
  <2>1. PICK outcome \in {"returned", "raised"} :
            /\ future[r] = "executing" /\ future' = [future EXCEPT ![r] = outcome]
            /\ run' = run /\ client' = client /\ next' = next
    BY <1>5 DEF Settle, ids
  <2>2. TaskOf(r) = "pending" /\ TaskOf(r)' = outcome
    BY <2>1 DEF TaskOf, Unfinished, IInv, TypeOK
  <2>3. \A q \in Runs \ {r} : TaskOf(q)' = TaskOf(q)
    BY <2>1 DEF TaskOf, Unfinished, IInv, TypeOK
  <2>4. [q \in Runs |-> TaskOf(q)'] = [[q \in Runs |-> TaskOf(q)] EXCEPT ![r] = outcome]
    BY <2>2, <2>3
  <2>5. /\ [q \in Runs |-> StatusOf(q)'] = [q \in Runs |-> StatusOf(q)]
        /\ [q \in Runs |-> run'[q].result] = [q \in Runs |-> run[q].result]
    BY <2>1, SameView
  <2>6. QED  BY <2>1, <2>2, <2>4, <2>5 DEF Promise!TaskEnds
<1>6. CASE Recovery
  BY <1>0, <1>6 DEF Recovery, Boot, RecoverEntry, RecoverAborts, RecoverDone, memory, ids
<1>7. CASE Failure
  <2>1. LoseMemory
    BY <1>7 DEF Failure, Crash, CrashInCollect, CrashInRecoverWrite
  <2>2. QED  BY <2>1, LoseMemoryRefines DEF Promise!Next
<1>8. CASE UNCHANGED vars
  BY <1>0, <1>8 DEF vars, memory, ids
<1>9. QED
  BY <1>2, <1>3, <1>4, <1>5, <1>6, <1>7, <1>8 DEF Next, Promise!Next

\* The supervisor keeps what BackgroundRuns promises to its callers.
THEOREM Refinement == Spec => KeepsPromise
<1>1. Init => Promise!Init
  <2> SUFFICES ASSUME Init PROVE Promise!Init
    OBVIOUS
  <2>1. ASSUME NEW r \in Runs
        PROVE  StatusOf(r) = "unused" /\ TaskOf(r) = "none" /\ run[r].result = "none"
    BY DEF Init, Runs, StatusOf, TaskOf, Unfinished, NoRun
  <2>2. {c \in Clients : client[c].op = "rejected"} = {}
    BY DEF Init, Idle
  <2>3. QED  BY <2>1, <2>2 DEF Promise!Init
<1>2. IInv /\ [Next]_vars => [Promise!Next]_(Promise!vars)
  BY NextRefines
<1>3. QED  BY <1>1, <1>2, Invariance, PTL DEF Spec, KeepsPromise, Promise!Spec

=============================================================================
