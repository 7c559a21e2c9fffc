------------------------ MODULE StrictServiceProofs ------------------------
(***************************************************************************)
(* Proofs about StrictService, for any run ids (an unbounded set too), any *)
(* number of request threads, executions and crashes, and any limits.      *)
(***************************************************************************)
EXTENDS StrictService, FiniteSetTheorems, TLAPS

Executing == {"launch", "inside", "teardown", "settle"}

\* What holds of one request thread.
ThreadInv(t) ==
    /\ thread[t].rec # 0 <=> thread[t].pc \in Executing
    /\ thread[t].pc # "idle" => thread[t].run \in RunIds
    /\ thread[t].rec <= made
    /\ ~up => thread[t] = Idle

\* Two executes never share a record.
OwnRecords ==
    \A t, u \in Threads : thread[t].rec = thread[u].rec /\ thread[t].rec # 0 => t = u

\* The table: who is in it has a place in its order, and a place of its own.
TableInv ==
    /\ \A r \in RunIds : /\ record[r] <= made
                         /\ since[r] <= made
                         /\ record[r] = 0 <=> since[r] = 0
    /\ \A p, q \in RunIds : since[p] = since[q] /\ since[p] # 0 => p = q
    /\ \A p, q \in RunIds : record[p] = record[q] /\ record[p] # 0 => p = q

\* Its size; RunIds may be infinite, the table is not.
SizeInv ==
    /\ IsFiniteSet(Tracked(record))
    /\ Cardinality(Tracked(record)) <= MaxTracked

SlotInv ==
    \A r \in RunIds : Running(r) => \E t \in Threads : thread[t].rec = record[r]

\* A container is one that its thread has not yet tried to tear down.
ContainerInv ==
    /\ \A r \in RunIds : container[r].by <= made
    /\ up /\ ~dockerFails => \A r \in RunIds : container[r].by # 0 =>
           \E t \in Threads : /\ thread[t].rec = container[r].by
                              /\ thread[t].run = r
                              /\ thread[t].pc \in {"inside", "teardown"}

IInv ==
    /\ TypeOK
    /\ \A t \in Threads : ThreadInv(t)
    /\ OwnRecords
    /\ TableInv
    /\ SizeInv
    /\ SlotInv
    /\ ContainerInv

\* What Execute computes before it assigns.
Tab(r) == [record EXCEPT ![r] = made + 1]
Age(r) == IF record[r] # 0 THEN since ELSE [since EXCEPT ![r] = made + 1]
St == [status EXCEPT ![made + 1] = "running"]
Gone(r) == Evicted(Tab(r), Age(r), St)

LEMMA ExecuteAssigns ==
    ASSUME NEW t \in Threads, NEW r \in RunIds, Execute(t, r)
    PROVE  /\ up /\ thread[t] = Idle /\ made < MaxRecords /\ InFlight < MaxConcurrent
           /\ made' = made + 1
           /\ record' = [q \in RunIds |-> IF q \in Gone(r) THEN 0 ELSE Tab(r)[q]]
           /\ since' = [q \in RunIds |-> IF q \in Gone(r) THEN 0 ELSE Age(r)[q]]
           /\ status' = St
           /\ thread' = [thread EXCEPT ![t] = [pc |-> "launch", run |-> r,
                                               rec |-> made + 1, ok |-> FALSE]]
           /\ UNCHANGED <<up, container, crashes, dockerFails>>
BY DEF Execute, Tab, Age, St, Gone

----------------------------------------------------------------------------
(* Eviction.                                                               *)

\* Among finitely many run ids with stamps there is an oldest one.
LEMMA Oldest ==
    ASSUME NEW S, S # {}, NEW age, \A q \in S : age[q] \in Nat
    PROVE  \E q \in S : \A p \in S : ~(age[p] < age[q])
<1> DEFINE T == {age[q] : q \in S}
<1>1. T \subseteq Nat /\ T # {}
  OBVIOUS
<1>2. PICK n \in T : \A m \in T : ~(<<m, n>> \in OpToRel(<, Nat))
  BY <1>1, NatLessThanWellFounded, WFMin, Zenon
<1>3. \A m \in T : ~(m < n)
  BY <1>1, <1>2 DEF OpToRel
<1>4. QED  BY <1>3

\* A run that is in flight, the new one included, is not dropped.
LEMMA GoneHasEnded ==
    ASSUME IInv, NEW t \in Threads, NEW r \in RunIds, Execute(t, r),
           NEW q \in Gone(r)
    PROVE  q \in RunIds /\ q # r /\ record[q] # 0 /\ ~Running(q)
<1>1. made \in Nat /\ made + 1 \in Records /\ record \in [RunIds -> 0 .. MaxRecords]
      /\ status \in [Records -> Statuses] /\ record[q] <= made
  <2>1. made < MaxRecords
    BY ExecuteAssigns
  <2>2. q \in RunIds
    BY DEF Gone, Evicted, Evictable, Tracked
  <2>3. QED
    BY <2>1, <2>2, StrictServiceAssumption DEF IInv, TypeOK, Records, TableInv
<1>2. q \in RunIds /\ Tab(r)[q] # 0 /\ St[Tab(r)[q]] # "running"
  BY DEF Gone, Evicted, Evictable, Tracked
<1>3. q # r
  BY <1>1, <1>2 DEF Tab, St
<1>4. Tab(r)[q] = record[q] /\ record[q] # made + 1
  BY <1>1, <1>2, <1>3 DEF Tab
<1>5. St[record[q]] = status[record[q]]
  BY <1>1, <1>2, <1>4 DEF St, Records
<1>6. QED  BY <1>2, <1>3, <1>4, <1>5 DEF Running

\* The table after an execute is one larger at most, and when it is over the
\* limit there is a record to drop: the runs in flight are fewer than
\* MaxConcurrent, so they cannot fill it.
LEMMA ExecuteKeepsSize ==
    ASSUME IInv, NEW t \in Threads, NEW r \in RunIds, Execute(t, r)
    PROVE  SizeInv'
<1> DEFINE Old == Tracked(record)
           New == Tracked(Tab(r))
           Ended == Evictable(Tab(r), St)
<1>1. /\ made \in Nat /\ made + 1 \in Nat \ {0} /\ MaxTracked \in Nat
      /\ MaxConcurrent \in Nat /\ MaxConcurrent <= MaxTracked
      /\ record \in [RunIds -> 0 .. MaxRecords] /\ since \in [RunIds -> 0 .. MaxRecords]
  BY StrictServiceAssumption DEF IInv, TypeOK
<1>2. New = Old \cup {r}
  BY <1>1 DEF Tracked, Tab
<1>3. IsFiniteSet(Old) /\ Cardinality(Old) \in Nat /\ Cardinality(Old) <= MaxTracked
  BY FS_CardinalityType DEF IInv, SizeInv
<1>4. IsFiniteSet(New) /\ Cardinality(New) \in Nat
      /\ Cardinality(New) = IF r \in Old THEN Cardinality(Old) ELSE Cardinality(Old) + 1
  <2>1. /\ IsFiniteSet(Old \cup {r})
        /\ Cardinality(Old \cup {r}) = IF r \in Old THEN Cardinality(Old) ELSE Cardinality(Old) + 1
    BY <1>3, FS_AddElement, Zenon
  <2>2. QED  BY <1>2, <1>3, <2>1
<1>5. Tracked(record') = New \ Gone(r)
  <2>1. record' = [q \in RunIds |-> IF q \in Gone(r) THEN 0 ELSE Tab(r)[q]]
    BY ExecuteAssigns
  <2>2. QED  BY <2>1 DEF Tracked
<1>6. IsFiniteSet(New \ Gone(r)) /\ Cardinality(New \ Gone(r)) <= Cardinality(New)
  <2>1. New \ Gone(r) \in SUBSET New
    OBVIOUS
  <2>2. QED  BY <1>4, <2>1, FS_Subset
<1>7. CASE Cardinality(New) <= MaxTracked
  <2>1. Cardinality(New \ Gone(r)) \in Nat
    BY <1>6, FS_CardinalityType
  <2>2. Cardinality(New \ Gone(r)) <= MaxTracked
    BY <1>1, <1>4, <1>6, <1>7, <2>1
  <2>3. QED  BY <1>5, <1>6, <2>2 DEF SizeInv
<1>8. CASE ~(Cardinality(New) <= MaxTracked)
  <2>1. r \notin Old /\ Cardinality(Old) = MaxTracked /\ Cardinality(New) = MaxTracked + 1
    BY <1>1, <1>3, <1>4, <1>8
  <2>2. Excess(Tab(r)) = 1
    BY <1>1, <1>4, <2>1 DEF Excess
  <2>3. Ended # {}
    <3>1. SUFFICES ASSUME Ended = {} PROVE FALSE
      OBVIOUS
    <3>2. ASSUME NEW q \in Old PROVE Running(q)
      <4>1. q \in RunIds /\ q # r /\ Tab(r)[q] = record[q] /\ record[q] # 0
            /\ record[q] # made + 1 /\ q \in New
        BY <1>1, <1>2, <2>1 DEF Tracked, Tab, IInv, TableInv
      <4>2. St[record[q]] = status[record[q]]
        BY <1>1, <4>1 DEF St, IInv, TypeOK, Records
      <4>3. QED  BY <3>1, <4>1, <4>2 DEF Evictable, Running
    <3>3. Old = {q \in RunIds : Running(q)}
      BY <3>2 DEF Tracked, Running
    <3>4. InFlight < MaxConcurrent
      BY ExecuteAssigns
    <3>5. QED  BY <1>1, <2>1, <3>3, <3>4 DEF InFlight
  <2>4. PICK q \in Ended : \A p \in Ended : ~(Age(r)[p] < Age(r)[q])
    <3>1. \A p \in Ended : Age(r)[p] \in Nat
      BY <1>1 DEF Age, Evictable, Tracked
    <3>2. QED  BY <2>3, <3>1, Oldest
  <2>5. {p \in Ended : Age(r)[p] < Age(r)[q]} = {}
    BY <2>4
  <2>6. q \in Gone(r) /\ q \in New
    BY <2>2, <2>4, <2>5, FS_EmptySet DEF Gone, Evicted, Evictable
  <2>7. Cardinality(New \ {q}) = MaxTracked /\ IsFiniteSet(New \ {q})
    <3>1. /\ IsFiniteSet(New \ {q})
          /\ Cardinality(New \ {q}) = IF q \in New THEN Cardinality(New) - 1 ELSE Cardinality(New)
      BY <1>4, FS_RemoveElement, Zenon
    <3>2. QED  BY <1>1, <2>1, <2>6, <3>1
  <2>8. New \ Gone(r) \in SUBSET (New \ {q})
    BY <2>6
  <2>9. Cardinality(New \ Gone(r)) <= MaxTracked
    BY <2>7, <2>8, FS_Subset
  <2>10. QED  BY <1>5, <1>6, <2>9 DEF SizeInv
<1>9. QED  BY <1>7, <1>8

----------------------------------------------------------------------------
(* Every step preserves IInv.                                              *)

LEMMA InitIInv == Init => IInv
<1> SUFFICES ASSUME Init PROVE IInv
  OBVIOUS
<1> USE StrictServiceAssumption
<1>1. TypeOK
  BY DEF Init, TypeOK, NoContainer, ContainerState, Idle, ThreadState, Pcs, Statuses
<1>2. (\A t \in Threads : ThreadInv(t)) /\ OwnRecords
  BY DEF Init, ThreadInv, OwnRecords, Idle, Executing
<1>3. TableInv /\ SlotInv /\ ContainerInv
  BY DEF Init, TableInv, SlotInv, ContainerInv, Running, NoContainer
<1>4. Tracked(record) = {}
  BY DEF Init, Tracked
<1>5. SizeInv
  BY <1>4, FS_EmptySet DEF SizeInv
<1>6. QED  BY <1>1, <1>2, <1>3, <1>5 DEF IInv

LEMMA ExecuteStep ==
    ASSUME IInv, NEW t \in Threads, NEW r \in RunIds, Execute(t, r)
    PROVE  IInv'
<1> DEFINE n == made + 1
<1>1. /\ made \in Nat /\ n \in Records /\ n \in 0 .. MaxRecords
      /\ record \in [RunIds -> 0 .. MaxRecords] /\ since \in [RunIds -> 0 .. MaxRecords]
      /\ status \in [Records -> Statuses]
  BY ExecuteAssigns, StrictServiceAssumption DEF IInv, TypeOK, Records
<1>2. /\ Tab(r) \in [RunIds -> 0 .. MaxRecords] /\ Age(r) \in [RunIds -> 0 .. MaxRecords]
      /\ St \in [Records -> Statuses]
      /\ \A q \in RunIds : /\ Tab(r)[q] = IF q = r THEN n ELSE record[q]
                           /\ Age(r)[q] = IF q = r /\ record[r] = 0 THEN n ELSE since[q]
  BY <1>1 DEF Tab, Age, St, Statuses
<1>3. \A u \in Threads : thread'[u] = IF u = t THEN [pc |-> "launch", run |-> r, rec |-> n, ok |-> FALSE]
                                      ELSE thread[u]
  <2>1. thread' = [thread EXCEPT ![t] = [pc |-> "launch", run |-> r, rec |-> n, ok |-> FALSE]]
    BY ExecuteAssigns
  <2>2. DOMAIN thread = Threads
    BY DEF IInv, TypeOK
  <2>3. QED  BY <2>1, <2>2
<1>4. TypeOK'
  <2>1. record' \in [RunIds -> 0 .. MaxRecords] /\ since' \in [RunIds -> 0 .. MaxRecords]
    BY <1>2, ExecuteAssigns, StrictServiceAssumption
  <2>2. thread' \in [Threads -> ThreadState]
    <3> DEFINE rec == [pc |-> "launch", run |-> r, rec |-> n, ok |-> FALSE]
    <3>1. thread' = [thread EXCEPT ![t] = rec]
      BY ExecuteAssigns
    <3>2. rec \in ThreadState
      BY <1>1 DEF ThreadState, Pcs
    <3> HIDE DEF rec
    <3>3. QED  BY <3>1, <3>2 DEF IInv, TypeOK
  <2>3. QED  BY <1>1, <1>2, <2>1, <2>2, ExecuteAssigns DEF IInv, TypeOK
<1>5. (\A u \in Threads : ThreadInv(u))'
  BY <1>1, <1>3, ExecuteAssigns DEF IInv, TypeOK, ThreadState, ThreadInv, Executing
<1>6. OwnRecords'
  BY <1>1, <1>3, ExecuteAssigns DEF IInv, TypeOK, ThreadState, OwnRecords, ThreadInv
<1>7. TableInv'
  <2>1. ASSUME NEW q \in RunIds
        PROVE  /\ record'[q] <= made' /\ since'[q] <= made'
               /\ record'[q] = 0 <=> since'[q] = 0
    BY <1>1, <1>2, ExecuteAssigns DEF IInv, TableInv
  <2>2. ASSUME NEW a \in RunIds, NEW b \in RunIds, since'[a] = since'[b], since'[a] # 0
        PROVE  a = b
    <3>1. since'[a] = Age(r)[a] /\ since'[b] = Age(r)[b]
      BY <1>2, <2>2, ExecuteAssigns
    <3>2. since[a] # n /\ since[b] # n
      BY <1>1 DEF IInv, TableInv
    <3>3. CASE since[a] = since[b] /\ since[a] # 0
      BY <3>3 DEF IInv, TableInv
    <3>4. CASE (a = r \/ b = r) /\ record[r] = 0
      BY <1>2, <2>2, <3>1, <3>2, <3>4
    <3>5. QED  BY <1>2, <2>2, <3>1, <3>3, <3>4
  <2>3. ASSUME NEW a \in RunIds, NEW b \in RunIds, record'[a] = record'[b], record'[a] # 0
        PROVE  a = b
    <3>1. record'[a] = Tab(r)[a] /\ record'[b] = Tab(r)[b]
      BY <1>2, <2>3, ExecuteAssigns
    <3>2. record[a] # n /\ record[b] # n
      BY <1>1 DEF IInv, TableInv
    <3>3. CASE a # r /\ b # r
      <4>1. record[a] = record[b] /\ record[a] # 0
        BY <1>2, <2>3, <3>1, <3>3
      <4>2. QED  BY <4>1 DEF IInv, TableInv
    <3>4. QED  BY <1>2, <2>3, <3>1, <3>2, <3>3
  <2>4. QED  BY <2>1, <2>2, <2>3 DEF TableInv
<1>8. SlotInv'
  <2>1. SUFFICES ASSUME NEW q \in RunIds, Running(q)'
                 PROVE  \E u \in Threads : thread'[u].rec = record'[q]
    BY DEF SlotInv
  <2>2. record'[q] = Tab(r)[q] /\ Tab(r)[q] # 0 /\ status' = St
    BY <1>2, <2>1, ExecuteAssigns DEF Running
  <2>3. CASE q = r
    BY <1>2, <1>3, <2>2, <2>3
  <2>4. CASE q # r
    <3>1. record'[q] = record[q] /\ record[q] # n /\ record[q] \in Records
      BY <1>1, <1>2, <2>2, <2>4 DEF IInv, TableInv, Records
    <3>2. Running(q)
      BY <1>1, <2>1, <2>2, <3>1 DEF Running, St
    <3>3. PICK u \in Threads : thread[u].rec = record[q]
      BY <3>2 DEF IInv, SlotInv
    <3>4. u # t
      BY <3>1, <3>3, ExecuteAssigns DEF Idle, Records
    <3>5. QED  BY <1>3, <3>1, <3>3, <3>4
  <2>5. QED  BY <2>3, <2>4
<1>9. ContainerInv'
  <2>1. \A q \in RunIds : container'[q].by <= made'
    BY <1>1, ExecuteAssigns DEF IInv, TypeOK, ContainerState, ContainerInv
  <2>2. ASSUME NEW q \in RunIds, up', ~dockerFails', container'[q].by # 0
        PROVE  \E u \in Threads : /\ thread'[u].rec = container'[q].by
                                  /\ thread'[u].run = q
                                  /\ thread'[u].pc \in {"inside", "teardown"}
    <3>1. PICK u \in Threads : /\ thread[u].rec = container[q].by
                               /\ thread[u].run = q
                               /\ thread[u].pc \in {"inside", "teardown"}
      BY <2>2, ExecuteAssigns DEF IInv, ContainerInv
    <3>2. u # t
      BY <3>1, ExecuteAssigns DEF Idle
    <3>3. QED  BY <1>3, <3>1, <3>2, ExecuteAssigns
  <2>3. QED  BY <2>1, <2>2 DEF ContainerInv
<1>10. QED
  BY <1>4, <1>5, <1>6, <1>7, <1>8, <1>9, ExecuteKeepsSize DEF IInv

LEMMA IdleState ==
    /\ Idle \in ThreadState
    /\ \A pc \in Pcs, r \in RunIds : [pc |-> pc, run |-> r, rec |-> 0, ok |-> FALSE] \in ThreadState
<1>1. 0 \in 0 .. MaxRecords /\ "idle" \in Pcs
  BY StrictServiceAssumption DEF Pcs
<1>2. QED  BY <1>1 DEF Idle, ThreadState

\* A step of one thread that goes on with its request or ends it.
LEMMA ThreadMoves ==
    ASSUME IInv, NEW t \in Threads, made' = made, up' = up,
           thread' \in [Threads -> ThreadState],
           \A u \in Threads : u # t => thread'[u] = thread[u],
           thread'[t].rec \in {0, thread[t].rec},
           thread'[t].rec # 0 <=> thread'[t].pc \in Executing,
           thread'[t].pc # "idle" => thread'[t].run \in RunIds,
           up
    PROVE  (\A u \in Threads : ThreadInv(u))' /\ OwnRecords'
<1>1. made \in Nat
  BY DEF IInv, TypeOK
<1>2. ASSUME NEW u \in Threads PROVE ThreadInv(u)'
  BY <1>1 DEF IInv, ThreadInv
<1>3. OwnRecords'
  BY DEF IInv, OwnRecords
<1>4. QED  BY <1>2, <1>3

\* A step that leaves the table's keys alone.
LEMMA SameTable ==
    ASSUME IInv, UNCHANGED <<record, since>>, made' = made
    PROVE  TableInv' /\ SizeInv'
BY DEF IInv, TableInv, SizeInv, Tracked

\* Slots: the table and the statuses stay, and no executing thread ends.
LEMMA SameSlots ==
    ASSUME IInv, UNCHANGED <<record, status>>,
           \A u \in Threads : thread[u].rec # 0 => thread'[u].rec = thread[u].rec
    PROVE  SlotInv'
BY DEF IInv, SlotInv, Running

\* Containers: none is made, and an executing thread keeps its own until it
\* has gone.
LEMMA SameContainers ==
    ASSUME IInv, NEW t \in Threads, UNCHANGED <<up, made, dockerFails>>,
           \A q \in RunIds : container'[q].by \in {0, container[q].by},
           \A u \in Threads : u # t => thread'[u] = thread[u],
           \/ thread[t].pc \notin {"inside", "teardown"}
           \/ /\ thread'[t].rec = thread[t].rec
              /\ thread'[t].run = thread[t].run
              /\ thread'[t].pc \in {"inside", "teardown"}
           \/ ~dockerFails => container'[thread[t].run].by = 0
    PROVE  ContainerInv'
<1>1. \A q \in RunIds : container'[q].by <= made'
  BY DEF IInv, TypeOK, ContainerInv
<1>2. ASSUME NEW q \in RunIds, up', ~dockerFails', container'[q].by # 0
      PROVE  \E u \in Threads : /\ thread'[u].rec = container'[q].by
                                /\ thread'[u].run = q
                                /\ thread'[u].pc \in {"inside", "teardown"}
  <2>1. container'[q].by = container[q].by
    BY <1>2
  <2>2. PICK u \in Threads : /\ thread[u].rec = container[q].by
                             /\ thread[u].run = q
                             /\ thread[u].pc \in {"inside", "teardown"}
    BY <1>2, <2>1 DEF IInv, ContainerInv
  <2>3. CASE u = t
    BY <1>2, <2>1, <2>2, <2>3
  <2>4. CASE u # t
    BY <2>1, <2>2, <2>4
  <2>5. QED  BY <2>3, <2>4
<1>3. QED  BY <1>1, <1>2 DEF ContainerInv

\* A thread that is not idle serves a run id, and the service is up.
LEMMA Serving ==
    ASSUME IInv, NEW t \in Threads, thread[t].pc # "idle"
    PROVE  up /\ thread[t] \in ThreadState /\ thread[t].run \in RunIds
BY DEF IInv, TypeOK, ThreadInv, Idle

LEMMA LaunchStep ==
    ASSUME IInv, NEW t \in Threads, Launch(t)
    PROVE  IInv'
<1> DEFINE r == thread[t].run
<1>1. thread[t].pc = "launch" /\ UNCHANGED <<up, record, since, status, made, crashes, dockerFails>>
  BY DEF Launch, table
<1>2. up /\ thread[t] \in ThreadState /\ r \in RunIds /\ thread[t].rec # 0
  BY <1>1, Serving DEF IInv, ThreadInv, Executing
<1>3. /\ thread' \in [Threads -> ThreadState]
      /\ \A u \in Threads : u # t => thread'[u] = thread[u]
      /\ thread'[t].rec = thread[t].rec /\ thread'[t].run = r
      /\ thread'[t].pc \in {"inside", "teardown", "settle"}
  BY DEF Launch, IInv, TypeOK, ThreadState, Pcs
<1>4. (\A u \in Threads : ThreadInv(u))' /\ OwnRecords'
  BY <1>1, <1>2, <1>3, ThreadMoves DEF Executing
<1>5. SlotInv'
  BY <1>1, <1>3, SameSlots
<1>6. CASE container' = container
  <2>1. TypeOK'
    BY <1>1, <1>3, <1>6 DEF IInv, TypeOK
  <2>2. ContainerInv'
    BY <1>1, <1>3, <1>6, SameContainers
  <2>3. QED  BY <1>1, <1>4, <1>5, <2>1, <2>2, SameTable DEF IInv
<1>7. CASE /\ container' = [container EXCEPT ![r] = [by |-> thread[t].rec, live |-> TRUE]]
           /\ thread'[t].pc = "inside"
  <2>1. /\ container' \in [RunIds -> ContainerState]
        /\ \A q \in RunIds : container'[q].by = IF q = r THEN thread[t].rec ELSE container[q].by
    BY <1>2, <1>7 DEF IInv, TypeOK, ContainerState, ThreadState
  <2>2. TypeOK'
    BY <1>1, <1>3, <2>1 DEF IInv, TypeOK
  <2>3. \A q \in RunIds : container'[q].by <= made'
    BY <1>1, <2>1 DEF IInv, ContainerInv, ThreadInv
  <2>4. ASSUME NEW q \in RunIds, up', ~dockerFails', container'[q].by # 0
        PROVE  \E u \in Threads : /\ thread'[u].rec = container'[q].by
                                  /\ thread'[u].run = q
                                  /\ thread'[u].pc \in {"inside", "teardown"}
    <3>1. CASE q = r
      BY <1>3, <1>7, <2>1, <3>1
    <3>2. CASE q # r
      <4>1. PICK u \in Threads : /\ thread[u].rec = container[q].by
                                 /\ thread[u].run = q
                                 /\ thread[u].pc \in {"inside", "teardown"}
        BY <1>1, <2>1, <2>4, <3>2 DEF IInv, ContainerInv
      <4>2. QED  BY <1>1, <1>3, <2>1, <3>2, <4>1
    <3>3. QED  BY <3>1, <3>2
  <2>5. ContainerInv'
    BY <2>3, <2>4 DEF ContainerInv
  <2>6. QED  BY <1>1, <1>4, <1>5, <2>2, <2>5, SameTable DEF IInv
<1>8. CASE thread' = [thread EXCEPT ![t].pc = "inside"]
  BY <1>6, <1>7, <1>8 DEF Launch, IInv, TypeOK
<1>9. QED  BY <1>6, <1>7, <1>8 DEF Launch

\* A container that stops keeps its name and its owner.
LEMMA Kills ==
    ASSUME container \in [RunIds -> ContainerState], NEW r \in RunIds,
           container' = container \/ container' = [container EXCEPT ![r].live = FALSE]
    PROVE  /\ container' \in [RunIds -> ContainerState]
           /\ \A q \in RunIds : container'[q].by = container[q].by
<1>1. ASSUME container' = [container EXCEPT ![r].live = FALSE], NEW q \in RunIds
      PROVE  container'[q] \in ContainerState /\ container'[q].by = container[q].by
  <2>1. CASE q = r
    BY <1>1, <2>1 DEF ContainerState
  <2>2. CASE q # r
    BY <1>1, <2>2
  <2>3. QED  BY <2>1, <2>2
<1>2. QED  BY <1>1

LEMMA FinishStep ==
    ASSUME IInv, NEW t \in Threads, Finish(t)
    PROVE  IInv'
<1>1. thread[t].pc = "inside" /\ UNCHANGED <<up, record, since, status, made, crashes, dockerFails>>
  BY DEF Finish, table
<1>2. up /\ thread[t] \in ThreadState /\ thread[t].run \in RunIds /\ thread[t].rec # 0
  BY <1>1, Serving DEF IInv, ThreadInv, Executing
<1>3. /\ thread' \in [Threads -> ThreadState]
      /\ \A u \in Threads : u # t => thread'[u] = thread[u]
      /\ thread'[t].rec = thread[t].rec /\ thread'[t].run = thread[t].run
      /\ thread'[t].pc = "teardown"
  BY DEF Finish, IInv, TypeOK, ThreadState, Pcs
<1>4. (\A u \in Threads : ThreadInv(u))' /\ OwnRecords'
  BY <1>1, <1>2, <1>3, ThreadMoves DEF Executing
<1>5. SlotInv'
  BY <1>1, <1>3, SameSlots
<1>6. /\ container' \in [RunIds -> ContainerState]
      /\ \A q \in RunIds : container'[q].by = container[q].by
  <2>1. container' = container \/ container' = [container EXCEPT ![thread[t].run].live = FALSE]
    BY DEF Finish
  <2>2. container \in [RunIds -> ContainerState]
    BY DEF IInv, TypeOK
  <2>3. QED  BY <1>2, <2>1, <2>2, Kills
<1>7. TypeOK'
  BY <1>1, <1>3, <1>6 DEF IInv, TypeOK
<1>8. ContainerInv'
  BY <1>1, <1>3, <1>6, SameContainers
<1>9. QED  BY <1>1, <1>4, <1>5, <1>7, <1>8, SameTable DEF IInv

\* Removing a container keeps the others; it fails only on a host whose
\* docker commands may fail.
LEMMA Removes ==
    ASSUME IInv, NEW r \in RunIds, RemoveContainer(r)
    PROVE  /\ container' \in [RunIds -> ContainerState]
           /\ \A q \in RunIds : container'[q].by \in {0, container[q].by}
           /\ ~dockerFails => container'[r].by = 0
<1>1. NoContainer \in ContainerState /\ NoContainer.by = 0
  BY StrictServiceAssumption DEF NoContainer, ContainerState
<1>2. QED  BY <1>1 DEF RemoveContainer, IInv, TypeOK

LEMMA TeardownStep ==
    ASSUME IInv, NEW t \in Threads, Teardown(t)
    PROVE  IInv'
<1>1. /\ thread[t].pc = "teardown" /\ RemoveContainer(thread[t].run)
      /\ UNCHANGED <<up, record, since, status, made, crashes, dockerFails>>
  BY DEF Teardown, table
<1>2. up /\ thread[t] \in ThreadState /\ thread[t].run \in RunIds /\ thread[t].rec # 0
  BY <1>1, Serving DEF IInv, ThreadInv, Executing
<1>3. /\ thread' \in [Threads -> ThreadState]
      /\ \A u \in Threads : u # t => thread'[u] = thread[u]
      /\ thread'[t].rec = thread[t].rec /\ thread'[t].run = thread[t].run
      /\ thread'[t].pc = "settle"
  BY DEF Teardown, IInv, TypeOK, ThreadState, Pcs
<1>4. (\A u \in Threads : ThreadInv(u))' /\ OwnRecords'
  BY <1>1, <1>2, <1>3, ThreadMoves DEF Executing
<1>5. SlotInv'
  BY <1>1, <1>3, SameSlots
<1>6. /\ container' \in [RunIds -> ContainerState]
      /\ \A q \in RunIds : container'[q].by \in {0, container[q].by}
      /\ ~dockerFails => container'[thread[t].run].by = 0
  BY <1>1, <1>2, Removes
<1>7. TypeOK'
  BY <1>1, <1>3, <1>6 DEF IInv, TypeOK
<1>8. ContainerInv'
  BY <1>1, <1>3, <1>6, SameContainers
<1>9. QED  BY <1>1, <1>4, <1>5, <1>7, <1>8, SameTable DEF IInv

LEMMA SettleStep ==
    ASSUME IInv, NEW t \in Threads, Settle(t)
    PROVE  IInv'
<1> DEFINE n == thread[t].rec
<1>1. /\ thread[t].pc = "settle" /\ thread' = [thread EXCEPT ![t] = Idle]
      /\ UNCHANGED <<up, record, since, container, made, crashes, dockerFails>>
  BY DEF Settle
<1>2. up /\ thread[t] \in ThreadState /\ n # 0 /\ n \in Records
  BY <1>1, Serving, StrictServiceAssumption DEF IInv, ThreadInv, Executing, ThreadState, Records
<1>3. PICK s \in Statuses \ {"running"} : status' = [status EXCEPT ![n] = s]
  <2>1. CASE thread[t].ok
    BY <2>1 DEF Settle, Statuses
  <2>2. CASE ~thread[t].ok
    BY <2>2 DEF Settle, Statuses
  <2>3. QED  BY <2>1, <2>2
<1>4. /\ thread' \in [Threads -> ThreadState]
      /\ \A u \in Threads : u # t => thread'[u] = thread[u]
      /\ thread'[t].rec = 0 /\ thread'[t].pc = "idle"
  BY <1>1, StrictServiceAssumption DEF IInv, TypeOK, ThreadState, Pcs, Idle
<1>5. (\A u \in Threads : ThreadInv(u))' /\ OwnRecords'
  BY <1>1, <1>2, <1>4, ThreadMoves DEF Executing
<1>6. TypeOK'
  BY <1>1, <1>2, <1>3, <1>4 DEF IInv, TypeOK
<1>7. SlotInv'
  <2>1. SUFFICES ASSUME NEW q \in RunIds, Running(q)'
                 PROVE  \E u \in Threads : thread'[u].rec = record'[q]
    BY DEF SlotInv
  <2>2. record[q] # n /\ Running(q)
    BY <1>1, <1>2, <1>3, <2>1 DEF Running, IInv, TypeOK
  <2>3. PICK u \in Threads : thread[u].rec = record[q]
    BY <2>2 DEF IInv, SlotInv
  <2>4. QED  BY <1>1, <1>4, <2>2, <2>3
<1>8. ContainerInv'
  BY <1>1, <1>4, SameContainers
<1>9. QED  BY <1>1, <1>5, <1>6, <1>7, <1>8, SameTable DEF IInv

LEMMA CancelKillsStep ==
    ASSUME IInv, NEW t \in Threads, NEW r \in RunIds, CancelKills(t, r)
    PROVE  IInv'
<1>1. /\ up /\ thread[t] = Idle /\ container' = [container EXCEPT ![r].live = FALSE]
      /\ UNCHANGED <<up, record, since, status, made, crashes, dockerFails>>
  BY DEF CancelKills, table
<1>2. /\ thread' \in [Threads -> ThreadState]
      /\ \A u \in Threads : u # t => thread'[u] = thread[u]
      /\ thread'[t].rec = 0 /\ thread'[t].pc \in {"idle", "label"}
      /\ thread'[t].pc # "idle" => thread'[t].run = r
  <2> DEFINE x == [pc |-> "label", run |-> r, rec |-> 0, ok |-> FALSE]
  <2>1. thread' = thread \/ thread' = [thread EXCEPT ![t] = x]
    BY DEF CancelKills
  <2>2. x \in ThreadState /\ x.rec = 0 /\ x.pc = "label" /\ x.run = r
    BY IdleState DEF Idle, Pcs
  <2> HIDE DEF x
  <2>3. QED  BY <1>1, <2>1, <2>2 DEF IInv, TypeOK, Idle
<1>3. (\A u \in Threads : ThreadInv(u))' /\ OwnRecords'
  BY <1>1, <1>2, ThreadMoves DEF Executing
<1>4. /\ container' \in [RunIds -> ContainerState]
      /\ \A q \in RunIds : container'[q].by = container[q].by
  BY <1>1, Kills DEF IInv, TypeOK
<1>5. TypeOK'
  BY <1>1, <1>2, <1>4 DEF IInv, TypeOK
<1>6. SlotInv'
  BY <1>1, <1>2, SameSlots DEF Idle
<1>7. ContainerInv'
  BY <1>1, <1>2, <1>4, SameContainers DEF Idle
<1>8. QED  BY <1>1, <1>3, <1>5, <1>6, <1>7, SameTable DEF IInv

LEMMA CancelLabelsStep ==
    ASSUME IInv, NEW t \in Threads, CancelLabels(t)
    PROVE  IInv'
<1> DEFINE r == thread[t].run
<1>1. /\ thread[t].pc = "label" /\ thread' = [thread EXCEPT ![t] = Idle]
      /\ UNCHANGED <<up, record, since, container, made, crashes, dockerFails>>
  BY DEF CancelLabels
<1>2. up /\ thread[t] \in ThreadState /\ r \in RunIds /\ thread[t].rec = 0
  BY <1>1, Serving DEF IInv, ThreadInv, Executing
<1>3. \/ status' = status
      \/ record[r] \in Records /\ status' = [status EXCEPT ![record[r]] = "cancelled"]
  BY <1>2, StrictServiceAssumption DEF CancelLabels, IInv, TypeOK, Records
<1>4. /\ thread' \in [Threads -> ThreadState]
      /\ \A u \in Threads : u # t => thread'[u] = thread[u]
      /\ thread'[t].rec = 0 /\ thread'[t].pc = "idle"
  BY <1>1, StrictServiceAssumption DEF IInv, TypeOK, ThreadState, Pcs, Idle
<1>5. (\A u \in Threads : ThreadInv(u))' /\ OwnRecords'
  BY <1>1, <1>2, <1>4, ThreadMoves DEF Executing
<1>6. TypeOK'
  BY <1>1, <1>3, <1>4 DEF IInv, TypeOK, Statuses
<1>7. SlotInv'
  <2>1. SUFFICES ASSUME NEW q \in RunIds, Running(q)'
                 PROVE  \E u \in Threads : thread'[u].rec = record'[q]
    BY DEF SlotInv
  <2>2. Running(q)
    <3>1. record[q] # 0 /\ record[q] \in Records /\ status'[record[q]] = "running"
      BY <1>1, <2>1 DEF Running, IInv, TypeOK, Records
    <3>2. status'[record[q]] \in {status[record[q]], "cancelled"}
      BY <1>3, <3>1 DEF IInv, TypeOK
    <3>3. QED  BY <3>1, <3>2 DEF Running
  <2>3. PICK u \in Threads : thread[u].rec = record[q]
    BY <2>2 DEF IInv, SlotInv
  <2>4. QED  BY <1>1, <1>2, <1>4, <2>2, <2>3 DEF Running
<1>8. ContainerInv'
  BY <1>1, <1>4, SameContainers
<1>9. QED  BY <1>1, <1>5, <1>6, <1>7, <1>8, SameTable DEF IInv

LEMMA DeleteRemovesStep ==
    ASSUME IInv, NEW t \in Threads, NEW r \in RunIds, DeleteRemoves(t, r)
    PROVE  IInv'
<1>1. /\ up /\ thread[t] = Idle /\ RemoveContainer(r)
      /\ UNCHANGED <<up, record, since, status, made, crashes, dockerFails>>
  BY DEF DeleteRemoves, table
<1>2. /\ thread' \in [Threads -> ThreadState]
      /\ \A u \in Threads : u # t => thread'[u] = thread[u]
      /\ thread'[t].rec = 0 /\ thread'[t].pc \in {"idle", "pop"}
      /\ thread'[t].pc # "idle" => thread'[t].run = r
  <2> DEFINE x == [pc |-> "pop", run |-> r, rec |-> 0, ok |-> FALSE]
  <2>1. thread' = thread \/ thread' = [thread EXCEPT ![t] = x]
    BY DEF DeleteRemoves
  <2>2. x \in ThreadState /\ x.rec = 0 /\ x.pc = "pop" /\ x.run = r
    BY IdleState DEF Idle, Pcs
  <2> HIDE DEF x
  <2>3. QED  BY <1>1, <2>1, <2>2 DEF IInv, TypeOK, Idle
<1>3. (\A u \in Threads : ThreadInv(u))' /\ OwnRecords'
  BY <1>1, <1>2, ThreadMoves DEF Executing
<1>4. /\ container' \in [RunIds -> ContainerState]
      /\ \A q \in RunIds : container'[q].by \in {0, container[q].by}
  BY <1>1, Removes
<1>5. TypeOK'
  BY <1>1, <1>2, <1>4 DEF IInv, TypeOK
<1>6. SlotInv'
  BY <1>1, <1>2, SameSlots DEF Idle
<1>7. ContainerInv'
  BY <1>1, <1>2, <1>4, SameContainers DEF Idle
<1>8. QED  BY <1>1, <1>3, <1>5, <1>6, <1>7, SameTable DEF IInv

LEMMA DeletePopsStep ==
    ASSUME IInv, NEW t \in Threads, DeletePops(t)
    PROVE  IInv'
<1> DEFINE r == thread[t].run
<1>1. /\ thread[t].pc = "pop" /\ thread' = [thread EXCEPT ![t] = Idle]
      /\ record' = [record EXCEPT ![r] = 0] /\ since' = [since EXCEPT ![r] = 0]
      /\ UNCHANGED <<up, status, container, made, crashes, dockerFails>>
  BY DEF DeletePops
<1>2. up /\ thread[t] \in ThreadState /\ r \in RunIds /\ thread[t].rec = 0
  BY <1>1, Serving DEF IInv, ThreadInv, Executing
<1>3. /\ record' \in [RunIds -> 0 .. MaxRecords] /\ since' \in [RunIds -> 0 .. MaxRecords]
      /\ \A q \in RunIds : /\ record'[q] = IF q = r THEN 0 ELSE record[q]
                           /\ since'[q] = IF q = r THEN 0 ELSE since[q]
  BY <1>1, <1>2, StrictServiceAssumption DEF IInv, TypeOK
<1>4. /\ thread' \in [Threads -> ThreadState]
      /\ \A u \in Threads : u # t => thread'[u] = thread[u]
      /\ thread'[t].rec = 0 /\ thread'[t].pc = "idle"
  BY <1>1, StrictServiceAssumption DEF IInv, TypeOK, ThreadState, Pcs, Idle
<1>5. (\A u \in Threads : ThreadInv(u))' /\ OwnRecords'
  BY <1>1, <1>2, <1>4, ThreadMoves DEF Executing
<1>6. TypeOK'
  BY <1>1, <1>3, <1>4 DEF IInv, TypeOK
<1>7. TableInv'
  BY <1>1, <1>3 DEF IInv, TypeOK, TableInv
<1>8. SizeInv'
  <2>1. Tracked(record') = Tracked(record) \ {r}
    BY <1>3 DEF Tracked
  <2>2. Tracked(record') \in SUBSET Tracked(record)
    BY <2>1
  <2>3. /\ IsFiniteSet(Tracked(record')) /\ Cardinality(Tracked(record')) \in Nat
        /\ Cardinality(Tracked(record)) \in Nat
        /\ Cardinality(Tracked(record')) <= Cardinality(Tracked(record))
    BY <2>2, FS_Subset, FS_CardinalityType DEF IInv, SizeInv
  <2>4. QED  BY <2>3, StrictServiceAssumption DEF IInv, SizeInv
<1>9. SlotInv'
  <2>1. SUFFICES ASSUME NEW q \in RunIds, Running(q)'
                 PROVE  \E u \in Threads : thread'[u].rec = record'[q]
    BY DEF SlotInv
  <2>2. Running(q) /\ record'[q] = record[q] /\ record[q] # 0
    BY <1>1, <1>3, <2>1 DEF Running
  <2>3. PICK u \in Threads : thread[u].rec = record[q]
    BY <2>2 DEF IInv, SlotInv
  <2>4. QED  BY <1>2, <1>4, <2>2, <2>3
<1>10. ContainerInv'
  BY <1>1, <1>4, SameContainers
<1>11. QED  BY <1>5, <1>6, <1>7, <1>8, <1>9, <1>10 DEF IInv

LEMMA CrashStep ==
    ASSUME IInv, Crash
    PROVE  IInv'
<1>1. TypeOK'
  <2>1. crashes' \in 0 .. MaxCrashes /\ UNCHANGED <<container, made, dockerFails>> /\ up' = FALSE
    BY StrictServiceAssumption DEF Crash, IInv, TypeOK
  <2>2. /\ record' \in [RunIds -> 0 .. MaxRecords] /\ since' \in [RunIds -> 0 .. MaxRecords]
        /\ status' \in [Records -> Statuses]
    BY StrictServiceAssumption DEF Crash, Statuses
  <2>3. thread' \in [Threads -> ThreadState]
    BY IdleState DEF Crash
  <2>4. QED  BY <2>1, <2>2, <2>3 DEF IInv, TypeOK
<1>2. (\A t \in Threads : ThreadInv(t))' /\ OwnRecords'
  BY DEF Crash, IInv, TypeOK, ThreadInv, OwnRecords, Idle, Executing
<1>3. TableInv' /\ SlotInv' /\ ContainerInv'
  BY DEF Crash, IInv, TypeOK, TableInv, SlotInv, ContainerInv, Running
<1>4. Tracked(record') = {}
  BY DEF Crash, Tracked
<1>5. SizeInv'
  BY <1>4, FS_EmptySet, StrictServiceAssumption DEF SizeInv
<1>6. QED  BY <1>1, <1>2, <1>3, <1>5 DEF IInv

LEMMA BootStep ==
    ASSUME IInv, Boot
    PROVE  IInv'
<1>1. ~up /\ up' = TRUE /\ UNCHANGED <<record, since, status, thread, made, crashes, dockerFails>>
  BY DEF Boot, table
<1>2. NoContainer \in ContainerState /\ NoContainer.by = 0
  BY StrictServiceAssumption DEF NoContainer, ContainerState
<1>3. PICK gone \in SUBSET RunIds :
          /\ ~dockerFails => gone = RunIds
          /\ container' = [r \in RunIds |-> IF r \in gone THEN NoContainer ELSE container[r]]
  BY DEF Boot, Recoverable
<1>4. TypeOK'
  BY <1>1, <1>2, <1>3 DEF IInv, TypeOK
<1>5. (\A t \in Threads : ThreadInv(t))' /\ OwnRecords' /\ SlotInv'
  BY <1>1 DEF IInv, ThreadInv, OwnRecords, SlotInv, Running, Idle
<1>6. ContainerInv'
  BY <1>1, <1>2, <1>3 DEF IInv, TypeOK, ContainerInv
<1>7. QED  BY <1>1, <1>4, <1>5, <1>6, SameTable DEF IInv

LEMMA NextIInv == IInv /\ [Next]_vars => IInv'
<1> SUFFICES ASSUME IInv, [Next]_vars PROVE IInv'
  OBVIOUS
<1>1. ASSUME NEW t \in Threads, NEW r \in RunIds,
             Execute(t, r) \/ CancelKills(t, r) \/ DeleteRemoves(t, r)
      PROVE  IInv'
  BY <1>1, ExecuteStep, CancelKillsStep, DeleteRemovesStep
<1>2. ASSUME NEW t \in Threads, RequestStep(t)
      PROVE  IInv'
  BY <1>2, LaunchStep, FinishStep, TeardownStep, SettleStep, CancelLabelsStep, DeletePopsStep
     DEF RequestStep
<1>3. CASE UNCHANGED vars
  BY <1>3 DEF vars, table, IInv, TypeOK, ThreadInv, OwnRecords, TableInv, SizeInv, SlotInv,
     ContainerInv, Tracked, Running
<1>4. QED  BY <1>1, <1>2, <1>3, CrashStep, BootStep DEF Next

----------------------------------------------------------------------------
(* The theorems.                                                           *)

\* The inductive invariant holds throughout, before and after any crash.
THEOREM Invariance == Spec => []IInv
BY InitIInv, NextIInv, PTL DEF Spec

\* Every variable keeps its type, whatever the limits.
THEOREM TypeCorrect == Spec => []TypeOK
<1>1. IInv => TypeOK
  BY DEF IInv
<1>2. QED  BY <1>1, Invariance, PTL

\* A record counts as running only while a thread executes it, and the table
\* stays within MAX_TRACKED_RUNS, for any limits with MAX_CONCURRENT_RUNS at
\* most MAX_TRACKED_RUNS.
THEOREM SlotsHeld == Spec => []SlotsAreHeld
<1>1. IInv => SlotsAreHeld
  BY DEF IInv, SlotInv, SizeInv, SlotsAreHeld
<1>2. QED  BY <1>1, Invariance, PTL

\* While the service is up and docker works, every container has a request
\* that will tear it down.
THEOREM NoOrphanContainers == Spec => []ContainersOwned
<1>1. IInv => ContainersOwned
  BY DEF IInv, ContainerInv, ContainersOwned
<1>2. QED  BY <1>1, Invariance, PTL

\* An execution in flight keeps its slot until it settles, whoever is admitted
\* or evicted meanwhile, unless a request for its own run id takes it.
THEOREM SlotsKept == Spec => SlotsAreKept
<1> DEFINE Kept == \A t \in Threads : Holds(t) /\ up' /\ thread'[t].rec # 0 =>
                       Holds(t)' \/ \E u \in Threads \ {t} : Takes(u, thread[t].run)
<1>1. ASSUME IInv, [Next]_vars PROVE [Kept]_vars
  <2>1. SUFFICES ASSUME NEW t \in Threads, Holds(t), up', thread'[t].rec # 0, Next
                 PROVE  Holds(t)' \/ \E u \in Threads \ {t} : Takes(u, thread[t].run)
    BY <1>1
  <2> DEFINE q == thread[t].run
  <2> DEFINE n == thread[t].rec
  <2>2. /\ q \in RunIds /\ n \in Records /\ n <= made /\ thread[t].pc \in Executing
        /\ record[q] = n /\ status[n] = "running"
    BY <1>1, <2>1, StrictServiceAssumption
    DEF Holds, IInv, TypeOK, ThreadInv, ThreadState, Records, Executing
  <2>3. ASSUME NEW u \in Threads, NEW r \in RunIds, Execute(u, r)
        PROVE  Holds(t)' \/ \E v \in Threads \ {t} : Takes(v, thread[t].run)
    <3>1. /\ u # t /\ thread[u] = Idle /\ thread'[t] = thread[t]
          /\ thread'[u].pc = "launch" /\ thread'[u].run = r
      BY <1>1, <2>2, <2>3 DEF Execute, IInv, TypeOK, Executing, Idle
    <3>2. CASE r = q
      BY <3>1, <3>2 DEF Takes
    <3>3. CASE r # q
      <4>1. /\ record' = [p \in RunIds |-> IF p \in Gone(r) THEN 0 ELSE Tab(r)[p]]
            /\ status' = St
        BY <2>3, ExecuteAssigns
      <4>2. Tab(r)[q] = n
        BY <1>1, <2>2, <3>3 DEF Tab, IInv, TypeOK
      <4>3. q \notin Gone(r)
        BY <1>1, <2>2, <2>3, GoneHasEnded DEF Running, Records
      <4>4. status'[n] = "running"
        BY <1>1, <2>2, <4>1 DEF St, IInv, TypeOK
      <4>5. QED  BY <2>2, <3>1, <4>1, <4>2, <4>3, <4>4 DEF Holds, Records
    <3>4. QED  BY <3>2, <3>3
  <2>4. ASSUME NEW u \in Threads, Settle(u)
        PROVE  Holds(t)'
    <3>1. u # t /\ thread'[t] = thread[t] /\ record' = record
      BY <1>1, <2>1, <2>2, <2>4 DEF Settle, IInv, TypeOK, Idle
    <3>2. thread[u].rec # n
      BY <1>1, <2>2, <3>1 DEF IInv, OwnRecords, Records
    <3>3. status'[n] = "running"
      BY <1>1, <2>2, <2>4, <3>2 DEF Settle, IInv, TypeOK
    <3>4. QED  BY <2>2, <3>1, <3>3 DEF Holds, Records
  <2>5. ASSUME NEW u \in Threads, CancelLabels(u) \/ DeletePops(u)
        PROVE  Holds(t)' \/ \E v \in Threads \ {t} : Takes(v, thread[t].run)
    <3>1. u # t /\ thread'[t] = thread[t] /\ thread[u].pc \in {"label", "pop"}
      BY <1>1, <2>2, <2>5 DEF CancelLabels, DeletePops, IInv, TypeOK, Executing
    <3>2. CASE thread[u].run = q
      BY <3>1, <3>2 DEF Takes
    <3>3. CASE thread[u].run # q
      <4>1. record'[q] = n
        BY <1>1, <2>2, <2>5, <3>3 DEF CancelLabels, DeletePops, IInv, TypeOK
      <4>2. status'[n] = "running"
        <5>1. record[thread[u].run] # n
          BY <1>1, <2>1, <2>2, <3>1, <3>3, Serving DEF IInv, TableInv, Records
        <5>2. QED  BY <1>1, <2>2, <2>5, <5>1 DEF CancelLabels, DeletePops, IInv, TypeOK
      <4>3. QED  BY <2>2, <3>1, <4>1, <4>2 DEF Holds, Records
    <3>4. QED  BY <3>2, <3>3
  <2>6. ASSUME NEW u \in Threads, Launch(u) \/ Finish(u) \/ Teardown(u)
        PROVE  Holds(t)'
    <3>1. UNCHANGED <<record, status>> /\ thread'[t].rec = n /\ thread'[t].run = q
      BY <1>1, <2>6 DEF Launch, Finish, Teardown, table, IInv, TypeOK, ThreadState
    <3>2. QED  BY <2>2, <3>1 DEF Holds, Records
  <2>7. ASSUME NEW u \in Threads, NEW r \in RunIds, CancelKills(u, r) \/ DeleteRemoves(u, r)
        PROVE  Holds(t)'
    <3>1. UNCHANGED <<record, status>> /\ thread'[t] = thread[t]
      BY <1>1, <2>2, <2>7 DEF CancelKills, DeleteRemoves, table, IInv, TypeOK, Executing, Idle
    <3>2. QED  BY <2>2, <3>1 DEF Holds, Records
  <2>8. ~Crash
    BY <2>1 DEF Crash
  <2>9. CASE Boot
    BY <2>1, <2>9 DEF Boot, table, Holds
  <2>10. QED
    BY <2>1, <2>3, <2>4, <2>5, <2>6, <2>7, <2>8, <2>9 DEF Next, RequestStep
<1>2. QED  BY <1>1, Invariance, PTL DEF Spec, SlotsAreKept

=============================================================================
