---------------------------- MODULE CounterProofs ----------------------------
(***************************************************************************)
(* Type correctness of the race-condition demo, and the reason its safe    *)
(* counter loses nothing, for any number of threads and increments: who is *)
(* inside the critical section is who holds pcb_lock.  Then what the two   *)
(* counters can be when main reports.                                      *)
(***************************************************************************)
EXTENDS CounterDemo, FiniteSetTheorems, TLAPS

\* Where counter_worker holds the mutex.
Inside == {"load", "store"}

\* The threads in the critical section are the holder of the mutex.
LockInv == \A t \in Thread : wpc[t] \in Inside <=> pcb_lock = t

\* A thread in its loop, or not yet in it, has increments left to do.
LoopInv == \A t \in Thread : wpc[t] # "exit" => i[t] < IncrementsPerThread

\* The threads main has yet to create have not started.
CreateInv == mpc = "create" => \A t \in Thread : t >= idx => wpc[t] = "new"

Inv == TypeOK /\ LockInv /\ LoopInv /\ CreateInv /\ NoStaleSafeUpdate

\* main's counters, threads and mutex before the first pthread_create.
LEMMA InitInv == Init => Inv
  BY NumThreadsAssumption, IncrementsAssumption
  DEF Init, Inv, TypeOK, LockInv, LoopInv, CreateInv, NoStaleSafeUpdate,
      Inside, Thread, NoOne

\* Creating and joining threads: main touches neither counter nor mutex.
LEMMA MainPreservesInv == Inv /\ (Create \/ Join) => Inv'
<1> SUFFICES ASSUME Inv, Create \/ Join PROVE Inv'
  OBVIOUS
<1> USE NumThreadsAssumption, IncrementsAssumption
<1>1. CASE Create
  <2>1. idx \in Thread /\ wpc[idx] = "new"
    BY <1>1 DEF Inv, TypeOK, CreateInv, Create, Thread
  <2>2. TypeOK' /\ CreateInv'
    <3>1. /\ mpc' \in {"create", "join"} /\ idx' \in Thread
          /\ mpc' = "create" => idx' = idx + 1
      BY <1>1, <2>1 DEF Inv, TypeOK, Create, Thread
    <3>2. wpc' \in [Thread -> {"new", "read", "write", "lock", "load", "store", "exit"}]
      BY <1>1, <2>1 DEF Inv, TypeOK, Create
    <3>3. idx' \in 0 .. NumThreads
      BY <3>1 DEF Thread
    <3>4. TypeOK'
      BY <1>1, <3>1, <3>2, <3>3 DEF Inv, TypeOK, Create, counters
    <3>5. CreateInv'
      BY <1>1, <2>1, <3>1 DEF Inv, TypeOK, CreateInv, Create, Thread
    <3>6. QED
      BY <3>4, <3>5
  <2>3. LockInv' /\ LoopInv' /\ NoStaleSafeUpdate'
    BY <1>1, <2>1 DEF Inv, TypeOK, LockInv, LoopInv, NoStaleSafeUpdate, Inside,
                      Create, counters
  <2>4. QED
    BY <2>2, <2>3 DEF Inv
<1>2. CASE Join
  <2>1. idx' = idx + 1 /\ mpc' = IF idx + 1 < NumThreads THEN "join" ELSE "report"
    BY <1>2 DEF Join, MoreToJoin, NextThread
  <2>2. idx \in 0 .. NumThreads - 1
    BY <1>2 DEF Inv, TypeOK, Join, Thread
  <2>3. idx' \in 0 .. NumThreads /\ (mpc' # "report" => idx' \in Thread)
    BY <2>1, <2>2 DEF Thread
  <2>4. TypeOK' /\ CreateInv'
    BY <1>2, <2>1, <2>3 DEF Inv, TypeOK, CreateInv, Join, counters, worker
  <2>5. LockInv' /\ LoopInv' /\ NoStaleSafeUpdate'
    BY <1>2 DEF Inv, LockInv, LoopInv, NoStaleSafeUpdate, Join, counters, worker
  <2>6. QED
    BY <2>4, <2>5 DEF Inv
<1>3. QED
  BY <1>1, <1>2

\* Every memory access of a worker.  Only StoreSafe moves the safe counter, and
\* by the mutex no other thread is then between its load and its store.
LEMMA WorkerPreservesInv ==
  ASSUME Inv, NEW t \in Thread, WorkerStep(t)
  PROVE  Inv'
<1> USE NumThreadsAssumption, IncrementsAssumption
<1>0. CreateInv'
  BY DEF Inv, TypeOK, CreateInv, WorkerStep, ReadUnsafe, WriteUnsafe, Lock,
         LoadSafe, StoreSafe, main, Thread
<1>1. CASE ReadUnsafe(t)
  BY <1>0, <1>1 DEF Inv, TypeOK, LockInv, LoopInv, NoStaleSafeUpdate, Inside,
                    ReadUnsafe, counters, main
<1>2. CASE WriteUnsafe(t)
  BY <1>0, <1>2 DEF Inv, TypeOK, LockInv, LoopInv, NoStaleSafeUpdate, Inside,
                    WriteUnsafe, PlusOne, main
<1>3. CASE Lock(t)
  BY <1>0, <1>3 DEF Inv, TypeOK, LockInv, LoopInv, NoStaleSafeUpdate, Inside,
                    Lock, LockIsFree, NoOne, Thread, counters, main
<1>4. CASE LoadSafe(t)
  BY <1>0, <1>4 DEF Inv, TypeOK, LockInv, LoopInv, NoStaleSafeUpdate, Inside,
                    LoadSafe, counters, main
<1>5. CASE StoreSafe(t)
  <2>1. TypeOK' /\ LoopInv'
    BY <1>5 DEF Inv, TypeOK, LoopInv, StoreSafe, MoreToDo, NoOne, Thread, main
  <2>2. \A u \in Thread : u # t => wpc[u] \notin Inside
    BY <1>5 DEF Inv, LockInv, StoreSafe, Inside
  <2>3. LockInv' /\ NoStaleSafeUpdate'
    BY <1>5, <2>2 DEF Inv, TypeOK, LockInv, NoStaleSafeUpdate, StoreSafe, Inside,
                      NoOne, Thread
  <2>4. QED
    BY <1>0, <2>1, <2>3 DEF Inv
<1>6. QED
  BY <1>1, <1>2, <1>3, <1>4, <1>5 DEF WorkerStep

\* The invariant holds in every reachable state.
THEOREM Invariance == Spec => []Inv
<1>1. Inv /\ [Next]_vars => Inv'
  <2>1. Inv /\ Finished => Inv'
    BY DEF Inv, TypeOK, LockInv, LoopInv, CreateInv, NoStaleSafeUpdate, Finished,
           vars, counters, worker, main
  <2>2. Inv /\ UNCHANGED vars => Inv'
    BY DEF Inv, TypeOK, LockInv, LoopInv, CreateInv, NoStaleSafeUpdate,
           vars, counters, worker, main
  <2>3. QED
    BY <2>1, <2>2, MainPreservesInv, WorkerPreservesInv DEF Next
<1>2. QED
  BY InitInv, <1>1, PTL DEF Spec

\* Type correctness: in particular no thread runs its loop once too often and
\* main never joins a thread outside its array.
THEOREM TypeCorrect == Spec => []TypeOK
<1>1. Inv => TypeOK
  BY DEF Inv
<1>2. QED
  BY Invariance, <1>1, PTL

\* The mutex makes shared_counter_safe++ atomic: what a thread is about to store
\* is one more than the value of the counter at that moment.
THEOREM NoStaleSafeUpdateCorrect == Spec => []NoStaleSafeUpdate
<1>1. Inv => NoStaleSafeUpdate
  BY DEF Inv
<1>2. QED
  BY Invariance, <1>1, PTL

-----------------------------------------------------------------------------
(* The values of the counters.  An increment is a pair <<t, k>>: the k-th  *)
(* pass of thread t through its loop.                                      *)

Increment == Thread \X (0 .. IncrementsPerThread - 1)

\* The increments of the safe counter that have been stored.
Stored == {x \in Increment : x[2] < i[x[1]]}

\* Where counter_worker has written the unsafe counter in the current pass.
Wrote == {"lock", "load", "store"}

\* The increments of the unsafe counter that have been written.
Written == {x \in Increment : \/ x[2] < i[x[1]]
                              \/ x[2] = i[x[1]] /\ wpc[x[1]] \in Wrote}

\* A thread that is done has gone round its loop as often as it should, and
\* main has waited for the threads it has joined.
DoneInv ==
  /\ \A t \in Thread : wpc[t] = "exit" => i[t] = IncrementsPerThread
  /\ mpc = "join" => \A t \in Thread : t < idx => wpc[t] = "exit"
  /\ mpc = "report" => \A t \in Thread : wpc[t] = "exit"

\* The safe counter counts the increments stored.
SafeInv == shared_counter_safe = Cardinality(Stored)

\* The unsafe counter, and what a thread has read of it, is at most the number
\* of increments written.
UpperInv ==
  /\ shared_counter_unsafe <= Cardinality(Written)
  /\ \A t \in Thread : wpc[t] = "write" => temp[t] <= Cardinality(Written)

\* The last increment of t is written.
LastWritten(t) ==
  wpc[t] = "exit" \/ (i[t] = IncrementsPerThread - 1 /\ wpc[t] \in Wrote)

\* From the first write on the counter is at least 1, so a thread's later
\* increments start from at least 1; when everybody has written its last one,
\* the counter is what one of those made it.
LowerInv ==
  /\ \A t \in Thread : i[t] > 0 \/ wpc[t] \in Wrote => shared_counter_unsafe >= 1
  /\ \A t \in Thread : wpc[t] = "write" /\ i[t] > 0 => temp[t] >= 1
  /\ IncrementsPerThread > 1 /\ (\A t \in Thread : LastWritten(t)) => shared_counter_unsafe >= 2

\* With one thread there is nobody to race with.
AloneInv ==
  NumThreads = 1 =>
    /\ shared_counter_unsafe = i[0] + (IF wpc[0] \in Wrote THEN 1 ELSE 0)
    /\ wpc[0] = "write" => temp[0] = i[0]

ValueInv == DoneInv /\ SafeInv /\ UpperInv /\ LowerInv /\ AloneInv

\* There are Expected increments.
LEMMA CountIncrements ==
  /\ IsFiniteSet(Increment) /\ Cardinality(Increment) = Expected
  /\ \A S \in SUBSET Increment :
       /\ IsFiniteSet(S) /\ Cardinality(S) \in Nat /\ Cardinality(S) <= Expected
<1> USE NumThreadsAssumption, IncrementsAssumption
<1>1. /\ IsFiniteSet(Thread) /\ Cardinality(Thread) = NumThreads
      /\ IsFiniteSet(0 .. IncrementsPerThread - 1)
      /\ Cardinality(0 .. IncrementsPerThread - 1) = IncrementsPerThread
  BY FS_Interval DEF Thread
<1>2. IsFiniteSet(Increment) /\ Cardinality(Increment) = Expected
  BY <1>1, FS_Product DEF Increment, Expected
<1>3. QED
  BY <1>2, FS_Subset, FS_CardinalityType

\* Nothing has been counted when main starts.
LEMMA ValueInit == Init => ValueInv
<1> SUFFICES ASSUME Init PROVE ValueInv
  OBVIOUS
<1> USE NumThreadsAssumption, IncrementsAssumption
<1>1. Stored = {} /\ Written = {}
  BY DEF Init, Stored, Written, Wrote, Increment
<1>2. SafeInv /\ UpperInv
  BY <1>1, FS_EmptySet DEF Init, SafeInv, UpperInv
<1>3. DoneInv /\ LowerInv /\ AloneInv
  BY DEF Init, DoneInv, LowerInv, LastWritten, AloneInv, Wrote, Thread
<1>4. QED
  BY <1>2, <1>3 DEF ValueInv

\* main does not touch the counters, and starts its report when it has joined
\* the last thread.
LEMMA MainPreservesValues ==
  ASSUME Inv, ValueInv, Create \/ Join
  PROVE  ValueInv'
<1> USE NumThreadsAssumption, IncrementsAssumption
<1>1. CASE Create
  <2>1. /\ idx \in Thread /\ wpc[idx] = "new" /\ wpc' = [wpc EXCEPT ![idx] = "read"]
        /\ UNCHANGED <<counters, i, temp>> /\ mpc' # "report"
        /\ mpc' = "join" => idx' = 0
    BY <1>1 DEF Inv, TypeOK, CreateInv, Create, Thread
  <2>2. Stored' = Stored /\ Written' = Written
    BY <2>1 DEF Inv, TypeOK, Stored, Written, Wrote, Increment
  <2>3. SafeInv' /\ UpperInv'
    BY <2>1, <2>2 DEF Inv, TypeOK, ValueInv, SafeInv, UpperInv, counters
  <2>4. DoneInv'
    BY <2>1 DEF Inv, TypeOK, ValueInv, DoneInv, Thread
  <2>5. LowerInv'
    <3>1. \A t \in Thread : wpc'[t] \in Wrote \cup {"write", "exit"} => wpc'[t] = wpc[t]
      BY <2>1 DEF Inv, TypeOK, Wrote
    <3>2. \A t \in Thread : LastWritten(t)' => LastWritten(t)
      BY <2>1, <3>1 DEF LastWritten
    <3>3. QED
      BY <2>1, <3>1, <3>2 DEF ValueInv, LowerInv, counters
  <2>6. AloneInv'
    BY <2>1 DEF Inv, TypeOK, ValueInv, AloneInv, Wrote, counters, Thread
  <2>7. QED
    BY <2>3, <2>4, <2>5, <2>6 DEF ValueInv
<1>2. CASE Join
  <2>1. /\ idx' = idx + 1 /\ mpc = "join" /\ wpc[idx] = "exit" /\ idx \in Thread
        /\ mpc' = IF idx + 1 < NumThreads THEN "join" ELSE "report"
        /\ UNCHANGED <<counters, wpc, i, temp>>
    BY <1>2 DEF Inv, TypeOK, Join, MoreToJoin, NextThread, worker
  <2>2. Stored' = Stored /\ Written' = Written
    BY <2>1 DEF Stored, Written
  <2>3. SafeInv' /\ UpperInv' /\ LowerInv' /\ AloneInv'
    BY <2>1, <2>2 DEF ValueInv, SafeInv, UpperInv, LowerInv, LastWritten, AloneInv, counters
  <2>4. DoneInv'
    BY <2>1 DEF ValueInv, DoneInv, Thread
  <2>5. QED
    BY <2>3, <2>4 DEF ValueInv
<1>3. QED
  BY <1>1, <1>2

\* The accesses that change neither counter: the reads and the lock.
LEMMA ReadsPreserveValues ==
  ASSUME Inv, ValueInv, NEW t \in Thread, ReadUnsafe(t) \/ Lock(t) \/ LoadSafe(t)
  PROVE  ValueInv'
<1> USE NumThreadsAssumption, IncrementsAssumption
<1>1. /\ UNCHANGED <<counters, i, main>>
      /\ \/ wpc[t] = "read" /\ wpc' = [wpc EXCEPT ![t] = "write"]
            /\ temp' = [temp EXCEPT ![t] = shared_counter_unsafe]
         \/ /\ wpc[t] \in Wrote /\ UNCHANGED temp
            /\ \E w \in Wrote : wpc' = [wpc EXCEPT ![t] = w]
  BY DEF ReadUnsafe, Lock, LoadSafe, Wrote
<1>2. Stored' = Stored /\ Written' = Written
  BY <1>1 DEF Inv, TypeOK, Stored, Written, Wrote, Increment
<1>3. SafeInv' /\ UpperInv'
  BY <1>1, <1>2 DEF Inv, TypeOK, ValueInv, SafeInv, UpperInv, Wrote, counters
<1>4. DoneInv'
  BY <1>1 DEF Inv, TypeOK, ValueInv, DoneInv, Wrote, main
<1>5. LowerInv'
  <2>1. \A u \in Thread :
          /\ wpc'[u] \in Wrote <=> wpc[u] \in Wrote
          /\ wpc'[u] = "exit" => wpc[u] = "exit"
          /\ wpc'[u] = "write" => \/ wpc[u] = "write" /\ temp'[u] = temp[u]
                                  \/ temp'[u] = shared_counter_unsafe
    BY <1>1 DEF Inv, TypeOK, Wrote
  <2>2. \A u \in Thread : LastWritten(u)' => LastWritten(u)
    BY <1>1, <2>1 DEF LastWritten
  <2>3. QED
    BY <1>1, <2>1, <2>2 DEF ValueInv, LowerInv, counters
<1>6. AloneInv'
  BY <1>1 DEF Inv, TypeOK, ValueInv, AloneInv, Wrote, counters, Thread
<1>7. QED
  BY <1>3, <1>4, <1>5, <1>6 DEF ValueInv

\* The write of the unsafe counter, however stale: it adds one increment.
LEMMA WritePreservesValues ==
  ASSUME Inv, ValueInv, NEW t \in Thread, WriteUnsafe(t)
  PROVE  ValueInv'
<1> USE NumThreadsAssumption, IncrementsAssumption
<1>1. /\ wpc[t] = "write" /\ wpc' = [wpc EXCEPT ![t] = "lock"]
      /\ temp' = [temp EXCEPT ![t] = @ + 1]
      /\ shared_counter_unsafe' = temp[t] + 1
      /\ UNCHANGED <<shared_counter_safe, i, main>>
  BY DEF WriteUnsafe, PlusOne
<1>2. i[t] \in 0 .. IncrementsPerThread - 1
  BY <1>1 DEF Inv, TypeOK, LoopInv
<1>3. Stored' = Stored
  BY <1>1 DEF Stored
<1>4. <<t, i[t]>> \in Increment \ Written /\ Written' = Written \cup {<<t, i[t]>>}
  <2>1. <<t, i[t]>> \in Increment \ Written
    BY <1>1, <1>2 DEF Written, Wrote, Increment
  <2>2. ASSUME NEW x \in Increment
        PROVE  x \in Written' <=> x \in Written \/ x = <<t, i[t]>>
    <3>1. x = <<x[1], x[2]>> /\ x[1] \in Thread
      BY DEF Increment
    <3>2. CASE x[1] # t
      BY <1>1, <3>1, <3>2 DEF Inv, TypeOK, Written
    <3>3. CASE x[1] = t
      BY <1>1, <3>1, <3>3 DEF Inv, TypeOK, Written, Wrote
    <3>4. QED
      BY <3>2, <3>3
  <2>3. Written' \subseteq Increment /\ Written \subseteq Increment
    BY DEF Written, Increment
  <2>4. QED
    BY <2>1, <2>2, <2>3
<1>5. Cardinality(Written') = Cardinality(Written) + 1 /\ Cardinality(Written) \in Nat
  <2>1. IsFiniteSet(Written) /\ Cardinality(Written) \in Nat
    BY CountIncrements DEF Written
  <2>2. QED
    BY <1>4, <2>1, FS_AddElement
<1>6. UpperInv'
  BY <1>1, <1>5 DEF Inv, TypeOK, ValueInv, UpperInv
<1>7. SafeInv' /\ DoneInv'
  BY <1>1, <1>3 DEF Inv, TypeOK, ValueInv, SafeInv, DoneInv, main
<1>8. LowerInv'
  <2>1. temp[t] \in Nat /\ (i[t] > 0 => temp[t] >= 1)
    BY <1>1 DEF Inv, TypeOK, ValueInv, LowerInv
  <2>2. (\A u \in Thread : LastWritten(u)') => i[t] = IncrementsPerThread - 1
    BY <1>1 DEF Inv, TypeOK, LastWritten
  <2>3. \A u \in Thread : wpc'[u] = "write" => wpc[u] = "write" /\ temp'[u] = temp[u]
    BY <1>1 DEF Inv, TypeOK
  <2>4. shared_counter_unsafe' >= 1 /\ (i[t] > 0 => shared_counter_unsafe' >= 2)
    BY <1>1, <2>1
  <2>5. QED
    BY <1>1, <1>2, <2>2, <2>3, <2>4 DEF Inv, TypeOK, ValueInv, LowerInv
<1>9. AloneInv'
  BY <1>1 DEF Inv, TypeOK, ValueInv, AloneInv, Wrote, Thread
<1>10. QED
  BY <1>6, <1>7, <1>8, <1>9 DEF ValueInv

\* The store of the safe counter: the value loaded is not stale, so it too adds
\* one increment.
LEMMA StorePreservesValues ==
  ASSUME Inv, ValueInv, NEW t \in Thread, StoreSafe(t)
  PROVE  ValueInv'
<1> USE NumThreadsAssumption, IncrementsAssumption
<1>1. /\ wpc[t] = "store" /\ i' = [i EXCEPT ![t] = @ + 1]
      /\ shared_counter_safe' = shared_counter_safe + 1
      /\ wpc' = [wpc EXCEPT ![t] = IF i[t] + 1 < IncrementsPerThread THEN "read" ELSE "exit"]
      /\ UNCHANGED <<shared_counter_unsafe, temp, main>>
  BY DEF Inv, NoStaleSafeUpdate, StoreSafe, MoreToDo
<1>2. i[t] \in 0 .. IncrementsPerThread - 1
  BY <1>1 DEF Inv, TypeOK, LoopInv
<1>3. <<t, i[t]>> \in Increment \ Stored /\ Stored' = Stored \cup {<<t, i[t]>>}
  <2>1. <<t, i[t]>> \in Increment \ Stored
    BY <1>2 DEF Stored, Increment
  <2>2. ASSUME NEW x \in Increment
        PROVE  x \in Stored' <=> x \in Stored \/ x = <<t, i[t]>>
    <3>1. x = <<x[1], x[2]>> /\ x[1] \in Thread /\ x[2] \in Int
      BY DEF Increment
    <3>2. CASE x[1] # t
      BY <1>1, <3>1, <3>2 DEF Inv, TypeOK, Stored
    <3>3. CASE x[1] = t
      BY <1>1, <1>2, <3>1, <3>3 DEF Inv, TypeOK, Stored
    <3>4. QED
      BY <3>2, <3>3
  <2>3. Stored' \subseteq Increment /\ Stored \subseteq Increment
    BY DEF Stored, Increment
  <2>4. QED
    BY <2>1, <2>2, <2>3
<1>4. Written' = Written
  <2>1. ASSUME NEW x \in Increment PROVE x \in Written' <=> x \in Written
    <3>1. x[1] \in Thread /\ x[2] \in Int
      BY DEF Increment
    <3>2. CASE x[1] # t
      BY <1>1, <3>1, <3>2 DEF Inv, TypeOK, Written
    <3>3. CASE x[1] = t
      BY <1>1, <1>2, <3>1, <3>3 DEF Inv, TypeOK, Written, Wrote
    <3>4. QED
      BY <3>2, <3>3
  <2>2. Written' \subseteq Increment /\ Written \subseteq Increment
    BY DEF Written, Increment
  <2>3. QED
    BY <2>1, <2>2
<1>5. SafeInv'
  <2>1. IsFiniteSet(Stored)
    BY CountIncrements DEF Stored
  <2>2. QED
    BY <1>1, <1>3, <2>1, FS_AddElement DEF ValueInv, SafeInv
<1>6. UpperInv'
  BY <1>1, <1>4 DEF Inv, TypeOK, ValueInv, UpperInv
<1>7. DoneInv'
  BY <1>1, <1>2 DEF Inv, TypeOK, ValueInv, DoneInv, main
<1>8. LowerInv'
  <2>1. shared_counter_unsafe >= 1
    BY <1>1 DEF ValueInv, LowerInv, Wrote
  <2>2. \A u \in Thread : LastWritten(u)' => LastWritten(u)
    BY <1>1, <1>2 DEF Inv, TypeOK, LastWritten, Wrote
  <2>3. \A u \in Thread : wpc'[u] = "write" => wpc[u] = "write" /\ i'[u] = i[u]
    BY <1>1 DEF Inv, TypeOK
  <2>4. QED
    BY <1>1, <2>1, <2>2, <2>3 DEF ValueInv, LowerInv
<1>9. AloneInv'
  BY <1>1, <1>2 DEF Inv, TypeOK, ValueInv, AloneInv, Wrote, Thread
<1>10. QED
  BY <1>5, <1>6, <1>7, <1>8, <1>9 DEF ValueInv

\* The counters are accounted for in every reachable state.
THEOREM ValueInvariance == Spec => []ValueInv
<1>1. Inv /\ ValueInv /\ [Next]_vars => ValueInv'
  <2> SUFFICES ASSUME Inv, ValueInv, [Next]_vars PROVE ValueInv'
    OBVIOUS
  <2>1. CASE UNCHANGED vars
    <3>1. Stored' = Stored /\ Written' = Written
      BY <2>1 DEF vars, worker, Stored, Written
    <3>2. QED
      BY <2>1, <3>1 DEF vars, counters, worker, main, ValueInv, DoneInv, SafeInv,
                        UpperInv, LowerInv, LastWritten, AloneInv
  <2>2. CASE Create \/ Join
    BY <2>2, MainPreservesValues
  <2>3. ASSUME NEW t \in Thread, WorkerStep(t) PROVE ValueInv'
    BY <2>3, ReadsPreserveValues, WritePreservesValues, StorePreservesValues DEF WorkerStep
  <2>4. QED
    BY <2>1, <2>2, <2>3 DEF Next, Finished
<1>2. QED
  BY ValueInit, <1>1, Invariance, PTL DEF Spec

\* main's report: every increment is stored and written.
LEMMA AllCounted ==
  Inv /\ ValueInv /\ mpc = "report" => Stored = Increment /\ Written = Increment
<1> SUFFICES ASSUME Inv, ValueInv, mpc = "report" PROVE Stored = Increment /\ Written = Increment
  OBVIOUS
<1>1. \A t \in Thread : i[t] = IncrementsPerThread
  BY DEF ValueInv, DoneInv
<1>2. \A x \in Increment : x[2] < i[x[1]]
  BY <1>1, IncrementsAssumption DEF Increment
<1>3. QED
  BY <1>2 DEF Stored, Written

\* The report says that the counter behind the mutex is as expected.
THEOREM SafeMatchesExpectedCorrect == Spec => []SafeMatchesExpected
<1>1. Inv /\ ValueInv => SafeMatchesExpected
  BY AllCounted, CountIncrements DEF SafeMatchesExpected, ValueInv, SafeInv
<1>2. QED
  BY <1>1, Invariance, ValueInvariance, PTL

\* The lost updates the report prints for the other counter: never a negative
\* number, and never more than all but two of the increments.
THEOREM UnsafeWithinBoundsCorrect == Spec => []UnsafeWithinBounds
<1>1. Inv /\ ValueInv => UnsafeWithinBounds
  <2> SUFFICES ASSUME Inv, ValueInv, mpc = "report"
               PROVE  shared_counter_unsafe \in LeastUnsafe .. Expected
    BY DEF UnsafeWithinBounds
  <2> USE NumThreadsAssumption, IncrementsAssumption
  <2>1. shared_counter_unsafe \in Nat /\ shared_counter_unsafe <= Expected
    BY AllCounted, CountIncrements DEF Inv, TypeOK, ValueInv, UpperInv
  <2>2. \A t \in Thread : wpc[t] = "exit" /\ i[t] = IncrementsPerThread
    BY DEF ValueInv, DoneInv
  <2>3. 0 \in Thread
    BY DEF Thread
  <2>4. shared_counter_unsafe >= LeastUnsafe
    <3>1. CASE NumThreads = 1
      BY <2>2, <2>3, <3>1 DEF ValueInv, AloneInv, LeastUnsafe, Wrote
    <3>2. CASE NumThreads # 1
      BY <2>2, <2>3, <3>2 DEF ValueInv, LowerInv, LastWritten, LeastUnsafe
    <3>3. QED
      BY <3>1, <3>2
  <2>5. Expected \in Int /\ LeastUnsafe \in Int
    BY DEF Expected, LeastUnsafe
  <2>6. QED
    BY <2>1, <2>4, <2>5
<1>2. QED
  BY <1>1, Invariance, ValueInvariance, PTL

=============================================================================
