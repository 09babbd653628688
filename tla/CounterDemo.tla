----------------------------- MODULE CounterDemo -----------------------------
(***************************************************************************)
(* The race-condition demo at the end of task1_process_threading/          *)
(* scheduler.c: main creates NumThreads threads that run counter_worker,   *)
(* joins them and compares two shared counters with the expected value.    *)
(* The unsafe counter is read, then (after sched_yield) written; a read or *)
(* a write of a long is one memory access on the machines the program is   *)
(* built for, so the data race is exactly the order of those accesses.     *)
(***************************************************************************)
EXTENDS Integers

CONSTANTS
  NumThreads,             \* NUM_PROCESSES
  IncrementsPerThread     \* INCREMENTS_PER_THREAD

ASSUME NumThreadsAssumption == NumThreads \in Nat \ {0}
ASSUME IncrementsAssumption == IncrementsPerThread \in Nat \ {0}

Thread == 0 .. NumThreads - 1
NoOne  == -1

VARIABLES
  shared_counter_unsafe, shared_counter_safe,
  pcb_lock,               \* the holder of the mutex the scheduler used too
  wpc, i, temp,           \* counter_worker: where it is, loop index, local
  reg,                    \* what `shared_counter_safe++` has loaded
  mpc, idx                \* main: where it is, loop index

counters == <<shared_counter_unsafe, shared_counter_safe>>
worker   == <<wpc, i, temp, reg>>
main     == <<mpc, idx>>
vars     == <<counters, pcb_lock, worker, main>>

Expected == NumThreads * IncrementsPerThread

-----------------------------------------------------------------------------
Init ==
  /\ shared_counter_unsafe = 0
  /\ shared_counter_safe = 0
  /\ pcb_lock = NoOne
  /\ wpc = [t \in Thread |-> "new"]
  /\ i = [t \in Thread |-> 0]
  /\ temp = [t \in Thread |-> 0]
  /\ reg = [t \in Thread |-> 0]
  /\ mpc = "create"
  /\ idx = 0

\* pthread_create, then the join loop once every thread is created.
Create ==
  /\ mpc = "create"
  /\ wpc' = [wpc EXCEPT ![idx] = "read"]
  /\ IF idx + 1 < NumThreads
       THEN idx' = idx + 1 /\ UNCHANGED mpc
       ELSE idx' = 0 /\ mpc' = "join"
  /\ UNCHANGED <<counters, pcb_lock, i, temp, reg>>

\* A main that reports without joining its last thread.
AllButLast(n) == n < NumThreads - 1
MoreToJoin(n) == n < NumThreads

\* A join loop that does not advance its index.
SameThread(n) == n
NextThread(n) == n + 1

\* pthread_join, then the report.
Join ==
  /\ mpc = "join"
  /\ wpc[idx] = "exit"
  /\ idx' = NextThread(idx)
  /\ mpc' = IF MoreToJoin(idx') THEN "join" ELSE "report"
  /\ UNCHANGED <<counters, pcb_lock, worker>>

\* long temp = shared_counter_unsafe; sched_yield();
ReadUnsafe(t) ==
  /\ wpc[t] = "read"
  /\ temp' = [temp EXCEPT ![t] = shared_counter_unsafe]
  /\ wpc' = [wpc EXCEPT ![t] = "write"]
  /\ UNCHANGED <<counters, pcb_lock, i, reg, main>>

\* An increment that counts twice.
PlusTwo(n) == n + 2
PlusOne(n) == n + 1

\* temp = temp + 1; shared_counter_unsafe = temp;
WriteUnsafe(t) ==
  /\ wpc[t] = "write"
  /\ temp' = [temp EXCEPT ![t] = PlusOne(@)]
  /\ shared_counter_unsafe' = PlusOne(temp[t])
  /\ wpc' = [wpc EXCEPT ![t] = "lock"]
  /\ UNCHANGED <<shared_counter_safe, pcb_lock, i, reg, main>>

\* Entering the critical section without the mutex being free.
LockIgnored == TRUE
LockIsFree == pcb_lock = NoOne

\* pthread_mutex_lock(&pcb_lock)
Lock(t) ==
  /\ wpc[t] = "lock"
  /\ LockIsFree
  /\ pcb_lock' = t
  /\ wpc' = [wpc EXCEPT ![t] = "load"]
  /\ UNCHANGED <<counters, i, temp, reg, main>>

\* The load of shared_counter_safe++.
LoadSafe(t) ==
  /\ wpc[t] = "load"
  /\ reg' = [reg EXCEPT ![t] = shared_counter_safe]
  /\ wpc' = [wpc EXCEPT ![t] = "store"]
  /\ UNCHANGED <<counters, pcb_lock, i, temp, main>>

\* A loop that runs while i <= INCREMENTS_PER_THREAD.
OneMore(n) == n <= IncrementsPerThread
MoreToDo(n) == n < IncrementsPerThread

\* The store, pthread_mutex_unlock, and the loop test.
StoreSafe(t) ==
  /\ wpc[t] = "store"
  /\ shared_counter_safe' = reg[t] + 1
  /\ pcb_lock' = NoOne
  /\ i' = [i EXCEPT ![t] = @ + 1]
  /\ wpc' = [wpc EXCEPT ![t] = IF MoreToDo(i[t] + 1) THEN "read" ELSE "exit"]
  /\ UNCHANGED <<shared_counter_unsafe, temp, reg, main>>

WorkerStep(t) ==
  \/ ReadUnsafe(t) \/ WriteUnsafe(t)
  \/ Lock(t) \/ LoadSafe(t) \/ StoreSafe(t)

\* main has printed its report and returned.
Finished ==
  /\ mpc = "report"
  /\ UNCHANGED vars

Next == Create \/ Join \/ (\E t \in Thread : WorkerStep(t)) \/ Finished

Spec == Init /\ [][Next]_vars

\* Every thread that is not blocked keeps running.
FairSpec == Spec /\ WF_vars(Create \/ Join) /\ \A t \in Thread : WF_vars(WorkerStep(t))

-----------------------------------------------------------------------------
(* Correctness.                                                            *)

\* Every variable has its type, no thread goes round its loop more than
\* INCREMENTS_PER_THREAD times, and main subscripts its array in range.
TypeOK ==
  /\ shared_counter_unsafe \in Nat
  /\ shared_counter_safe \in Nat
  /\ pcb_lock \in Thread \cup {NoOne}
  /\ wpc \in [Thread -> {"new", "read", "write", "lock", "load", "store", "exit"}]
  /\ i \in [Thread -> 0 .. IncrementsPerThread]
  /\ temp \in [Thread -> Nat]
  /\ reg \in [Thread -> Nat]
  /\ mpc \in {"create", "join", "report"}
  /\ idx \in 0 .. NumThreads
  /\ mpc # "report" => idx \in Thread

\* No increment of the safe counter is based on a stale read: between the
\* load and the store of one thread no other thread stores.
NoStaleSafeUpdate ==
  \A t \in Thread : wpc[t] = "store" => reg[t] = shared_counter_safe

\* "always correct, no interleaving possible": main's report of the safe
\* counter says it matches the expected value.
SafeMatchesExpected == mpc = "report" => shared_counter_safe = Expected

\* The least value the unsafe counter can end with.  One thread alone loses
\* nothing; otherwise the last write of all is at least the first or second
\* increment of its thread on top of a read that is not older than it.
LeastUnsafe ==
  IF NumThreads = 1 THEN IncrementsPerThread
  ELSE IF IncrementsPerThread = 1 THEN 1 ELSE 2

\* The "lost updates" main prints are never negative, and however badly the
\* threads interleave the unsafe counter does not end below LeastUnsafe.
UnsafeWithinBounds ==
  mpc = "report" => shared_counter_unsafe \in LeastUnsafe .. Expected

\* All the workers exit and main reports.
Reports == <>(mpc = "report")

=============================================================================
