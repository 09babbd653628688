---------------------------- MODULE DeadlockDemo ----------------------------
(***************************************************************************)
(* task1_process_threading/deadlock_demo.c: threads that each take two     *)
(* mutexes, in the order their thread function names them, in both builds  *)
(* of the program.  The program has one thread of each function; here any  *)
(* number of threads run either, so that more than two contend.            *)
(***************************************************************************)
EXTENDS Integers

CONSTANTS
  NumThreads,    \* how many threads main creates (2 in the program)
  RunsB          \* the threads that run thread_b; the others run thread_a

ASSUME NumThreadsAssumption == NumThreads \in Nat \ {0}
ASSUME RunsBAssumption == RunsB \subseteq 0 .. NumThreads - 1

Thread == 0 .. NumThreads - 1
NoOne  == -1
Mutex  == {"resource_1", "resource_2"}

VARIABLES
  demo_unsafe,   \* whether the build defines DEMO_UNSAFE
  holder,        \* the thread that holds each mutex, or NoOne
  tpc,           \* where each thread is
  mpc, idx       \* main: where it is, loop index

vars == <<demo_unsafe, holder, tpc, mpc, idx>>

\* thread_b takes resource_2 first in both builds.
FirstSwapped(t) == IF t \in RunsB THEN "resource_2" ELSE "resource_1"

\* The mutex a thread function takes first, and the one it takes second.
First(t) == IF demo_unsafe /\ t \in RunsB THEN "resource_2" ELSE "resource_1"
Second(t) == IF First(t) = "resource_1" THEN "resource_2" ELSE "resource_1"

-----------------------------------------------------------------------------
Init ==
  /\ demo_unsafe \in BOOLEAN
  /\ holder = [m \in Mutex |-> NoOne]
  /\ tpc = [t \in Thread |-> "new"]
  /\ mpc = "create"
  /\ idx = 0

\* pthread_create
Create ==
  /\ mpc = "create"
  /\ tpc' = [tpc EXCEPT ![idx] = "lock_first"]
  /\ IF idx + 1 < NumThreads
       THEN idx' = idx + 1 /\ UNCHANGED mpc
       ELSE idx' = 0 /\ mpc' = "join"
  /\ UNCHANGED <<demo_unsafe, holder>>

\* pthread_join
Join ==
  /\ mpc = "join"
  /\ tpc[idx] = "exit"
  /\ idx' = idx + 1
  /\ mpc' = IF idx + 1 < NumThreads THEN "join" ELSE "completed"
  /\ UNCHANGED <<demo_unsafe, holder, tpc>>

\* Taking a mutex whoever holds it.
Regardless(m) == TRUE
IsFree(m) == holder[m] = NoOne

\* The first pthread_mutex_lock, up to the end of the sleep after it.
LockFirst(t) ==
  /\ tpc[t] = "lock_first"
  /\ IsFree(First(t))
  /\ holder' = [holder EXCEPT ![First(t)] = t]
  /\ tpc' = [tpc EXCEPT ![t] = "lock_second"]
  /\ UNCHANGED <<demo_unsafe, mpc, idx>>

\* The second pthread_mutex_lock.
LockSecond(t) ==
  /\ tpc[t] = "lock_second"
  /\ IsFree(Second(t))
  /\ holder' = [holder EXCEPT ![Second(t)] = t]
  /\ tpc' = [tpc EXCEPT ![t] = "unlock_second"]
  /\ UNCHANGED <<demo_unsafe, mpc, idx>>

\* pthread_mutex_unlock of the second mutex.
UnlockSecond(t) ==
  /\ tpc[t] = "unlock_second"
  /\ holder' = [holder EXCEPT ![Second(t)] = NoOne]
  /\ tpc' = [tpc EXCEPT ![t] = "unlock_first"]
  /\ UNCHANGED <<demo_unsafe, mpc, idx>>

\* A thread that returns with its first mutex still held.
StillHeld(t) == t
Released(t) == NoOne

\* pthread_mutex_unlock of the first mutex, and return.
UnlockFirst(t) ==
  /\ tpc[t] = "unlock_first"
  /\ holder' = [holder EXCEPT ![First(t)] = Released(t)]
  /\ tpc' = [tpc EXCEPT ![t] = "exit"]
  /\ UNCHANGED <<demo_unsafe, mpc, idx>>

ThreadStep(t) ==
  LockFirst(t) \/ LockSecond(t) \/ UnlockSecond(t) \/ UnlockFirst(t)

\* "Program completed without hanging"
Finished ==
  /\ mpc = "completed"
  /\ UNCHANGED vars

Next == Create \/ Join \/ (\E t \in Thread : ThreadStep(t)) \/ Finished

Spec == Init /\ [][Next]_vars

\* Every thread that is not blocked keeps running.
FairSpec == Spec /\ WF_vars(Create \/ Join) /\ \A t \in Thread : WF_vars(ThreadStep(t))

-----------------------------------------------------------------------------
(* Correctness.                                                            *)

\* Every variable has its type, and main subscripts its array in range.
TypeOK ==
  /\ demo_unsafe \in BOOLEAN
  /\ holder \in [Mutex -> Thread \cup {NoOne}]
  /\ tpc \in [Thread -> {"new", "lock_first", "lock_second", "unlock_second",
                         "unlock_first", "exit"}]
  /\ mpc \in {"create", "join", "completed"}
  /\ idx \in 0 .. NumThreads
  /\ mpc # "completed" => idx \in Thread

\* Two threads that each hold the mutex the other one is waiting for.
CircularWait ==
  \E a, b \in Thread :
    /\ tpc[a] = "lock_second" /\ holder[Second(a)] = b
    /\ tpc[b] = "lock_second" /\ holder[Second(b)] = a

\* The claim of the safe build: with one global lock order "circular wait
\* ... can never happen", however many threads contend.
SafeBuildNeverCircular == ~demo_unsafe => ~CircularWait

\* "each waits forever": no step of any other thread resolves a deadlock.
DeadlockIsForever == [][CircularWait => CircularWait']_vars

\* A circular wait is the only thing that can keep the program from
\* completing; together with SafeBuildNeverCircular, the safe build completes.
CompletesOrDeadlocks == <>(mpc = "completed" \/ CircularWait)

=============================================================================
