--------------------------- MODULE DeadlockProofs ---------------------------
(***************************************************************************)
(* The claims of deadlock_demo.c about its two builds, for any number of   *)
(* threads and any mix of the two thread functions.                        *)
(***************************************************************************)
EXTENDS DeadlockDemo, TLAPS

USE NumThreadsAssumption, RunsBAssumption

\* A thread's position says which mutexes it holds.
HolderInv ==
  \A t \in Thread :
    /\ holder[First(t)] = t <=> tpc[t] \in {"lock_second", "unlock_second", "unlock_first"}
    /\ holder[Second(t)] = t <=> tpc[t] = "unlock_second"

\* Threads that main has not created yet have not started.
CreateInv == mpc = "create" => \A t \in Thread : t >= idx => tpc[t] = "new"

\* The inductive invariant.
Inv == TypeOK /\ HolderInv /\ CreateInv

\* The mutexes of the program are two different ones.
LEMMA MutexTypes ==
  \A t \in Thread : /\ First(t) \in Mutex /\ Second(t) \in Mutex
                    /\ First(t) # Second(t)
  BY DEF First, Second, Mutex

\* A step of main never touches a mutex, and a thread it creates holds none.
LEMMA MainPreserves ==
  ASSUME Inv, Create \/ Join
  PROVE  Inv'
  <1>1. TypeOK'
    BY DEF Inv, TypeOK, Create, Join, Thread
  <1>2. HolderInv'
    <2>1. CASE Join
      BY <2>1 DEF Inv, Join, HolderInv, First, Second
    <2>2. CASE Create
      <3>1. tpc[idx] = "new" /\ idx \in Thread
        BY <2>2 DEF Inv, Create, CreateInv, TypeOK, Thread
      <3>2. QED
        BY <2>2, <3>1 DEF Inv, Create, HolderInv, First, Second, TypeOK
    <2>3. QED
      BY <2>1, <2>2
  <1>3. CreateInv'
    BY DEF Inv, TypeOK, CreateInv, Create, Join, Thread
  <1>4. QED
    BY <1>1, <1>2, <1>3 DEF Inv

\* A thread takes only a mutex that is free and releases only its own.
LEMMA ThreadPreserves ==
  ASSUME NEW t \in Thread, Inv, ThreadStep(t)
  PROVE  Inv'
  <1>1. demo_unsafe' = demo_unsafe
    BY DEF ThreadStep, LockFirst, IsFree, LockSecond, UnlockSecond, UnlockFirst, Released
  <1>2. \A u \in Thread : First(u)' = First(u) /\ Second(u)' = Second(u)
    BY <1>1 DEF First, Second
  <1>3. NoOne \notin Thread
    BY DEF NoOne, Thread
  <1>4. TypeOK'
    BY MutexTypes DEF Inv, TypeOK, ThreadStep, LockFirst, IsFree, LockSecond, UnlockSecond,
                      UnlockFirst, Released
  <1>5. HolderInv'
    <2> SUFFICES ASSUME NEW u \in Thread
                 PROVE  /\ holder'[First(u)] = u <=>
                             tpc'[u] \in {"lock_second", "unlock_second", "unlock_first"}
                        /\ holder'[Second(u)] = u <=> tpc'[u] = "unlock_second"
      BY <1>2 DEF HolderInv
    <2> USE <1>3, MutexTypes DEF Inv, TypeOK, HolderInv
    <2>1. CASE LockFirst(t)
      BY <2>1 DEF LockFirst, IsFree
    <2>2. CASE LockSecond(t)
      BY <2>2 DEF LockSecond, IsFree
    <2>3. CASE UnlockSecond(t)
      BY <2>3 DEF UnlockSecond
    <2>4. CASE UnlockFirst(t)
      BY <2>4 DEF UnlockFirst, Released
    <2>5. QED
      BY <2>1, <2>2, <2>3, <2>4 DEF ThreadStep
  <1>6. CreateInv'
    BY DEF Inv, TypeOK, CreateInv, ThreadStep, LockFirst, IsFree, LockSecond, UnlockSecond,
           UnlockFirst, Released
  <1>7. QED
    BY <1>4, <1>5, <1>6 DEF Inv

\* The invariant holds in every reachable state.
THEOREM Invariance == Spec => []Inv
  <1>1. Init => Inv
    BY MutexTypes DEF Init, Inv, TypeOK, HolderInv, CreateInv, Thread, NoOne
  <1>2. Inv /\ [Next]_vars => Inv'
    <2> SUFFICES ASSUME Inv, [Next]_vars PROVE Inv'
      OBVIOUS
    <2>1. CASE UNCHANGED vars
      BY <2>1 DEF vars, Inv, TypeOK, HolderInv, CreateInv, First, Second
    <2>2. QED
      BY <2>1, MainPreserves, ThreadPreserves DEF Next, Finished
  <1>3. QED
    BY <1>1, <1>2, PTL DEF Spec

\* With one order for all threads there is no circular wait: the thread that
\* holds the second mutex is past both of its locks.
THEOREM SafeBuildCorrect == Spec => []SafeBuildNeverCircular
  <1>1. Inv => SafeBuildNeverCircular
    <2> SUFFICES ASSUME Inv, ~demo_unsafe,
                        NEW a \in Thread, NEW b \in Thread,
                        tpc[a] = "lock_second", holder[Second(a)] = b,
                        tpc[b] = "lock_second"
                 PROVE  FALSE
      BY DEF SafeBuildNeverCircular, CircularWait
    <2>1. Second(a) = Second(b)
      BY DEF First, Second
    <2>2. QED
      BY <2>1 DEF Inv, HolderInv
  <1>2. QED
    BY Invariance, <1>1, PTL

\* Once two threads wait for each other, no step of any thread ends it.
THEOREM DeadlockCorrect == Spec => DeadlockIsForever
  <1>1. Inv /\ [Next]_vars => (CircularWait => CircularWait')
    <2> SUFFICES ASSUME Inv, [Next]_vars,
                        NEW a \in Thread, NEW b \in Thread,
                        tpc[a] = "lock_second", holder[Second(a)] = b,
                        tpc[b] = "lock_second", holder[Second(b)] = a
                 PROVE  CircularWait'
      BY DEF CircularWait
    <2>1. demo_unsafe' = demo_unsafe
      BY DEF Next, Create, Join, ThreadStep, LockFirst, IsFree, LockSecond, UnlockSecond,
             UnlockFirst, Released, Finished, vars
    <2>2. Second(a)' = Second(a) /\ Second(b)' = Second(b)
      BY <2>1 DEF First, Second
    <2>3. /\ tpc'[a] = "lock_second" /\ holder'[Second(a)] = b
          /\ tpc'[b] = "lock_second" /\ holder'[Second(b)] = a
      <3> USE MutexTypes DEF Inv, TypeOK, HolderInv
      <3>1. CASE Create
        <4>1. tpc[idx] = "new" /\ idx \in Thread
          BY <3>1 DEF Create, CreateInv, Thread
        <4>2. QED
          BY <3>1, <4>1 DEF Create
      <3>2. CASE Join \/ UNCHANGED vars
        BY <3>2 DEF Join, vars
      <3>3. ASSUME NEW t \in Thread, ThreadStep(t)
            PROVE  /\ tpc'[a] = "lock_second" /\ holder'[Second(a)] = b
                   /\ tpc'[b] = "lock_second" /\ holder'[Second(b)] = a
        <4>1. NoOne \notin Thread
          BY DEF NoOne, Thread
        <4>2. t # a /\ t # b
          BY <3>3, <4>1 DEF ThreadStep, LockFirst, IsFree, LockSecond, UnlockSecond, UnlockFirst, Released
        <4>3. QED
          BY <3>3, <4>1, <4>2 DEF ThreadStep, LockFirst, IsFree, LockSecond, UnlockSecond, UnlockFirst, Released
      <3>4. QED
        BY <3>1, <3>2, <3>3 DEF Next, Finished
    <2>4. QED
      BY <2>2, <2>3 DEF CircularWait
  <1>2. QED
    BY Invariance, <1>1, PTL DEF Spec, DeadlockIsForever

=============================================================================
