--------------------------- MODULE SchedulerProofs ---------------------------
(***************************************************************************)
(* The safety properties of Scheduler for every number of processes, every *)
(* quantum and every workload, and the step simulation by RoundRobin.      *)
(***************************************************************************)
EXTENDS Scheduler, TLAPS

USE NumProcessesAssumption, TimeQuantumAssumption, WorkloadsAssumption

\* The mutex is held exactly inside the critical sections.
LockInv ==
  /\ \A p \in Proc : pcb_lock = p <=> ppc[p] \in {"start", "end"}
  /\ pcb_lock = Main <=> mpc = "read"

\* What a thread's position says about its PCB.
PcbInv ==
  \A p \in Proc :
    /\ ppc[p] \in {"new", "wait", "lock", "start"} => state[p] = "READY"
    /\ ppc[p] \in {"run", "end"} =>
         /\ state[p] = "RUNNING"
         /\ run_time[p] = IF remaining_time[p] < TimeQuantum
                            THEN remaining_time[p] ELSE TimeQuantum
    /\ ppc[p] \in {"post", "loop"} =>
         /\ state[p] \in {"READY", "DONE"}
         /\ just_finished[p] <=> state[p] = "DONE"
    /\ ppc[p] = "exit" => state[p] = "DONE"
    /\ state[p] = "DONE" => remaining_time[p] = 0

\* Threads exist from their creation on, and the loop index is in range
\* wherever it is used as a subscript.
ThreadInv ==
  /\ mpc = "create" =>
       \A p \in Proc : ppc[p] = IF p < idx THEN "wait" ELSE "new"
  /\ mpc # "create" => \A p \in Proc : ppc[p] # "new"
  /\ mpc \in {"read", "decide", "wait"} => idx \in Proc

\* The three places the token can be in during a handoff.
HandoffInv ==
  /\ mpc # "wait" => /\ done_sem = 0
                     /\ \A p \in Proc : turn_sem[p] = 0 /\ ~InSlice(p)
  /\ mpc = "wait" =>
       /\ \A p \in Proc : p # idx => turn_sem[p] = 0 /\ ~InSlice(p)
       /\ \/ /\ turn_sem[idx] = 1 /\ done_sem = 0
             /\ ppc[idx] \in {"wait", "loop"} /\ state[idx] # "DONE"
          \/ turn_sem[idx] = 0 /\ done_sem = 0 /\ InSlice(idx)
          \/ turn_sem[idx] = 0 /\ done_sem = 1 /\ ppc[idx] \in {"wait", "loop", "exit"}

\* What the dispatcher read is still true when it decides, and its count of
\* finished processes is full only if everything it passed is DONE.
CountInv ==
  /\ mpc = "decide" => st = state[idx]
  /\ mpc \in {"for", "read", "decide", "wait"} =>
       /\ finished <= idx
       /\ finished = idx => \A p \in Proc : p < idx => state[p] = "DONE"
  /\ mpc \in {"join", "joined"} => \A p \in Proc : state[p] = "DONE"

\* The inductive invariant behind the handoff.
Inv == TypeOK /\ LockInv /\ PcbInv /\ ThreadInv /\ HandoffInv /\ CountInv

\* main leaves the PCBs and semaphores in a state of the invariant.
LEMMA InitInv == Init => Inv
  <1> SUFFICES ASSUME Init PROVE Inv
    OBVIOUS
  <1> USE DEF Init, Proc, Main, NoOne
  <1>1. TypeOK
    BY DEF TypeOK, ProcessState
  <1>2. LockInv /\ PcbInv /\ ThreadInv /\ HandoffInv /\ CountInv
    BY DEF LockInv, PcbInv, ThreadInv, HandoffInv, CountInv, InSlice
  <1>3. QED
    BY <1>1, <1>2 DEF Inv

\* Every step of main preserves the invariant.
LEMMA MainPreservesInv == Inv /\ MainStep => Inv'
  <1> SUFFICES ASSUME Inv, MainStep PROVE Inv'
    OBVIOUS
  <1> USE DEF Inv, Proc, Main, NoOne, ProcessState, pcb, sync, procs, disp
  <1>1. CASE CreateThread
    <2> USE <1>1 DEF CreateThread
    <2>1. TypeOK'
      BY DEF TypeOK, ThreadInv, HandoffInv, PcbInv, InSlice
    <2>2. LockInv'
      BY DEF LockInv, TypeOK, ThreadInv
    <2>3. PcbInv'
      BY DEF PcbInv, TypeOK, ThreadInv
    <2>4. ThreadInv'
      BY DEF ThreadInv, TypeOK
    <2>5. HandoffInv'
      BY DEF HandoffInv, TypeOK, ThreadInv, PcbInv, CountInv, InSlice
    <2>6. CountInv'
      BY DEF CountInv, TypeOK, ThreadInv, HandoffInv, InSlice, PcbInv
    <2>7. QED
      BY <2>1, <2>2, <2>3, <2>4, <2>5, <2>6
  <1>2. CASE StartDispatcher
    BY <1>2 DEF StartDispatcher, FirstProcess, TypeOK, LockInv, PcbInv, ThreadInv, HandoffInv, CountInv, InSlice
  <1>3. CASE EndOfPass
    <2> USE <1>3 DEF EndOfPass, FirstProcess
    <2>1. TypeOK' /\ LockInv' /\ PcbInv'
      BY DEF TypeOK, LockInv, PcbInv
    <2>2. ThreadInv' /\ HandoffInv'
      BY DEF TypeOK, ThreadInv, HandoffInv, InSlice
    <2>3. CountInv'
      BY DEF GoesOn, TypeOK, CountInv
    <2>4. QED
      BY <2>1, <2>2, <2>3
  <1>4. CASE DispatcherLock
    BY <1>4 DEF DispatcherLock, TypeOK, LockInv, PcbInv, ThreadInv, HandoffInv, CountInv, InSlice
  <1>5. CASE ReadState
    BY <1>5 DEF ReadState, TypeOK, LockInv, PcbInv, ThreadInv, HandoffInv, CountInv, InSlice
  <1>6. CASE SkipDone
    BY <1>6 DEF SkipDone, TypeOK, LockInv, PcbInv, ThreadInv, HandoffInv, CountInv, InSlice
  <1>7. CASE GiveTurn
    <2> USE <1>7 DEF GiveTurn, AfterTurn
    <2>1. TypeOK'
      BY DEF TypeOK, ThreadInv, HandoffInv, PcbInv, InSlice
    <2>2. LockInv'
      BY DEF LockInv, TypeOK, ThreadInv
    <2>3. PcbInv'
      BY DEF PcbInv, TypeOK, ThreadInv
    <2>4. ThreadInv'
      BY DEF ThreadInv, TypeOK
    <2>5. HandoffInv'
      BY DEF HandoffInv, TypeOK, ThreadInv, PcbInv, CountInv, InSlice
    <2>6. CountInv'
      BY DEF CountInv, TypeOK, ThreadInv, HandoffInv, InSlice, PcbInv
    <2>7. QED
      BY <2>1, <2>2, <2>3, <2>4, <2>5, <2>6
  <1>8. CASE TakeDone
    BY <1>8 DEF TakeDone, TypeOK, LockInv, PcbInv, ThreadInv, HandoffInv, CountInv, InSlice
  <1>9. CASE Join
    BY <1>9 DEF Join, TypeOK, LockInv, PcbInv, ThreadInv, HandoffInv, CountInv, InSlice
  <1>10. QED
    BY <1>1, <1>2, <1>3, <1>4, <1>5, <1>6, <1>7, <1>8, <1>9 DEF MainStep

\* Every step of a process thread preserves the invariant.
LEMMA ProcessPreservesInv ==
  ASSUME NEW q \in Proc, Inv, ProcessStep(q) PROVE Inv'
  <1> USE DEF Inv, Proc, Main, NoOne, ProcessState, pcb, sync, procs, disp
  <1>1. CASE TakeTurn(q)
    <2> USE <1>1 DEF TakeTurn
    <2>0. /\ mpc = "wait" /\ idx = q
          /\ turn_sem[q] = 1 /\ done_sem = 0 /\ state[q] # "DONE"
      BY DEF HandoffInv, TypeOK
    <2>1. TypeOK'
      BY <2>0 DEF TypeOK
    <2>2. LockInv'
      BY DEF LockInv, TypeOK, ThreadInv
    <2>3. PcbInv'
      BY DEF PcbInv, TypeOK, ThreadInv
    <2>4. ThreadInv'
      BY <2>0 DEF ThreadInv, TypeOK
    <2>5. HandoffInv'
      <3>1. turn_sem'[q] = 0 /\ ppc'[q] = "lock"
        BY <2>0 DEF TypeOK
      <3>2. \A p \in Proc : p # q => turn_sem'[p] = 0 /\ ppc'[p] = ppc[p] /\ ~InSlice(p)
        BY <2>0 DEF TypeOK, HandoffInv
      <3>3. QED
        BY <2>0, <3>1, <3>2 DEF HandoffInv, InSlice
    <2>6. CountInv'
      BY <2>0 DEF CountInv, TypeOK, ThreadInv
    <2>7. QED
      BY <2>1, <2>2, <2>3, <2>4, <2>5, <2>6
  <1>2. CASE ProcessLock(q)
    <2> USE <1>2 DEF ProcessLock
    <2>1. TypeOK'
      BY DEF TypeOK, ThreadInv, HandoffInv, PcbInv, InSlice
    <2>2. LockInv'
      BY DEF LockInv, TypeOK, ThreadInv
    <2>3. PcbInv'
      BY DEF PcbInv, TypeOK, ThreadInv
    <2>4. ThreadInv'
      BY DEF ThreadInv, TypeOK
    <2>5. HandoffInv'
      BY DEF HandoffInv, TypeOK, ThreadInv, PcbInv, CountInv, InSlice
    <2>6. CountInv'
      BY DEF CountInv, TypeOK, ThreadInv, HandoffInv, InSlice, PcbInv
    <2>7. QED
      BY <2>1, <2>2, <2>3, <2>4, <2>5, <2>6
  <1>3. CASE StartSlice(q)
    <2> USE <1>3 DEF StartSlice, SliceLength
    <2>1. TypeOK'
      BY DEF TypeOK, ThreadInv, HandoffInv, PcbInv, InSlice
    <2>2. LockInv'
      BY DEF LockInv, TypeOK, ThreadInv
    <2>3. PcbInv'
      BY DEF PcbInv, TypeOK, ThreadInv
    <2>4. ThreadInv'
      BY DEF ThreadInv, TypeOK
    <2>5. HandoffInv'
      BY DEF HandoffInv, TypeOK, ThreadInv, PcbInv, CountInv, InSlice
    <2>6. CountInv'
      BY DEF CountInv, TypeOK, ThreadInv, HandoffInv, InSlice, PcbInv
    <2>7. QED
      BY <2>1, <2>2, <2>3, <2>4, <2>5, <2>6
  <1>4. CASE EndSlice(q)
    <2> USE <1>4 DEF EndSlice, IsOver
    <2> DEFINE left == remaining_time[q] - run_time[q]
    <2>0. mpc = "wait" /\ idx = q /\ turn_sem[q] = 0 /\ done_sem = 0
      BY DEF HandoffInv, TypeOK, InSlice
    <2>a. left \in Nat
      <3>1. ppc[q] = "end"
        OBVIOUS
      <3>2. remaining_time[q] \in Nat /\ TimeQuantum \in Nat
        BY DEF TypeOK
      <3>3. run_time[q] = IF remaining_time[q] < TimeQuantum
                            THEN remaining_time[q] ELSE TimeQuantum
        BY <3>1 DEF PcbInv
      <3> HIDE <1>4, TimeQuantumAssumption, WorkloadsAssumption DEF EndSlice, IsOver
      <3>4. QED
        BY <3>2, <3>3
    <2>b. /\ remaining_time' = [remaining_time EXCEPT ![q] = left]
          /\ state' = [state EXCEPT ![q] = IF left = 0 THEN "DONE" ELSE "READY"]
          /\ just_finished' = [just_finished EXCEPT ![q] = (left = 0)]
          /\ ppc' = [ppc EXCEPT ![q] = "post"]
          /\ UNCHANGED <<burst_time, turn_sem, done_sem, run_time, disp>>
          /\ pcb_lock' = NoOne
      <3>1. (left <= 0) = (left = 0)
        BY <2>a
      <3>2. QED
        BY <3>1
    <2> HIDE DEF left
    <2>1. TypeOK'
      <3> HIDE <1>4 DEF EndSlice, IsOver
      <3>1. remaining_time' \in [Proc -> Nat]
        BY <2>a, <2>b DEF TypeOK
      <3>2. state' \in [Proc -> ProcessState]
        BY <2>b DEF TypeOK
      <3>3. just_finished' \in [Proc -> BOOLEAN]
        BY <2>b DEF TypeOK
      <3>4. QED
        BY <2>b, <3>1, <3>2, <3>3 DEF TypeOK
    <2>2. LockInv'
      BY DEF LockInv, TypeOK, ThreadInv
    <2>3. PcbInv'
      <3>1. /\ ppc'[q] = "post" /\ remaining_time'[q] = left
            /\ left = 0 => state'[q] = "DONE" /\ just_finished'[q] = TRUE
            /\ left # 0 => state'[q] = "READY" /\ just_finished'[q] = FALSE
        BY <2>a, <2>b DEF TypeOK
      <3>2. \A p \in Proc : p # q =>
              /\ ppc'[p] = ppc[p] /\ remaining_time'[p] = remaining_time[p]
              /\ state'[p] = state[p] /\ just_finished'[p] = just_finished[p]
        BY <2>b DEF TypeOK
      <3>3. QED
        BY <3>1, <3>2 DEF PcbInv
    <2>4. ThreadInv'
      BY <2>0, <2>b DEF ThreadInv, TypeOK
    <2>5. HandoffInv'
      BY <2>0, <2>b DEF HandoffInv, TypeOK, InSlice
    <2>6. CountInv'
      BY <2>0, <2>b DEF CountInv, TypeOK, PcbInv, ThreadInv
    <2>7. QED
      BY <2>1, <2>2, <2>3, <2>4, <2>5, <2>6
  <1>5. CASE PostDone(q)
    <2> USE <1>5 DEF PostDone
    <2>0. mpc = "wait" /\ idx = q /\ turn_sem[q] = 0 /\ done_sem = 0
      BY DEF HandoffInv, TypeOK, InSlice
    <2>1. TypeOK'
      BY DEF TypeOK
    <2>2. LockInv'
      BY DEF LockInv, TypeOK, ThreadInv
    <2>3. PcbInv'
      BY DEF PcbInv, TypeOK, ThreadInv
    <2>4. ThreadInv'
      BY <2>0 DEF ThreadInv, TypeOK
    <2>5. HandoffInv'
      <3>1. done_sem' = 1 /\ ppc'[q] = "loop"
        BY <2>0 DEF TypeOK
      <3>2. \A p \in Proc : p # q => turn_sem[p] = 0 /\ ppc'[p] = ppc[p] /\ ~InSlice(p)
        BY <2>0 DEF TypeOK, HandoffInv
      <3>3. QED
        BY <2>0, <3>1, <3>2 DEF HandoffInv, InSlice
    <2>6. CountInv'
      BY <2>0 DEF CountInv, TypeOK, ThreadInv
    <2>7. QED
      BY <2>1, <2>2, <2>3, <2>4, <2>5, <2>6
  <1>6. CASE LoopOrExit(q)
    <2> USE <1>6 DEF LoopOrExit
    <2>1. TypeOK'
      BY DEF TypeOK, ThreadInv, HandoffInv, PcbInv, InSlice
    <2>2. LockInv'
      BY DEF LockInv, TypeOK, ThreadInv
    <2>3. PcbInv'
      BY DEF PcbInv, TypeOK, ThreadInv
    <2>4. ThreadInv'
      BY DEF ThreadInv, TypeOK
    <2>5. HandoffInv'
      BY DEF HandoffInv, TypeOK, ThreadInv, PcbInv, CountInv, InSlice
    <2>6. CountInv'
      BY DEF CountInv, TypeOK, ThreadInv, HandoffInv, InSlice, PcbInv
    <2>7. QED
      BY <2>1, <2>2, <2>3, <2>4, <2>5, <2>6
  <1>7. QED
    BY <1>1, <1>2, <1>3, <1>4, <1>5, <1>6 DEF ProcessStep

-----------------------------------------------------------------------------
(* The safety properties that follow from the invariant in one state.      *)

\* Only the typing, the handoff and the PCB parts are needed: at most one slice.
LEMMA InvImpliesSingleCPU == Inv => SingleCPU
  BY DEF Inv, TypeOK, PcbInv, HandoffInv, ThreadInv, SingleCPU, InSlice, ProcessState

\* The disjunction of HandoffInv is the conservation law.
LEMMA InvImpliesTokenConserved == Inv => TokenConserved
  <1> SUFFICES ASSUME Inv PROVE TokenConserved
    OBVIOUS
  <1> DEFINE Token(p) == turn_sem[p] + IF InSlice(p) THEN 1 ELSE 0
  <1>1. ASSUME NEW p \in Proc, turn_sem[p] > 0
        PROVE  ppc[p] \in {"wait", "loop"} /\ state[p] # "DONE"
    BY <1>1 DEF Inv, TypeOK, HandoffInv
  <1>2. ASSUME NEW p \in Proc, ~(mpc = "wait" /\ idx = p)
        PROVE  Token(p) = 0
    BY <1>2 DEF Inv, TypeOK, HandoffInv
  <1>3. CASE mpc = "wait"
    <2>1. idx \in Proc
      BY <1>3 DEF Inv, ThreadInv
    <2>2. Token(idx) + done_sem = 1
      BY <1>3, <2>1 DEF Inv, TypeOK, HandoffInv, InSlice
    <2>3. QED
      BY <1>1, <1>2, <1>3, <2>2 DEF TokenConserved
  <1>4. CASE mpc # "wait"
    <2>1. done_sem = 0
      BY <1>4 DEF Inv, HandoffInv
    <2>2. QED
      BY <1>1, <1>2, <1>4, <2>1 DEF TokenConserved
  <1>5. QED
    BY <1>3, <1>4

\* Join is reached with everything DONE and nothing in flight.
LEMMA InvImpliesReturns == Inv => ReturnsWhenAllDone
  BY DEF Inv, TypeOK, PcbInv, LockInv, ThreadInv, HandoffInv, CountInv,
         ReturnsWhenAllDone, InSlice, Proc, Main, NoOne

\* The invariant holds in every reachable state.
THEOREM Invariance == Spec => []Inv
  <1>1. Inv /\ [Next]_vars => Inv'
    <2> SUFFICES ASSUME Inv, [Next]_vars PROVE Inv'
      OBVIOUS
    <2>1. CASE MainStep
      BY <2>1, MainPreservesInv
    <2>2. ASSUME NEW p \in Proc, ProcessStep(p) PROVE Inv'
      BY <2>2, ProcessPreservesInv
    <2>3. CASE UNCHANGED vars
      BY <2>3 DEF vars, pcb, sync, procs, disp, Inv, TypeOK, LockInv, PcbInv,
                  ThreadInv, HandoffInv, CountInv, InSlice
    <2>4. QED
      BY <2>1, <2>2, <2>3 DEF Next, Finished
  <1>2. QED
    BY InitInv, <1>1, PTL DEF Spec

\* Type correctness; in particular remaining_time never becomes negative.
THEOREM TypeCorrect == Spec => []TypeOK
  <1>1. Inv => TypeOK
    BY DEF Inv
  <1>2. QED
    BY Invariance, <1>1, PTL

\* The simulated CPU runs one process at a time, for any number of threads.
THEOREM SingleCPUCorrect == Spec => []SingleCPU
  BY Invariance, InvImpliesSingleCPU, PTL

\* The semaphores hand one token back and forth and never lose or duplicate
\* it, and no turn goes to a thread that has finished.
THEOREM TokenConservedCorrect == Spec => []TokenConserved
  BY Invariance, InvImpliesTokenConserved, PTL

\* run_round_robin does not return before every process is done.
THEOREM ReturnsCorrect == Spec => []ReturnsWhenAllDone
  BY Invariance, InvImpliesReturns, PTL

-----------------------------------------------------------------------------
(* The refinement.  Only EndSlice and SkipDone move the mapped CPU.        *)

\* Every step of the dispatcher is a visit to a finished process or a stutter.
LEMMA MainSimulates == Inv /\ Inv' /\ MainStep => [RR!Next]_RR!vars
  <1> SUFFICES ASSUME Inv, Inv', MainStep PROVE [RR!Next]_RR!vars
    OBVIOUS
  <1> DEFINE C == {p \in Proc : state[p] = "DONE"}
  <1>1. CASE SkipDone
    <2>1. C' = C /\ remaining_time' = remaining_time
      BY <1>1 DEF SkipDone, pcb
    <2>2. idx \in C /\ NextProcess = idx
      BY <1>1 DEF SkipDone, Inv, TypeOK, ThreadInv, CountInv, NextProcess, SliceOver, Proc
    <2>3. NextProcess' = RR!Following(idx)
      BY <1>1, <2>2 DEF SkipDone, NextProcess, SliceOver, RR!Following, Proc
    <2>4. RR!Skip
      BY <2>1, <2>2, <2>3 DEF RR!Skip
    <2>5. QED
      BY <2>4 DEF RR!Next
  <1>2. CASE ~SkipDone
    <2>1. C' = C /\ remaining_time' = remaining_time
      BY <1>2 DEF MainStep, CreateThread, StartDispatcher, FirstProcess, EndOfPass, GoesOn, DispatcherLock,
           ReadState, GiveTurn, TakeDone, Join, pcb
    <2>2. NextProcess' = NextProcess
      <3> USE DEF NextProcess, SliceOver, Inv, TypeOK, ThreadInv, HandoffInv, Proc, InSlice
      <3>1. CASE CreateThread \/ StartDispatcher \/ EndOfPass \/ Join
        BY <3>1 DEF CreateThread, StartDispatcher, FirstProcess, EndOfPass, GoesOn, Join
      <3>2. CASE DispatcherLock \/ ReadState
        BY <3>2 DEF DispatcherLock, ReadState
      <3>3. CASE GiveTurn
        BY <3>3 DEF GiveTurn, AfterTurn, procs
      <3>4. CASE TakeDone
        <4>1. SliceOver /\ idx \in Proc /\ mpc = "wait"
          BY <3>4 DEF TakeDone
        <4>2. mpc' = "for" /\ idx' = idx + 1
          BY <3>4 DEF TakeDone
        <4>3. NextProcess = IF idx = NumProcesses - 1 THEN 0 ELSE idx + 1
          BY ONLY <4>1, NumProcessesAssumption DEF NextProcess, Proc
        <4>4. NextProcess' = IF idx = NumProcesses - 1 THEN 0 ELSE idx + 1
          BY ONLY <4>1, <4>2, NumProcessesAssumption DEF NextProcess, SliceOver, Proc
        <4>5. QED
          BY ONLY <4>3, <4>4
      <3>5. QED
        BY <1>2, <3>1, <3>2, <3>3, <3>4 DEF MainStep
    <2>3. QED
      BY <2>1, <2>2 DEF RR!vars
  <1>3. QED
    BY <1>1, <1>2

\* Every step of a process thread is a slice or a stutter.
LEMMA ProcessSimulates ==
  ASSUME NEW q \in Proc, Inv, Inv', ProcessStep(q)
  PROVE  [RR!Next]_RR!vars
  <1> DEFINE C == {p \in Proc : state[p] = "DONE"}
  <1>1. CASE EndSlice(q)
    <2>1. /\ mpc = "wait" /\ idx = q /\ done_sem = 0
          /\ state[q] = "RUNNING"
          /\ run_time[q] = IF remaining_time[q] < TimeQuantum
                             THEN remaining_time[q] ELSE TimeQuantum
          /\ remaining_time[q] \in Nat
      BY <1>1 DEF EndSlice, IsOver, Inv, TypeOK, HandoffInv, PcbInv, InSlice
    <2>2. q \notin C /\ NextProcess = q
      BY <1>1, <2>1 DEF EndSlice, IsOver, NextProcess, SliceOver, Proc
    <2>3. NextProcess' = RR!Following(q)
      BY <1>1, <2>1 DEF EndSlice, IsOver, NextProcess, SliceOver, RR!Following, Proc, disp,
                        Inv, TypeOK
    <2> DEFINE left == remaining_time[q] - run_time[q]
    <2>4. CASE remaining_time[q] <= TimeQuantum
      <3>0. left = 0 /\ left <= 0
        BY <2>1, <2>4
      <3>1. remaining_time' = [remaining_time EXCEPT ![q] = 0]
        BY <1>1, <3>0 DEF EndSlice, IsOver
      <3>2. state' = [state EXCEPT ![q] = "DONE"]
        BY <1>1, <3>0 DEF EndSlice, IsOver
      <3>3. C' = C \cup {q}
        BY <3>2 DEF Inv, TypeOK
      <3>4. RR!Slice
        BY <2>2, <2>3, <2>4, <3>1, <3>3 DEF RR!Slice
      <3>5. QED
        BY <3>4 DEF RR!Next
    <2>5. CASE ~(remaining_time[q] <= TimeQuantum)
      <3>0. left = remaining_time[q] - TimeQuantum /\ ~(left <= 0)
        BY <2>1, <2>5
      <3>1. remaining_time' = [remaining_time EXCEPT ![q] = @ - TimeQuantum]
        BY <1>1, <3>0 DEF EndSlice, IsOver
      <3>2. state' = [state EXCEPT ![q] = "READY"]
        BY <1>1, <3>0 DEF EndSlice, IsOver
      <3>3. C' = C
        BY <2>1, <3>2 DEF Inv, TypeOK
      <3>4. RR!Slice
        BY <2>2, <2>3, <2>5, <3>1, <3>3 DEF RR!Slice
      <3>5. QED
        BY <3>4 DEF RR!Next
    <2>6. QED
      BY <2>4, <2>5
  <1>2. CASE ~EndSlice(q)
    <2>1. C' = C /\ remaining_time' = remaining_time
      <3>1. CASE StartSlice(q)
        BY <3>1 DEF StartSlice, SliceLength, Inv, TypeOK, PcbInv
      <3>2. CASE ~StartSlice(q)
        BY <1>2, <3>2 DEF ProcessStep, TakeTurn, ProcessLock, PostDone, LoopOrExit, pcb
      <3>3. QED
        BY <3>1, <3>2
    <2>2. NextProcess' = NextProcess
      <3> USE DEF NextProcess, SliceOver, Inv, TypeOK, ThreadInv, HandoffInv, Proc,
                  InSlice, disp
      <3>1. CASE TakeTurn(q)
        BY <3>1 DEF TakeTurn
      <3>2. CASE ProcessLock(q)
        BY <3>2 DEF ProcessLock
      <3>3. CASE StartSlice(q)
        BY <3>3 DEF StartSlice, SliceLength
      <3>4. CASE PostDone(q)
        BY <3>4 DEF PostDone
      <3>5. CASE LoopOrExit(q)
        BY <3>5 DEF LoopOrExit, sync
      <3>6. QED
        BY <1>2, <3>1, <3>2, <3>3, <3>4, <3>5 DEF ProcessStep
    <2>3. QED
      BY <2>1, <2>2 DEF RR!vars
  <1>3. QED
    BY <1>1, <1>2

\* The safety half of ImplementsRoundRobin: the threads, semaphores and
\* critical sections of scheduler.c compute slice for slice what a single
\* CPU visiting the processes in cyclic order computes.
THEOREM RefinesRoundRobin == Spec => RR!Spec
  <1>1. Init => RR!Init
    BY DEF Init, RR!Init, NextProcess
  <1>2. Inv /\ Inv' /\ [Next]_vars => [RR!Next]_RR!vars
    <2> SUFFICES ASSUME Inv, Inv', [Next]_vars PROVE [RR!Next]_RR!vars
      OBVIOUS
    <2>1. CASE MainStep
      BY <2>1, MainSimulates
    <2>2. ASSUME NEW p \in Proc, ProcessStep(p) PROVE [RR!Next]_RR!vars
      BY <2>2, ProcessSimulates
    <2>3. CASE UNCHANGED vars
      BY <2>3 DEF vars, pcb, sync, procs, disp, RR!vars, NextProcess, SliceOver
    <2>4. QED
      BY <2>1, <2>2, <2>3 DEF Next, Finished
  <1>3. QED
    BY <1>1, <1>2, Invariance, PTL DEF Spec, RR!Spec

-----------------------------------------------------------------------------
(* Fairness.  The pass the dispatcher is in decides how far ahead of each  *)
(* other two processes are.                                                *)

\* p has had its slice in this pass and q has not.
Ahead(p, q) == IF p < NextProcess /\ NextProcess <= q THEN TimeQuantum ELSE 0

\* Two unfinished processes have had the same time, but for the slice of this
\* pass; a finished one has had no more than an unfinished one would have had.
PassInv ==
  \A p, q \in Proc : state[q] # "DONE" =>
    /\ Consumed(p) <= Consumed(q) + Ahead(p, q)
    /\ state[p] # "DONE" => Consumed(p) = Consumed(q) + Ahead(p, q) - Ahead(q, p)

\* The mapped step of a thread's step, and the constant table of bursts.
LEMMA StepSimulates ==
  ASSUME Inv, Inv', [Next]_vars
  PROVE  [RR!Next]_RR!vars /\ burst_time' = burst_time
  <1>1. CASE MainStep
    <2>1. burst_time' = burst_time
      BY <1>1 DEF MainStep, CreateThread, StartDispatcher, EndOfPass, DispatcherLock,
           ReadState, SkipDone, GiveTurn, TakeDone, Join, pcb
    <2>2. QED
      BY <1>1, <2>1, MainSimulates
  <1>2. ASSUME NEW p \in Proc, ProcessStep(p)
        PROVE  [RR!Next]_RR!vars /\ burst_time' = burst_time
    <2>1. burst_time' = burst_time
      BY <1>2 DEF ProcessStep, TakeTurn, ProcessLock, StartSlice, EndSlice, PostDone,
           LoopOrExit, pcb
    <2>2. QED
      BY <1>2, <2>1, ProcessSimulates
  <1>3. CASE UNCHANGED vars
    BY <1>3 DEF vars, pcb, sync, procs, disp, RR!vars, NextProcess, SliceOver
  <1>4. QED
    BY <1>1, <1>2, <1>3 DEF Next, Finished

\* A slice moves its process from behind the others of the pass to level with
\* those in front; the last one of a pass makes them all level again.
LEMMA StepPreservesPass ==
  ASSUME Inv, Inv', PassInv, [RR!Next]_RR!vars, burst_time' = burst_time
  PROVE  PassInv'
  <1> DEFINE C == {p \in Proc : state[p] = "DONE"}
  <1>1. /\ NumProcesses \in Nat \ {0} /\ TimeQuantum \in Nat \ {0}
        /\ \A p \in Proc : burst_time[p] \in Nat /\ remaining_time[p] \in Nat
        /\ remaining_time \in [Proc -> Nat]
        /\ idx \in 0 .. NumProcesses
    BY NumProcessesAssumption, TimeQuantumAssumption DEF Inv, TypeOK
  <1>2. NextProcess \in Proc
    BY <1>1 DEF NextProcess, Proc
  <1>3. PICK m \in Proc : m = NextProcess
    BY <1>2
  <1>4. \A p \in Proc : Consumed(p) \in Int
    BY <1>1 DEF Consumed
  <1> DEFINE Lead(p, q, k) == IF p < k /\ k <= q THEN TimeQuantum ELSE 0
  <1>5. ASSUME NEW p \in Proc, NEW q \in Proc, state[q] # "DONE"
        PROVE  /\ Consumed(p) <= Consumed(q) + Lead(p, q, m)
               /\ state[p] # "DONE" =>
                    Consumed(p) = Consumed(q) + Lead(p, q, m) - Lead(q, p, m)
    BY <1>3, <1>5 DEF PassInv, Ahead
  <1>6. CASE UNCHANGED RR!vars
    <2>1. C' = C /\ remaining_time' = remaining_time /\ NextProcess' = NextProcess
      BY <1>6 DEF RR!vars
    <2>2. \A p \in Proc : (state'[p] = "DONE") = (state[p] = "DONE")
      BY <2>1
    <2>3. QED
      BY <2>1, <2>2 DEF PassInv, Ahead, Consumed
  <1>7. CASE RR!Next
    <2> DEFINE k == IF m = NumProcesses - 1 THEN 0 ELSE m + 1
    <2>1. NextProcess' = k
      BY <1>3, <1>7 DEF RR!Next, RR!Slice, RR!Skip, RR!Following
    <2>2. \A p, q \in Proc : Ahead(p, q)' = Lead(p, q, k)
      BY <2>1 DEF Ahead
    <2> HIDE DEF k
    <2>3. k \in Int /\ (k = m + 1 \/ (k = 0 /\ \A p \in Proc : p <= m))
      BY <1>1 DEF k, Proc
    <2>4. SUFFICES ASSUME NEW p \in Proc, NEW q \in Proc, state'[q] # "DONE"
                   PROVE  /\ Consumed(p)' <= Consumed(q)' + Lead(p, q, k)
                          /\ state'[p] # "DONE" =>
                               Consumed(p)' = Consumed(q)' + Lead(p, q, k) - Lead(q, p, k)
      BY <2>2 DEF PassInv
    <2>t. p \in Nat /\ q \in Nat /\ m \in Nat /\ TimeQuantum \in Nat \ {0}
        BY <1>1 DEF Proc
    <2>5. CASE RR!Skip
      <3>1. C' = C /\ remaining_time' = remaining_time /\ m \in C
        BY <1>3, <2>5 DEF RR!Skip
      <3>2. /\ state[q] # "DONE" /\ q # m
            /\ state'[p] # "DONE" => state[p] # "DONE" /\ p # m
        BY <2>4, <3>1
      <3>3. Consumed(p)' = Consumed(p) /\ Consumed(q)' = Consumed(q)
        BY <3>1 DEF Consumed
      <3>4. /\ Consumed(p) <= Consumed(q) + Lead(p, q, m)
            /\ state[p] # "DONE" =>
                 Consumed(p) = Consumed(q) + Lead(p, q, m) - Lead(q, p, m)
        BY <1>5, <3>2
      <3>9. QED
        BY <1>4, <2>3, <2>t, <3>2, <3>3, <3>4
    <2>6. CASE RR!Slice /\ remaining_time[m] <= TimeQuantum
      <3>1. /\ remaining_time' = [remaining_time EXCEPT ![m] = 0]
            /\ C' = C \cup {m} /\ m \notin C
        BY <1>3, <2>6 DEF RR!Slice
      <3>2. /\ state[q] # "DONE" /\ q # m /\ state[m] # "DONE"
            /\ state'[p] # "DONE" => state[p] # "DONE" /\ p # m
        BY <2>4, <3>1
      <3>3. /\ Consumed(q)' = Consumed(q)
            /\ p # m => Consumed(p)' = Consumed(p)
            /\ Consumed(m)' \in Int /\ Consumed(m)' <= Consumed(m) + TimeQuantum
        BY <1>1, <2>6, <3>1, <3>2 DEF Consumed
      <3>4. /\ Consumed(p) <= Consumed(q) + Lead(p, q, m)
            /\ state[p] # "DONE" =>
                 Consumed(p) = Consumed(q) + Lead(p, q, m) - Lead(q, p, m)
        BY <1>5, <3>2
      <3>5. Consumed(m) = Consumed(q) + Lead(m, q, m) - Lead(q, m, m)
        BY <1>5, <3>2
      <3>6. CASE p = m
        BY <1>4, <2>3, <2>t, <3>2, <3>3, <3>5, <3>6
      <3>7. CASE p # m
        BY <1>4, <2>3, <2>t, <3>2, <3>3, <3>4, <3>7
      <3>9. QED
        BY <3>6, <3>7
    <2>7. CASE RR!Slice /\ ~(remaining_time[m] <= TimeQuantum)
      <3>1. /\ remaining_time' = [remaining_time EXCEPT ![m] = @ - TimeQuantum]
            /\ C' = C /\ m \notin C
        BY <1>3, <2>7 DEF RR!Slice
      <3>2. /\ state[q] # "DONE" /\ state[m] # "DONE"
            /\ state'[p] # "DONE" => state[p] # "DONE"
        BY <2>4, <3>1
      <3>3. \A r \in Proc : Consumed(r)' = IF r = m THEN Consumed(m) + TimeQuantum
                                           ELSE Consumed(r)
        BY <1>1, <3>1 DEF Consumed
      <3>4. /\ Consumed(p) <= Consumed(q) + Lead(p, q, m)
            /\ state[p] # "DONE" =>
                 Consumed(p) = Consumed(q) + Lead(p, q, m) - Lead(q, p, m)
        BY <1>5, <3>2
      <3>5. Consumed(m) = Consumed(q) + Lead(m, q, m) - Lead(q, m, m)
        BY <1>5, <3>2
      <3>6. /\ Consumed(p) <= Consumed(m) + Lead(p, m, m)
            /\ state[p] # "DONE" =>
                 Consumed(p) = Consumed(m) + Lead(p, m, m) - Lead(m, p, m)
        BY <1>5, <3>2
      <3>7. CASE p = m
        BY <1>4, <2>3, <2>t, <3>2, <3>3, <3>5, <3>7
      <3>8. CASE p # m
        <4>1. CASE q = m
          BY <1>4, <2>3, <2>t, <3>2, <3>3, <3>6, <3>8, <4>1
        <4>2. CASE q # m
          BY <1>4, <2>3, <2>t, <3>2, <3>3, <3>4, <3>8, <4>2
        <4>3. QED
          BY <4>1, <4>2
      <3>9. QED
        BY <3>7, <3>8
    <2>8. QED
      BY <1>7, <2>5, <2>6, <2>7 DEF RR!Next
  <1>8. QED
    BY <1>6, <1>7

\* In every reachable state the pass alone decides who leads whom by a quantum.
THEOREM PassInvariance == Spec => []PassInv
  <1>1. Init => PassInv
    <2> SUFFICES ASSUME Init PROVE PassInv
      OBVIOUS
    <2>1. NextProcess = 0 /\ \A p \in Proc : Consumed(p) = 0
      BY WorkloadsAssumption DEF Init, NextProcess, Consumed, Proc
    <2>2. \A p, q \in Proc : Ahead(p, q) = 0
      BY <2>1, NumProcessesAssumption DEF Ahead, Proc
    <2>3. QED
      BY <2>1, <2>2 DEF PassInv
  <1>2. PassInv /\ Inv /\ Inv' /\ [Next]_vars => PassInv'
    BY StepSimulates, StepPreservesPass
  <1>3. QED
    BY <1>1, <1>2, Invariance, PTL DEF Spec

\* The dispatcher of scheduler.c is fair: nobody gets more than a quantum ahead
\* of a process that still has work to do.
THEOREM FairShareCorrect == Spec => []FairShare
  <1>1. Inv /\ PassInv => FairShare
    <2> SUFFICES ASSUME Inv, PassInv, NEW p \in Proc, NEW q \in Proc, state[q] # "DONE"
                 PROVE  Consumed(p) <= Consumed(q) + TimeQuantum
      BY DEF FairShare
    <2>1. Consumed(p) \in Int /\ Consumed(q) \in Int
      BY DEF Inv, TypeOK, Consumed
    <2>2. Ahead(p, q) \in {0, TimeQuantum} /\ TimeQuantum \in Nat
      BY TimeQuantumAssumption DEF Ahead
    <2>3. Consumed(p) <= Consumed(q) + Ahead(p, q)
      BY DEF PassInv
    <2>4. QED
      BY <2>1, <2>2, <2>3
  <1>2. QED
    BY <1>1, Invariance, PassInvariance, PTL

\* And it serves the processes in the order of the processes[] array.
THEOREM ArrayOrderCorrect == Spec => []ArrayOrder
  <1>1. Inv /\ PassInv => ArrayOrder
    <2> SUFFICES ASSUME Inv, PassInv, NEW p \in Proc, NEW q \in Proc, p < q,
                        state[p] # "DONE", state[q] # "DONE"
                 PROVE  Consumed(q) <= Consumed(p)
      BY DEF ArrayOrder
    <2>1. Consumed(p) \in Int /\ Consumed(q) \in Int
      BY DEF Inv, TypeOK, Consumed
    <2>2. NextProcess \in Int
      BY NumProcessesAssumption DEF NextProcess, Inv, TypeOK, Proc
    <2>3. Ahead(q, p) = 0 /\ Ahead(p, q) \in Nat
      BY <2>2, TimeQuantumAssumption DEF Ahead, Proc
    <2>4. Consumed(q) = Consumed(p) + Ahead(q, p) - Ahead(p, q)
      BY DEF PassInv
    <2>5. QED
      BY <2>1, <2>3, <2>4
  <1>2. QED
    BY <1>1, Invariance, PassInvariance, PTL

=============================================================================
