------------------------------ MODULE Scheduler ------------------------------
(***************************************************************************)
(* The round-robin scheduler of task1_process_threading/scheduler.c: main, *)
(* which creates the process threads, runs the dispatcher on its own       *)
(* thread and joins them, and process_thread, one thread per process.      *)
(* They meet in one mutex (pcb_lock), one semaphore per process (turn_sem) *)
(* and one shared semaphore (done_sem).  A step is what a thread does      *)
(* between two of those calls; taking a mutex is a step of its own, so a   *)
(* thread can be overtaken in front of every critical section.             *)
(***************************************************************************)
EXTENDS Integers

CONSTANTS
  NumProcesses,   \* NUM_PROCESSES
  TimeQuantum,    \* TIME_QUANTUM
  Workloads       \* the burst_times[] tables main may be built with

ASSUME NumProcessesAssumption == NumProcesses \in Nat \ {0}
ASSUME TimeQuantumAssumption == TimeQuantum \in Nat \ {0}
ASSUME WorkloadsAssumption == Workloads \subseteq [0 .. NumProcesses - 1 -> Nat]

Proc   == 0 .. NumProcesses - 1
Main   == NumProcesses          \* the thread that runs main
NoOne  == -1                    \* the holder of a free mutex
ProcessState == {"READY", "RUNNING", "DONE"}

VARIABLES
  \* the PCB array
  burst_time, remaining_time, state,
  \* synchronisation: the mutex's holder and the semaphores' values
  pcb_lock, turn_sem, done_sem,
  \* process_thread: where each thread is, and its locals
  ppc, run_time, just_finished,
  \* main and run_round_robin: where it is, loop index, and locals
  mpc, idx, finished, st

pcb   == <<burst_time, remaining_time, state>>
sync  == <<pcb_lock, turn_sem, done_sem>>
procs == <<ppc, run_time, just_finished>>
disp  == <<mpc, idx, finished, st>>
vars  == <<pcb, sync, procs, disp>>

-----------------------------------------------------------------------------
(* main up to the creation of the threads: the PCBs are filled in and all  *)
(* semaphores start at 0.                                                  *)

Init ==
  /\ burst_time \in Workloads
  /\ remaining_time = burst_time
  /\ state = [p \in Proc |-> "READY"]
  /\ pcb_lock = NoOne
  /\ turn_sem = [p \in Proc |-> 0]
  /\ done_sem = 0
  /\ ppc = [p \in Proc |-> "new"]
  /\ run_time = [p \in Proc |-> 0]
  /\ just_finished = [p \in Proc |-> FALSE]
  /\ mpc = "create"
  /\ idx = 0
  /\ finished = 0
  /\ st = "READY"

\* pthread_create: from here on thread idx may run at any time.
CreateThread ==
  /\ mpc = "create"
  /\ idx < NumProcesses
  /\ ppc' = [ppc EXCEPT ![idx] = "wait"]
  /\ idx' = idx + 1
  /\ UNCHANGED <<pcb, sync, run_time, just_finished, mpc, finished, st>>

\* Passes that begin at the second process.
SecondProcess == 1
\* Passes begin at the first process.
FirstProcess == 0

\* main calls run_round_robin.
StartDispatcher ==
  /\ mpc = "create"
  /\ idx = NumProcesses
  /\ mpc' = "for"
  /\ idx' = FirstProcess
  /\ finished' = 0
  /\ UNCHANGED <<pcb, sync, procs, st>>

-----------------------------------------------------------------------------
(* run_round_robin, the dispatcher.                                        *)

\* Loop conditions that are off by one, in either direction.
GoesOnForever(n)  == n <= NumProcesses
GoesOnTooShort(n) == n < NumProcesses - 1
\* while (finished < NUM_PROCESSES)
GoesOn(n) == n < NumProcesses

\* The end of a pass over the processes: go round again, or return.
EndOfPass ==
  /\ mpc = "for"
  /\ idx = NumProcesses
  /\ IF GoesOn(finished)
       THEN idx' = FirstProcess /\ finished' = 0 /\ UNCHANGED mpc
       ELSE idx' = 0 /\ mpc' = "join" /\ UNCHANGED finished
  /\ UNCHANGED <<pcb, sync, procs, st>>

\* pthread_mutex_lock(&pcb_lock)
DispatcherLock ==
  /\ mpc = "for"
  /\ idx < NumProcesses
  /\ pcb_lock = NoOne
  /\ pcb_lock' = Main
  /\ mpc' = "read"
  /\ UNCHANGED <<pcb, turn_sem, done_sem, procs, idx, finished, st>>

\* Read the state of process idx and leave the critical section.
ReadState ==
  /\ mpc = "read"
  /\ st' = state[idx]
  /\ pcb_lock' = NoOne
  /\ mpc' = "decide"
  /\ UNCHANGED <<pcb, turn_sem, done_sem, procs, idx, finished>>

\* The process was DONE: count it and go on.
SkipDone ==
  /\ mpc = "decide"
  /\ st = "DONE"
  /\ finished' = finished + 1
  /\ idx' = idx + 1
  /\ mpc' = "for"
  /\ UNCHANGED <<pcb, sync, procs, st>>

\* A dispatcher that does not wait for the slice to be over.
NoWait == "for"
\* Where the dispatcher goes when it has given a turn.
AfterTurn == "wait"

\* sem_post(&turn_sem[idx])
GiveTurn ==
  /\ mpc = "decide"
  /\ st # "DONE"
  /\ turn_sem' = [turn_sem EXCEPT ![idx] = @ + 1]
  /\ mpc' = AfterTurn
  /\ UNCHANGED <<pcb, pcb_lock, done_sem, procs, idx, finished, st>>

\* sem_wait(&done_sem), then the next process.
TakeDone ==
  /\ mpc = "wait"
  /\ done_sem > 0
  /\ done_sem' = done_sem - 1
  /\ idx' = idx + 1
  /\ mpc' = "for"
  /\ UNCHANGED <<pcb, pcb_lock, turn_sem, procs, finished, st>>

\* pthread_join of each process thread in turn.
Join ==
  /\ mpc = "join"
  /\ idx < NumProcesses
  /\ ppc[idx] = "exit"
  /\ idx' = idx + 1
  /\ mpc' = IF idx + 1 = NumProcesses THEN "joined" ELSE "join"
  /\ UNCHANGED <<pcb, sync, procs, finished, st>>

MainStep ==
  \/ CreateThread \/ StartDispatcher
  \/ EndOfPass \/ DispatcherLock \/ ReadState \/ SkipDone \/ GiveTurn \/ TakeDone
  \/ Join

-----------------------------------------------------------------------------
(* process_thread.                                                         *)

\* sem_wait(&turn_sem[id])
TakeTurn(p) ==
  /\ ppc[p] = "wait"
  /\ turn_sem[p] > 0
  /\ turn_sem' = [turn_sem EXCEPT ![p] = @ - 1]
  /\ ppc' = [ppc EXCEPT ![p] = "lock"]
  /\ UNCHANGED <<pcb, pcb_lock, done_sem, run_time, just_finished, disp>>

\* pthread_mutex_lock(&pcb_lock), before the slice and after it.
ProcessLock(p) ==
  /\ ppc[p] \in {"lock", "run"}
  /\ pcb_lock = NoOne
  /\ pcb_lock' = p
  /\ ppc' = [ppc EXCEPT ![p] = IF @ = "lock" THEN "start" ELSE "end"]
  /\ UNCHANGED <<pcb, turn_sem, done_sem, run_time, just_finished, disp>>

\* Slices without one of their two caps.
WholeQuantum(left) == TimeQuantum
RunToEnd(left)     == left
\* A slice is a quantum, or what is left of the burst.
SliceLength(left) == IF left < TimeQuantum THEN left ELSE TimeQuantum

\* First critical section: mark RUNNING and compute the length of the slice.
StartSlice(p) ==
  /\ ppc[p] = "start"
  /\ state' = [state EXCEPT ![p] = "RUNNING"]
  /\ run_time' = [run_time EXCEPT ![p] = SliceLength(remaining_time[p])]
  /\ pcb_lock' = NoOne
  /\ ppc' = [ppc EXCEPT ![p] = "run"]
  /\ UNCHANGED <<burst_time, remaining_time, turn_sem, done_sem, just_finished, disp>>

\* Completion tested with < instead of <=.
IsOverStrict(left) == left < 0
IsOver(left) == left <= 0

\* Second critical section, after the simulated CPU burst.
EndSlice(p) ==
  LET left == remaining_time[p] - run_time[p] IN
  /\ ppc[p] = "end"
  /\ remaining_time' = [remaining_time EXCEPT ![p] = left]
  /\ state' = [state EXCEPT ![p] = IF IsOver(left) THEN "DONE" ELSE "READY"]
  /\ just_finished' = [just_finished EXCEPT ![p] = IsOver(left)]
  /\ pcb_lock' = NoOne
  /\ ppc' = [ppc EXCEPT ![p] = "post"]
  /\ UNCHANGED <<burst_time, turn_sem, done_sem, run_time, disp>>

\* sem_post(&done_sem): the dispatcher may go on while this thread is still
\* on its way back to the head of its loop.
PostDone(p) ==
  /\ ppc[p] = "post"
  /\ done_sem' = done_sem + 1
  /\ ppc' = [ppc EXCEPT ![p] = "loop"]
  /\ UNCHANGED <<pcb, pcb_lock, turn_sem, run_time, just_finished, disp>>

\* The thread exits after its last slice, else it waits for its next turn.
LoopOrExit(p) ==
  /\ ppc[p] = "loop"
  /\ ppc' = [ppc EXCEPT ![p] = IF just_finished[p] THEN "exit" ELSE "wait"]
  /\ UNCHANGED <<pcb, sync, run_time, just_finished, disp>>

ProcessStep(p) ==
  \/ TakeTurn(p) \/ ProcessLock(p) \/ StartSlice(p) \/ EndSlice(p)
  \/ PostDone(p) \/ LoopOrExit(p)

-----------------------------------------------------------------------------
\* Everything is joined; main goes on to the race-condition demo.
Finished ==
  /\ mpc = "joined"
  /\ UNCHANGED vars

Next == MainStep \/ (\E p \in Proc : ProcessStep(p)) \/ Finished

Spec == Init /\ [][Next]_vars

\* The operating system keeps running every thread that is not blocked.
FairSpec == Spec /\ WF_vars(MainStep) /\ \A p \in Proc : WF_vars(ProcessStep(p))

-----------------------------------------------------------------------------
(* Correctness.                                                            *)

\* Where a thread is between taking its turn and reporting the slice done.
InSlice(p) == ppc[p] \in {"lock", "start", "run", "end", "post"}

\* CPU time a process has been given so far.
Consumed(p) == burst_time[p] - remaining_time[p]

\* Every variable has its type.  remaining_time is declared int in the code;
\* it never goes below 0, although each slice subtracts a run_time that was
\* computed in an earlier critical section.
TypeOK ==
  /\ burst_time \in [Proc -> Nat]
  /\ remaining_time \in [Proc -> Nat]
  /\ state \in [Proc -> ProcessState]
  /\ pcb_lock \in Proc \cup {Main, NoOne}
  /\ turn_sem \in [Proc -> Nat]
  /\ done_sem \in Nat
  /\ ppc \in [Proc -> {"new", "wait", "lock", "start", "run", "end", "post", "loop",
                   "exit"}]
  /\ run_time \in [Proc -> 0 .. TimeQuantum]
  /\ just_finished \in [Proc -> BOOLEAN]
  /\ mpc \in {"create", "for", "read", "decide", "wait", "join", "joined"}
  /\ idx \in 0 .. NumProcesses
  /\ finished \in Nat
  /\ st \in ProcessState

\* One CPU: a thread is inside its slice only while the dispatcher waits for
\* exactly that process, so no two slices ever overlap, and a PCB says
\* RUNNING only inside a slice.
SingleCPU ==
  \A p \in Proc :
    /\ InSlice(p) => mpc = "wait" /\ idx = p
    /\ state[p] = "RUNNING" => InSlice(p)

\* The handoff conserves one token: while the dispatcher sits in
\* sem_wait(&done_sem) exactly one of turn_sem[idx], the slice of idx and
\* done_sem holds it; at any other time nobody does.  In particular no turn is
\* ever posted to a thread that has exited (it would never be taken, and the
\* dispatcher would hang) and both semaphores stay binary.
TokenConserved ==
  LET Token(p) == turn_sem[p] + IF InSlice(p) THEN 1 ELSE 0 IN
  /\ \A p \in Proc : turn_sem[p] > 0 => /\ ppc[p] \in {"wait", "loop"}
                                         /\ state[p] # "DONE"
  /\ \A p \in Proc : ~(mpc = "wait" /\ idx = p) => Token(p) = 0
  /\ IF mpc = "wait" THEN Token(idx) + done_sem = 1 ELSE done_sem = 0

\* Round-robin fairness: no process, finished or not, ever gets more than one
\* quantum of CPU time ahead of a process that still has work to do.
FairShare ==
  \A p, q \in Proc : state[q] # "DONE" => Consumed(p) <= Consumed(q) + TimeQuantum

\* Turns are handed out in the order of the processes[] array: among
\* unfinished processes a later one has never run longer than an earlier one.
ArrayOrder ==
  \A p, q \in Proc :
    p < q /\ state[p] # "DONE" /\ state[q] # "DONE" => Consumed(q) <= Consumed(p)

\* run_round_robin returns only when every process has had all of its burst
\* time, and leaves the mutex free and every semaphore at 0, which the joins,
\* the counter demo that reuses pcb_lock and sem_destroy rely on.
ReturnsWhenAllDone ==
  mpc \in {"join", "joined"} =>
    /\ \A p \in Proc : /\ state[p] = "DONE"
                       /\ remaining_time[p] = 0
                       /\ turn_sem[p] = 0
    /\ done_sem = 0
    /\ pcb_lock = NoOne

\* Every process finishes, every thread exits and main joins them all: no
\* thread is left waiting for a turn that never comes.
Terminates == <>(mpc = "joined")

-----------------------------------------------------------------------------
(* The threads implement the atomic slices of RoundRobin: a slice happens  *)
(* at EndSlice, and the CPU is past process idx from then on.              *)

\* The slice of idx is over but the dispatcher has not moved on yet.
SliceOver == mpc = "wait" /\ (ppc[idx] = "post" \/ done_sem > 0)

NextProcess ==
  IF mpc \in {"create", "join", "joined"} \/ idx = NumProcesses THEN 0
  ELSE IF ~SliceOver THEN idx
  ELSE IF idx = NumProcesses - 1 THEN 0
  ELSE idx + 1

RR == INSTANCE RoundRobin WITH
        remaining <- remaining_time,
        completed <- {p \in Proc : state[p] = "DONE"},
        cur <- NextProcess

\* Every behaviour of the threads is, seen through this mapping, a behaviour
\* of the one-CPU round robin, its progress included.
ImplementsRoundRobin == RR!FairSpec

=============================================================================
