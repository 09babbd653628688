----------------------------- MODULE RoundRobin -----------------------------
(***************************************************************************)
(* What the scheduler simulation of task1_process_threading/scheduler.c    *)
(* promises, with no thread, semaphore or mutex in it: one CPU visits the  *)
(* processes in cyclic order; a visit to an unfinished process is one      *)
(* indivisible slice of at most TimeQuantum units, a visit to a finished   *)
(* process does nothing.  Scheduler.tla is shown to implement this module. *)
(***************************************************************************)
EXTENDS Integers

CONSTANTS
  NumProcesses,   \* how many simulated processes
  TimeQuantum,    \* units of CPU time in one slice
  Workloads       \* the burst_times[] tables the program may be built with

VARIABLES
  remaining,      \* CPU time each process still needs
  completed,      \* the set of finished processes
  cur             \* the process the CPU visits next

vars == <<remaining, completed, cur>>

Proc == 0 .. NumProcesses - 1

\* The cyclic successor of a process.
Following(p) == IF p = NumProcesses - 1 THEN 0 ELSE p + 1

Init ==
  /\ remaining \in Workloads
  /\ completed = {}
  /\ cur = 0

\* One slice: a process that needs no more than a quantum finishes in it.
Slice ==
  /\ cur \notin completed
  /\ IF remaining[cur] <= TimeQuantum
       THEN /\ remaining' = [remaining EXCEPT ![cur] = 0]
            /\ completed' = completed \cup {cur}
       ELSE /\ remaining' = [remaining EXCEPT ![cur] = @ - TimeQuantum]
            /\ UNCHANGED completed
  /\ cur' = Following(cur)

\* A finished process is passed over.
Skip ==
  /\ cur \in completed
  /\ cur' = Following(cur)
  /\ UNCHANGED <<remaining, completed>>

Next == Slice \/ Skip

Spec == Init /\ [][Next]_vars

\* The CPU never idles in front of a process that still has work.
FairSpec == Spec /\ WF_vars(Slice)

=============================================================================
