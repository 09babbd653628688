---------------------------- MODULE MCScheduler ----------------------------
(* Instances of Scheduler for TLC. *)
EXTENDS Scheduler

\* Every table of three processes with these bursts: with a quantum of 2 they
\* are zero, below, at and between multiples of the quantum, and a burst of 7
\* outlasts the others by enough passes for a wrong count of finished
\* processes to end the loop early.
SmallWorkloads == [0 .. 2 -> {0, 1, 2, 3, 4, 7}]
=============================================================================
