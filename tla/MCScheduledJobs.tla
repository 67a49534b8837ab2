--------------------------- MODULE MCScheduledJobs ---------------------------
(* The instance of ScheduledJobs that TLC checks: two processes, one of     *)
(* which gets the calls.                                                    *)
EXTENDS ScheduledJobs

CONSTANTS p1, p2, invoke, enable, start

MCServerOf == [h \in Handlers |-> p1]

(* Calls that start and schedule the job while a statement fails, and one    *)
(* that leaves a background task.                                           *)
MCInstances == {
  [calls |-> {invoke, enable}, faults |-> 1],
  [calls |-> {invoke, start},  faults |-> 0]}
=============================================================================
