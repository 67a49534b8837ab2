------------------------- MODULE ScheduledJobsProofs -------------------------
(***************************************************************************)
(* What the lease of a scheduled job and the shutdown of a process keep    *)
(* for any number of processes, calls and faults.                          *)
(***************************************************************************)
EXTENDS ScheduledJobs, TLAPS

-----------------------------------------------------------------------------
(* Types *)

LEMMA TypeInit == Init => TypeOK
<1> SUFFICES ASSUME Init PROVE TypeOK
  OBVIOUS
<1>1. faults \in 0..MaxFaults /\ stalls \in 0..MaxStalls /\ stops \in 0..MaxStops
  BY JobsAssumption DEF Init
<1>2. handler \in [Handlers -> Calls]
  BY DEF Init, Calls, Uncalled
<1> QED
  BY <1>1, <1>2 DEF Init, TypeOK, Runs, Resting, Stages

LEMMA FaultTypes ==
  ASSUME TypeOK, Fault
  PROVE  faults' \in 0..MaxFaults /\ UNCHANGED <<stalls, stops>>
BY JobsAssumption DEF TypeOK, Fault

LEMMA StartTypes ==
  ASSUME TypeOK, NEW p \in Processes, Start(p)
  PROVE  /\ run' \in [Processes -> Runs]
         /\ overdue' \in [Processes -> BOOLEAN]
         /\ lost' \in [Processes -> BOOLEAN]
         /\ beaten' \in [Processes -> BOOLEAN]
BY DEF TypeOK, Start, Goto, Runs, runs

LEMMA RunTypes ==
  ASSUME TypeOK, NEW p \in Processes, RunStep(p)
  PROVE  TypeOK'
<1>1. CASE Fire(p)
  BY <1>1, StartTypes DEF TypeOK, Fire, lease, processes, bounds
<1>2. CASE Insert(p) \/ TaskDone(p) \/ Release(p)
  BY <1>2 DEF TypeOK, Insert, TaskDone, Release, Goto, Runs, Resting, Tasked,
              lease, processes, bounds
<1>3. CASE Claim(p)
  <2>1. beaten' \in [Processes -> BOOLEAN]
    BY <1>3 DEF TypeOK, Claim, Working
  <2> QED
    BY <1>3, <2>1 DEF TypeOK, Claim, Goto, Runs, Resting, Tasked, lease, processes, bounds
<1>4. CASE Heartbeat(p)
  BY <1>4 DEF TypeOK, Heartbeat, processes, bounds
<1>5. CASE FinalRenew(p)
  BY <1>5 DEF TypeOK, FinalRenew, Renewal, Goto, Runs, processes, bounds
<1>6. CASE StatementFails(p)
  <2>1. faults' \in 0..MaxFaults /\ UNCHANGED <<stalls, stops>>
    BY <1>6, FaultTypes DEF StatementFails
  <2> QED
    BY <1>6, <2>1 DEF TypeOK, StatementFails, Goto, LeaveRow, Runs, Resting, processes
<1> QED
  BY <1>1, <1>2, <1>3, <1>4, <1>5, <1>6 DEF RunStep

LEMMA ExitTypes ==
  ASSUME TypeOK, NEW p \in Processes, NEW to \in Stages, Exit(p, to)
  PROVE  /\ owner' \in Processes \cup {Over, None}
         /\ stage' \in [Processes -> Stages]
         /\ handler' \in [Handlers -> Calls]
         /\ UNCHANGED <<live, run, overdue, lost, beaten, armed, forced>>
BY DEF TypeOK, Exit, Enter, LeaveRow, Calls, runs

LEMMA ProcessTypes ==
  ASSUME TypeOK, NEW p \in Processes, ProcessStep(p)
  PROVE  TypeOK'
<1>1. CASE Stop(p)
  BY <1>1, JobsAssumption DEF TypeOK, Stop, Enter, Stages, lease, runs
<1>2. CASE Drained(p) \/ Stopped(p) \/ Quiescent(p)
  BY <1>2 DEF TypeOK, Drained, Stopped, Quiescent, Handling, Enter, Stages, lease, runs, bounds
<1>6. CASE Unsettled(p)
  BY <1>6 DEF TypeOK, Unsettled, Enter, Stages, Calls, FollowUps, lease, runs, bounds
<1>3. CASE Settled(p) \/ TaskTimeout(p)
  <2>1. PICK to \in Stages : Exit(p, to)
    BY <1>3 DEF Settled, TaskTimeout, Stages
  <2>2. UNCHANGED bounds
    BY <1>3 DEF Settled, TaskTimeout
  <2> QED
    BY <2>1, <2>2, ExitTypes DEF TypeOK, bounds
<1>4. CASE Crash(p)
  <2>1. Exit(p, "aborted") /\ Fault /\ "aborted" \in Stages
    BY <1>4 DEF Crash, Stages
  <2> QED
    BY <2>1, ExitTypes, FaultTypes DEF TypeOK
<1>5. CASE Restart(p)
  BY <1>5 DEF TypeOK, Restart, Enter, Goto, Stages, Calls, Runs, Resting, lease, bounds
<1> QED
  BY <1>1, <1>2, <1>3, <1>4, <1>5, <1>6 DEF ProcessStep

LEMMA HandlerTypes ==
  ASSUME TypeOK, NEW h \in Handlers, HandlerStep(h)
  PROVE  TypeOK'
<1>1. ServerOf[h] \in Processes
  BY JobsAssumption
<1>2. CASE Find(h)
  BY <1>2 DEF TypeOK, Find, Calls, lease, runs, processes, bounds
<1>3. CASE Invoke(h)
  BY <1>1, <1>3, StartTypes DEF TypeOK, Invoke, Calls, lease, processes, bounds
<1>4. CASE Enable(h)
  BY <1>1, <1>4 DEF TypeOK, Enable, Calls, lease, runs, bounds
<1>5. CASE Track(h) \/ TaskOver(h) \/ FollowUp(h)
  BY <1>5 DEF TypeOK, Track, TaskOver, FollowUp, Calls, FollowUps, lease, runs, processes, bounds
<1> QED
  BY <1>2, <1>3, <1>4, <1>5 DEF HandlerStep

LEMMA ExpireTypes == TypeOK /\ Expire => TypeOK'
<1> SUFFICES ASSUME TypeOK, Expire PROVE TypeOK'
  OBVIOUS
<1>1. stalls' \in 0..MaxStalls
  BY JobsAssumption DEF TypeOK, Expire
<1> QED
  BY <1>1 DEF TypeOK, Expire, runs, processes

LEMMA NextTypes == TypeOK /\ [Next]_vars => TypeOK'
<1> SUFFICES ASSUME TypeOK, [Next]_vars PROVE TypeOK'
  OBVIOUS
<1>1. CASE UNCHANGED vars
  BY <1>1 DEF TypeOK, vars
<1>2. CASE Next
  BY <1>2, RunTypes, ProcessTypes, HandlerTypes, ExpireTypes DEF Next
<1> QED
  BY <1>1, <1>2

(* Every variable keeps its type.                                           *)
THEOREM TypeCorrect == Spec => []TypeOK
BY TypeInit, NextTypes, PTL DEF Spec

-----------------------------------------------------------------------------
(* The lease *)

(* A run that was overtaken is not the owner of the row any more, and one   *)
(* that has not begun its task, or is past its last renewal, was not.       *)
Overtaken ==
  \A p \in Processes : Alive(p) /\ beaten[p] =>
    /\ run[p] \notin {"inserting", "claiming", "releasing", "succeeded"}
    /\ run[p] \in Tasked => owner # p

(* A run that works owns a live row, unless the lease expired under a run.  *)
Owning == stalls = 0 => \A p \in Processes : Working(p) => owner = p /\ live

LeaseInv == TypeOK /\ Overtaken /\ Owning

LEMMA LeaseInit == Init => LeaseInv
BY TypeInit DEF Init, LeaseInv, Overtaken, Owning, Working, Tasked

LEMMA StartLease ==
  ASSUME LeaseInv, NEW p \in Processes, Start(p), UNCHANGED <<owner, live, stage, stalls>>
  PROVE  Overtaken' /\ Owning'
<1>1. CASE run[p] \in Resting
  BY <1>1 DEF LeaseInv, Overtaken, Owning, Start, Goto, Working, Alive, Tasked, TypeOK
<1>2. CASE run[p] \notin Resting
  BY <1>2 DEF LeaseInv, Overtaken, Owning, Start, Working, Alive, runs
<1> QED
  BY <1>1, <1>2

LEMMA RunLease ==
  ASSUME LeaseInv, NEW p \in Processes, RunStep(p)
  PROVE  Overtaken' /\ Owning'
<1>0. /\ TypeOK /\ Overtaken /\ Owning
      /\ p # Over /\ p # None /\ Over # None /\ MaxStalls \in Nat
  BY JobsAssumption DEF LeaseInv
<1>1. CASE Fire(p)
  BY <1>1, StartLease DEF Fire, lease, processes, bounds
<1>2. CASE Insert(p)
  <2>1. /\ run[p] = "inserting" /\ run'[p] = "claiming"
        /\ \A q \in Processes : q # p => run'[q] = run[q]
        /\ UNCHANGED <<beaten, stage, stalls>>
    BY <1>0, <1>2 DEF Insert, Goto, TypeOK, processes, bounds
  <2>2. \/ owner = None /\ owner' = p
        \/ owner' = owner /\ live' = live
    BY <1>2 DEF Insert, lease
  <2>3. Overtaken'
    BY <1>0, <2>1, <2>2 DEF Overtaken, Alive, Tasked
  <2>4. ASSUME stalls' = 0, NEW q \in Processes, Working(q)'
        PROVE  owner' = q /\ live'
    <3>1. Working(q) /\ owner = q /\ live
      BY <1>0, <2>1, <2>4 DEF Owning, Working, Alive, Tasked
    <3> QED
      BY <2>2, <3>1, JobsAssumption
  <2> QED
    BY <2>3, <2>4 DEF Owning
<1>3. CASE Claim(p)
  <2>1. CASE Claimable(p)
    <3>1. /\ owner' = p /\ live' = TRUE /\ run' = [run EXCEPT ![p] = "working"]
          /\ \A q \in Processes : beaten'[q] <=> beaten[q] \/ (q # p /\ Working(q))
          /\ UNCHANGED <<stage, stalls>> /\ run[p] = "claiming" /\ Alive(p)
      BY <1>0, <1>3, <2>1 DEF Claim, Goto, TypeOK, processes, bounds
    <3>2. Overtaken'
      BY <1>0, <3>1 DEF Overtaken, Working, Alive, Tasked, TypeOK
    <3>3. stalls = 0 => \A q \in Processes : q # p => ~Working(q)
      BY <1>0, <2>1 DEF Owning, Claimable
    <3>4. Owning'
      BY <1>0, <3>1, <3>3 DEF Owning, Working, Alive, TypeOK
    <3> QED
      BY <3>2, <3>4
  <2>2. CASE ~Claimable(p)
    BY <1>0, <1>3, <2>2 DEF Claim, Overtaken, Owning, Working, Alive, Tasked, Goto, TypeOK,
                    lease, processes, bounds
  <2> QED
    BY <2>1, <2>2
<1>4. CASE Heartbeat(p)
  BY <1>0, <1>4 DEF Heartbeat, Overtaken, Owning, Working, Alive, processes, bounds
<1>5. CASE TaskDone(p)
  BY <1>0, <1>5 DEF TaskDone, Overtaken, Owning, Working, Alive, Tasked, Goto, TypeOK,
                    lease, processes, bounds
<1>6. CASE FinalRenew(p)
  BY <1>0, <1>6 DEF FinalRenew, Renewal, Overtaken, Owning, Working, Alive, Tasked, Goto,
                    TypeOK, processes, bounds
<1>7. CASE Release(p)
  <2>1. /\ run[p] \in {"releasing", "abandoning"} /\ run'[p] \in {"succeeded", "failed"}
        /\ run'[p] = "succeeded" => run[p] = "releasing"
        /\ \A q \in Processes : q # p => run'[q] = run[q]
        /\ UNCHANGED <<beaten, stage, stalls>>
    BY <1>0, <1>7 DEF Release, Goto, TypeOK, processes, bounds
  <2>2. \/ owner' = owner /\ live' = live
        \/ owner = p /\ owner' = None
    BY <1>7 DEF Release, lease
  <2>3. Overtaken'
    BY <1>0, <2>1, <2>2, JobsAssumption DEF Overtaken, Alive, Tasked
  <2>4. Owning'
    BY <1>0, <2>1, <2>2 DEF Owning, Working, Alive, Tasked
  <2> QED
    BY <2>3, <2>4
<1>8. CASE StatementFails(p)
  <2>1. /\ UNCHANGED <<beaten, live, stage, stalls>>
        /\ \A q \in Processes : q # p => run'[q] = run[q]
    BY <1>0, <1>8 DEF StatementFails, Fault, Goto, TypeOK, processes
  <2>2. \/ run[p] \notin Tasked /\ run'[p] = "failed" /\ LeaveRow(p)
        \/ run[p] \in Tasked /\ run'[p] \in {run[p], "abandoning"} /\ UNCHANGED owner
    BY <1>0, <1>8 DEF StatementFails, Goto, Tasked, TypeOK
  <2>3. Overtaken'
    BY <1>0, <2>1, <2>2, JobsAssumption DEF Overtaken, LeaveRow, Alive, Tasked
  <2>4. Owning'
    BY <1>0, <2>1, <2>2 DEF Owning, LeaveRow, Working, Alive, Tasked
  <2> QED
    BY <2>3, <2>4
<1> QED
  BY <1>1, <1>2, <1>3, <1>4, <1>5, <1>6, <1>7, <1>8 DEF RunStep

LEMMA ExitLease ==
  ASSUME LeaseInv, NEW p \in Processes, NEW to \in {"exited", "aborted"}, Exit(p, to),
         UNCHANGED stalls
  PROVE  Overtaken' /\ Owning'
BY JobsAssumption DEF LeaseInv, Exit, Enter, LeaveRow, Overtaken, Owning, Working, Alive,
     Tasked, TypeOK, runs

LEMMA ProcessLease ==
  ASSUME LeaseInv, NEW p \in Processes, ProcessStep(p)
  PROVE  Overtaken' /\ Owning'
<1>0. TypeOK /\ Overtaken /\ Owning
  BY DEF LeaseInv
<1>1. CASE Stop(p) \/ Drained(p) \/ Stopped(p) \/ Quiescent(p) \/ Unsettled(p)
  <2>1. /\ UNCHANGED <<owner, live, run, beaten, stalls>>
        /\ \A q \in Processes : Alive(q)' <=> Alive(q)
    BY <1>0, <1>1
       DEF Stop, Drained, Stopped, Quiescent, Unsettled, Enter, Alive, TypeOK,
           lease, runs, bounds
  <2> QED
    BY <1>0, <2>1 DEF Overtaken, Owning, Working
<1>2. CASE Settled(p) \/ TaskTimeout(p) \/ Crash(p)
  <2>1. PICK to \in {"exited", "aborted"} : Exit(p, to)
    BY <1>2 DEF Settled, TaskTimeout, Crash
  <2>2. UNCHANGED stalls
    BY <1>2 DEF Settled, TaskTimeout, Crash, Fault, bounds
  <2> QED
    BY <2>1, <2>2, ExitLease
<1>3. CASE Restart(p)
  BY <1>0, <1>3 DEF Restart, Enter, Goto, Overtaken, Owning, Working, Alive, Tasked, TypeOK,
                    lease, bounds
<1> QED
  BY <1>1, <1>2, <1>3 DEF ProcessStep

LEMMA HandlerLease ==
  ASSUME LeaseInv, NEW h \in Handlers, HandlerStep(h)
  PROVE  Overtaken' /\ Owning'
<1>1. CASE Find(h) \/ Enable(h) \/ Track(h) \/ TaskOver(h) \/ FollowUp(h)
  BY <1>1 DEF Find, Enable, Track, TaskOver, FollowUp, LeaseInv, Overtaken, Owning, Working, Alive,
              lease, runs, processes, bounds
<1>2. CASE Invoke(h)
  BY <1>2, StartLease, JobsAssumption DEF Invoke, lease, processes, bounds
<1> QED
  BY <1>1, <1>2 DEF HandlerStep

LEMMA ExpireLease ==
  ASSUME LeaseInv, Expire
  PROVE  Overtaken' /\ Owning'
<1>1. Overtaken'
  BY DEF LeaseInv, Expire, Overtaken, Alive, runs, processes
<1>2. UNCHANGED <<owner, run, stage>>
  BY DEF Expire, runs, processes
<1>3. CASE owner = Over
  <2>1. stalls' = stalls
    BY <1>3 DEF Expire
  <2>2. stalls = 0 => \A p \in Processes : ~Working(p)
    BY <1>3, JobsAssumption DEF LeaseInv, Owning
  <2> QED
    BY <1>1, <1>2, <2>1, <2>2 DEF Owning, Working, Alive
<1>4. CASE owner # Over
  <2>1. stalls \in Nat /\ stalls' = stalls + 1
    BY <1>4, JobsAssumption DEF LeaseInv, Expire, TypeOK
  <2>2. stalls' # 0
    BY <2>1
  <2> QED
    BY <1>1, <2>2 DEF Owning
<1> QED
  BY <1>3, <1>4

LEMMA NextLease == LeaseInv /\ [Next]_vars => LeaseInv'
<1> SUFFICES ASSUME LeaseInv, [Next]_vars PROVE LeaseInv'
  OBVIOUS
<1>1. TypeOK'
  BY NextTypes DEF LeaseInv
<1>2. CASE UNCHANGED vars
  BY <1>1, <1>2 DEF LeaseInv, Overtaken, Owning, Working, Alive, vars
<1>3. CASE Next
  BY <1>1, <1>3, RunLease, ProcessLease, HandlerLease, ExpireLease DEF Next, LeaseInv
<1> QED
  BY <1>2, <1>3

(* A run whose task was overlapped by a later one never reports success,    *)
(* whenever leases expire, statements fail and processes die.               *)
THEOREM LastClaimWins == Spec => []LastClaimSucceeds
<1>1. LeaseInv => LastClaimSucceeds
  BY DEF LeaseInv, Overtaken, LastClaimSucceeds
<1> QED
  BY LeaseInit, NextLease, <1>1, PTL DEF Spec

(* Until a lease expires under its run, tasks never overlap.                *)
THEOREM LeaseExcludes == Spec => []TasksExclude
<1>1. LeaseInv => TasksExclude
  BY DEF LeaseInv, Owning, TasksExclude
<1> QED
  BY LeaseInit, NextLease, <1>1, PTL DEF Spec

-----------------------------------------------------------------------------
(* Shutdown *)

Unscheduled == \A h \in Enables : handler[h] \in Uncalled

Closing == {"settling", "turning"}

(* A process that is stopping cannot start the job any more, by its timer   *)
(* or, once drained, by a handler; when it settles no run is left.          *)
Quiet ==
  \A p \in Processes :
    /\ stage[p] \in {"draining", "stopping"} \cup Closing => ~armed[p]
    /\ stage[p] \in {"stopping"} \cup Closing /\ ~forced[p] => ~Handling(p)
    /\ stage[p] \in Closing /\ ~forced[p] => run[p] \in Resting

ExitInv == TypeOK /\ (Unscheduled => Quiet /\ CleanExit)

LEMMA ExitInit == Init => ExitInv
BY TypeInit DEF Init, ExitInv, Quiet, Closing, CleanExit

(* A step that starts no run and sets no timer where it matters.            *)
LEMMA RunExit ==
  ASSUME TypeOK, Quiet, CleanExit, NEW p \in Processes, RunStep(p)
  PROVE  Quiet' /\ CleanExit'
<1>1. UNCHANGED <<stage, armed, forced, handler>> /\ Alive(p)
  BY DEF RunStep, Fire, Insert, Claim, Heartbeat, TaskDone, FinalRenew, Release,
         StatementFails, processes
<1>2. \A q \in Processes : q # p => run'[q] = run[q]
  BY DEF RunStep, Fire, Start, Insert, Claim, Heartbeat, TaskDone, FinalRenew, Renewal,
         Release, StatementFails, Goto, TypeOK, runs
<1>3. CASE Fire(p)
  <2>1. armed[p]
    BY <1>3 DEF Fire
  <2> QED
    BY <1>1, <1>2, <2>1 DEF Quiet, Closing, CleanExit, TaskIs, Handling, Alive
<1>4. CASE ~Fire(p)
  <2>1. run[p] \notin Resting
    BY <1>4 DEF RunStep, Insert, Claim, Heartbeat, TaskDone, FinalRenew, Release,
         StatementFails, Resting, Tasked
  <2> QED
    BY <1>1, <1>2, <2>1 DEF Quiet, Closing, CleanExit, TaskIs, Handling, Alive
<1> QED
  BY <1>3, <1>4

(* Of the steps of a shutdown, only its last can make an exit unclean.      *)
LEMMA StageExit ==
  ASSUME TypeOK, Quiet, CleanExit, NEW p \in Processes,
         Stop(p) \/ Drained(p) \/ Stopped(p) \/ Quiescent(p)
  PROVE  Quiet' /\ CleanExit'
<1>1. UNCHANGED <<run, handler>>
  BY DEF Stop, Drained, Stopped, Quiescent, runs
<1>2. \A q \in Processes : q # p =>
        stage'[q] = stage[q] /\ armed'[q] = armed[q] /\ forced'[q] = forced[q]
  BY DEF Stop, Drained, Stopped, Quiescent, Enter, TypeOK
<1>3. stage'[p] # "exited"
  BY DEF Stop, Drained, Stopped, Quiescent, Enter, TypeOK
<1>4. CleanExit'
  BY <1>1, <1>2, <1>3 DEF CleanExit, TaskIs
<1>5. \A q \in Processes : Handling(q)' <=> Handling(q)
  BY <1>1 DEF Handling
<1>6. /\ stage'[p] \in {"draining", "stopping"} \cup Closing => ~armed'[p]
      /\ stage'[p] \in {"stopping"} \cup Closing /\ ~forced'[p] => ~Handling(p)
      /\ stage'[p] \in Closing /\ ~forced'[p] => run[p] \in Resting
  <2>1. CASE Stop(p)
    BY <2>1 DEF Stop, Enter, Closing, TypeOK
  <2>2. CASE Drained(p)
    BY <2>2 DEF Drained, Enter, Quiet, Closing, TypeOK
  <2>3. CASE Stopped(p)
    BY <2>3 DEF Stopped, Enter, Quiet, Closing, TypeOK
  <2>4. CASE Quiescent(p)
    BY <2>4 DEF Quiescent, Enter, Quiet, Closing, TypeOK
  <2> QED
    BY <2>1, <2>2, <2>3, <2>4
<1>7. Quiet'
  BY <1>1, <1>2, <1>5, <1>6 DEF Quiet
<1> QED
  BY <1>4, <1>7

LEMMA ProcessExit ==
  ASSUME TypeOK, Quiet, CleanExit, NEW p \in Processes, ProcessStep(p)
  PROVE  Quiet' /\ CleanExit'
<1>1. CASE Stop(p) \/ Drained(p) \/ Stopped(p) \/ Quiescent(p)
  BY <1>1, StageExit
<1>2. CASE Unsettled(p)
  <2>1. /\ stage[p] = "turning" /\ stage' = [stage EXCEPT ![p] = "settling"]
        /\ UNCHANGED <<run, armed, forced>>
        /\ \A h \in Handlers :
             /\ ServerOf[h] # p => handler'[h] = handler[h]
             /\ handler'[h] = "found" => handler[h] = "found"
    BY <1>2 DEF Unsettled, Enter, TypeOK, runs
  <2>2. Quiet'
    BY <2>1 DEF Quiet, Closing, Handling, TypeOK
  <2>3. CleanExit'
    BY <2>1 DEF CleanExit, TaskIs, TypeOK
  <2> QED
    BY <2>2, <2>3
<1>3. CASE Settled(p) \/ TaskTimeout(p) \/ Crash(p)
  <2>1. PICK to \in {"exited", "aborted"} : Exit(p, to)
    BY <1>3 DEF Settled, TaskTimeout, Crash
  <2>2. /\ \A q \in Processes : q # p => stage'[q] = stage[q]
        /\ stage'[p] \in {"exited", "aborted"}
        /\ UNCHANGED <<run, armed, forced>>
        /\ \A h \in Handlers : handler'[h] \in {handler[h], "done"}
    BY <2>1 DEF Exit, Enter, TypeOK, runs
  <2>3. stage'[p] = "exited" => run[p] \in Resting /\ ~TaskIs(p, {"tracked", "deferred"})
    BY <1>3 DEF Settled, TaskTimeout, Crash, Exit, Enter, Quiet, Closing, TypeOK
  <2>4. Quiet'
    BY <2>2 DEF Quiet, Closing, Handling
  <2>5. CleanExit'
    BY <2>2, <2>3 DEF CleanExit, TaskIs
  <2> QED
    BY <2>4, <2>5
<1>4. CASE Restart(p)
  <2>1. /\ \A q \in Processes : q # p =>
             /\ stage'[q] = stage[q] /\ run'[q] = run[q]
             /\ armed'[q] = armed[q] /\ forced'[q] = forced[q]
        /\ stage'[p] = "up"
        /\ \A h \in Handlers : handler'[h] \in {handler[h], "done"}
    BY <1>4 DEF Restart, Enter, Goto, TypeOK
  <2>2. Quiet'
    BY <2>1 DEF Quiet, Closing, Handling
  <2>3. CleanExit'
    BY <2>1 DEF CleanExit, TaskIs
  <2> QED
    BY <2>2, <2>3
<1> QED
  BY <1>1, <1>2, <1>3, <1>4 DEF ProcessStep

LEMMA HandlerExit ==
  ASSUME TypeOK, Quiet, CleanExit, NEW h \in Handlers, HandlerStep(h), ~Enable(h)
  PROVE  Quiet' /\ CleanExit'
<1> DEFINE p == ServerOf[h]
<1>0. p \in Processes
  BY JobsAssumption
<1>1. /\ UNCHANGED <<stage, armed, forced>> /\ Alive(p)
      /\ \A g \in Handlers : g # h => handler'[g] = handler[g]
  BY DEF HandlerStep, Find, Invoke, Track, TaskOver, FollowUp, Alive, TypeOK, processes
<1>2. handler'[h] = "found" => stage[p] = "up" \/ handler[h] = "found"
  BY DEF HandlerStep, Find, Invoke, Track, TaskOver, FollowUp, TypeOK
<1>3. \A q \in Processes : Handling(q)' => Handling(q) \/ stage[q] = "up"
  BY <1>1, <1>2 DEF Handling
<1>4. \A q \in Processes : run'[q] # run[q] => q = p /\ Handling(p)
  BY DEF HandlerStep, Find, Invoke, Start, Goto, Track, TaskOver, FollowUp, Handling, TypeOK,
         runs
<1>5. Quiet'
  <2> SUFFICES ASSUME NEW q \in Processes
               PROVE  /\ stage[q] \in {"draining", "stopping"} \cup Closing => ~armed[q]
                      /\ stage[q] \in {"stopping"} \cup Closing /\ ~forced[q] => ~Handling(q)'
                      /\ stage[q] \in Closing /\ ~forced[q] => run'[q] \in Resting
    BY <1>1 DEF Quiet
  <2>1. stage[q] = "up" => stage[q] \notin {"stopping"} \cup Closing
    BY DEF Closing
  <2>2. stage[q] \in Closing /\ ~forced[q] => ~Handling(q) /\ run[q] \in Resting
    BY DEF Quiet
  <2> QED
    BY <1>3, <1>4, <2>1, <2>2 DEF Quiet
<1>6. CleanExit'
  <2> SUFFICES ASSUME NEW q \in Processes, stage[q] = "exited"
               PROVE  run'[q] \in Resting /\ ~TaskIs(q, {"tracked", "deferred"})'
    BY <1>1 DEF CleanExit
  <2>1. q # p
    BY <1>1 DEF Alive
  <2> QED
    BY <1>1, <1>4, <2>1 DEF CleanExit, TaskIs
<1> QED
  BY <1>5, <1>6

LEMMA NextExit == ExitInv /\ [Next]_vars => ExitInv'
<1> SUFFICES ASSUME ExitInv, [Next]_vars, Unscheduled' PROVE Quiet' /\ CleanExit'
  BY NextTypes DEF ExitInv
<1>0. TypeOK /\ TypeOK'
  BY NextTypes DEF ExitInv
<1>1. \A h \in Handlers : handler'[h] \in Uncalled => handler[h] \in Uncalled
  <2>1. CASE UNCHANGED handler
    BY <2>1
  <2>2. ASSUME NEW p \in Processes, Unsettled(p) \/ Restart(p) \/ (\E to \in Stages : Exit(p, to))
        PROVE  \A h \in Handlers : handler'[h] \in Uncalled => handler[h] \in Uncalled
    BY <2>2 DEF Unsettled, Restart, Exit, Uncalled
  <2>3. ASSUME NEW h \in Handlers, HandlerStep(h)
        PROVE  \A g \in Handlers : handler'[g] \in Uncalled => handler[g] \in Uncalled
    BY <1>0, <2>3 DEF HandlerStep, Find, Invoke, Enable, Track, TaskOver, FollowUp, Uncalled, TypeOK
  <2>4. ASSUME NEW p \in Processes, RunStep(p) \/ ProcessStep(p)
        PROVE  \/ UNCHANGED handler
               \/ Unsettled(p) \/ Restart(p) \/ (\E to \in Stages : Exit(p, to))
    BY <2>4 DEF RunStep, Fire, Insert, Claim, Heartbeat, TaskDone, FinalRenew, Release,
         StatementFails, ProcessStep, Stop, Drained, Stopped, Quiescent, Settled, TaskTimeout,
         Crash, Stages
  <2> QED
    BY <2>1, <2>2, <2>3, <2>4 DEF Next, Expire, vars
<1>2. Unscheduled /\ Quiet /\ CleanExit
  BY <1>1 DEF Unscheduled, ExitInv, Handlers
<1>3. CASE UNCHANGED vars
  BY <1>2, <1>3 DEF Quiet, CleanExit, TaskIs, Handling, vars
<1>4. CASE Expire
  BY <1>2, <1>4 DEF Expire, Quiet, CleanExit, TaskIs, Handling, runs, processes
<1>5. ASSUME NEW h \in Handlers PROVE ~Enable(h)
  <2>1. Enable(h) => h \in Enables /\ handler'[h] = "done"
    BY <1>0 DEF Enable, TypeOK
  <2>2. "done" \notin Uncalled
    BY DEF Uncalled
  <2> QED
    BY <2>1, <2>2 DEF Unscheduled
<1>6. CASE Next
  BY <1>0, <1>2, <1>4, <1>5, <1>6, RunExit, ProcessExit, HandlerExit DEF Next
<1> QED
  BY <1>3, <1>6

(* A process that exits with code 0 leaves no run, no background task and    *)
(* no follow-up behind but one of the last turn, unless the job was          *)
(* scheduled again by POST /jobs/:id/enabled.                                *)
THEOREM ExitsClean == Spec => []CleanExitUnscheduled
<1>1. ExitInv => CleanExitUnscheduled
  BY DEF ExitInv, Unscheduled, CleanExitUnscheduled
<1> QED
  BY ExitInit, NextExit, <1>1, PTL DEF Spec
=============================================================================
