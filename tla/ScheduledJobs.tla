----------------------------- MODULE ScheduledJobs -----------------------------
(***************************************************************************)
(* One scheduled job of several server processes that share a database.    *)
(*                                                                         *)
(* A timer or POST /settings/jobs/:id/run starts the job in a process that *)
(* is not running it.  The run claims the job's row of scheduled_job_lease *)
(* (an insert that ignores a conflict, then an update of an own or expired *)
(* row), renews it while the task works, renews it once more when the task *)
(* is done, and deletes it.  A run that finds another owner at any of      *)
(* these fails.                                                            *)
(*                                                                         *)
(* A process that is told to stop cancels the timers, waits for the HTTP   *)
(* handlers, then for the runs, then for its background tasks, and exits   *)
(* with code 0 if none of the waits timed out.  A background task that ends *)
(* may leave a follow-up for the next turn of the event loop, which becomes *)
(* a task of its own; the wait for the tasks therefore ends with a turn.    *)
(*                                                                         *)
(* Each run has an owner id of its own: the row is owned by the run that a *)
(* process is making, or by a run that is over.  Time is kept as a flag of *)
(* the row: it is live until it expires.                                   *)
(***************************************************************************)
EXTENDS Naturals

CONSTANTS
  Processes,   \* server processes
  Invokes,     \* calls of POST /jobs/:id/run
  Enables,     \* calls of POST /jobs/:id/enabled
  Starts,      \* calls that start a background task, as POST /slack/actions
  ServerOf,    \* the process that each call reaches
  Instances,   \* which calls are made, and how many faults happen
  MaxFaults,   \* bound on database failures and crashes
  MaxStalls,   \* bound on leases that expire under their run
  MaxStops,    \* bound on signals to stop
  Over,        \* the owner of a row left by a run that is over
  None         \* no row

Handlers == Invokes \cup Enables \cup Starts

ASSUME JobsAssumption ==
  /\ Invokes \cap Enables = {} /\ Starts \cap (Invokes \cup Enables) = {}
  /\ ServerOf \in [Handlers -> Processes]
  /\ MaxFaults \in Nat /\ MaxStalls \in Nat /\ MaxStops \in Nat
  /\ Instances \subseteq [calls : SUBSET Handlers, faults : 0..MaxFaults]
  /\ Over \notin Processes /\ None \notin Processes /\ Over # None

VARIABLES
  owner,    \* owner of the row
  live,     \* expiresAt is not over
  run,      \* what the run of each process is doing
  overdue,  \* the row had expired when claim() read the clock
  lost,     \* heartbeatError
  beaten,   \* another run has begun its task meanwhile
  stage,    \* of each process
  armed,    \* the timer of the job is set
  forced,   \* the wait for the handlers timed out
  handler,  \* what each HTTP handler, and then its background task, is doing
  faults, stalls, stops

lease == <<owner, live>>
runs == <<run, overdue, lost, beaten>>
processes == <<stage, armed, forced>>
bounds == <<faults, stalls, stops>>
vars == <<owner, live, run, overdue, lost, beaten, stage, armed, forced, handler,
          faults, stalls, stops>>

-----------------------------------------------------------------------------

Resting == {"idle", "succeeded", "failed", "refused"}
Tasked == {"working", "finishing"}
Runs == Resting \cup Tasked \cup {"inserting", "claiming", "releasing", "abandoning"}
Stages == {"up", "draining", "stopping", "settling", "turning", "exited", "aborted"}

(* A background task is tracked; its follow-up waits for a turn of the event *)
(* loop, before or behind the turn that the shutdown waits for.              *)
FollowUps == {"deferred", "behind"}
Uncalled == {"never", "idle"}
Calls == Uncalled \cup {"found", "tracked", "done"} \cup FollowUps

TypeOK ==
  /\ owner \in Processes \cup {Over, None}
  /\ live \in BOOLEAN
  /\ run \in [Processes -> Runs]
  /\ overdue \in [Processes -> BOOLEAN]
  /\ lost \in [Processes -> BOOLEAN]
  /\ beaten \in [Processes -> BOOLEAN]
  /\ stage \in [Processes -> Stages]
  /\ armed \in [Processes -> BOOLEAN]
  /\ forced \in [Processes -> BOOLEAN]
  /\ handler \in [Handlers -> Calls]
  /\ faults \in 0..MaxFaults /\ stalls \in 0..MaxStalls /\ stops \in 0..MaxStops

Init ==
  /\ owner = None /\ live = FALSE
  /\ run = [p \in Processes |-> "idle"]
  /\ overdue = [p \in Processes |-> FALSE]
  /\ lost = [p \in Processes |-> FALSE]
  /\ beaten = [p \in Processes |-> FALSE]
  /\ stage = [p \in Processes |-> "up"]
  /\ armed = [p \in Processes |-> TRUE]
  /\ forced = [p \in Processes |-> FALSE]
  /\ stalls = 0 /\ stops = 0
  /\ \E i \in Instances :
       /\ handler = [h \in Handlers |-> IF h \in i.calls THEN "idle" ELSE "never"]
       /\ faults = MaxFaults - i.faults

Alive(p) == stage[p] \notin {"exited", "aborted"}

Running(p) == Alive(p) /\ run[p] \notin Resting

Working(p) == Alive(p) /\ run[p] \in Tasked

Goto(p, to) == run' = [run EXCEPT ![p] = to]

Fault == faults < MaxFaults /\ faults' = faults + 1 /\ UNCHANGED <<stalls, stops>>

(* The run of the process ends and leaves its row behind. *)
LeaveRow(p) == owner' = IF owner = p THEN Over ELSE owner

-----------------------------------------------------------------------------
(* Runs *)

(* runTrackedJob() returns the active run if there is one. *)
Start(p) ==
  IF run[p] \in Resting
  THEN /\ Goto(p, "inserting")
       /\ overdue' = [overdue EXCEPT ![p] = owner # None /\ ~live]
       /\ lost' = [lost EXCEPT ![p] = FALSE]
       /\ beaten' = [beaten EXCEPT ![p] = FALSE]
  ELSE UNCHANGED runs

Fire(p) ==
  /\ Alive(p) /\ armed[p] /\ run[p] \in Resting
  /\ Start(p)
  /\ UNCHANGED <<lease, processes, handler, bounds>>

Insert(p) ==
  /\ Alive(p) /\ run[p] = "inserting"
  /\ IF owner = None THEN owner' = p /\ live' = TRUE ELSE UNCHANGED lease
  /\ Goto(p, "claiming")
  /\ UNCHANGED <<overdue, lost, beaten, processes, handler, bounds>>

ClaimableOnce(p) == owner = p  \* mutant: an expired row is not taken over

ClaimableStale(p) == owner = p \/ overdue[p]  \* mutant: the row is not looked at again

Claimable(p) == owner = p \/ (owner # None /\ ~live /\ overdue[p])

Claim(p) ==
  /\ Alive(p) /\ run[p] = "claiming"
  /\ IF Claimable(p)
     THEN /\ owner' = p /\ live' = TRUE
          /\ Goto(p, "working")
          /\ beaten' = [q \in Processes |-> beaten[q] \/ (q # p /\ Working(q))]
     ELSE Goto(p, "refused") /\ UNCHANGED <<lease, beaten>>
  /\ UNCHANGED <<overdue, lost, processes, handler, bounds>>

(* A renewal that is on its way when the task ends is awaited. *)
Heartbeat(p) ==
  /\ Alive(p) /\ run[p] \in Tasked
  /\ IF owner = p THEN live' = TRUE /\ UNCHANGED lost
     ELSE lost' = [lost EXCEPT ![p] = TRUE] /\ UNCHANGED live
  /\ UNCHANGED <<owner, run, overdue, beaten, processes, handler, bounds>>

TaskDone(p) ==
  /\ Alive(p) /\ run[p] = "working"
  /\ \E to \in {"finishing", "abandoning"} : Goto(p, to)  \* it succeeds or throws
  /\ UNCHANGED <<lease, overdue, lost, beaten, processes, handler, bounds>>

RenewalBlind(p) ==  \* mutant: what the heartbeats said is enough
  IF lost[p] THEN Goto(p, "abandoning") /\ UNCHANGED live
  ELSE Goto(p, "releasing") /\ UNCHANGED live

Renewal(p) ==
  IF ~lost[p] /\ owner = p
  THEN Goto(p, "releasing") /\ live' = TRUE
  ELSE Goto(p, "abandoning") /\ UNCHANGED live

FinalRenew(p) ==
  /\ Alive(p) /\ run[p] = "finishing"
  /\ Renewal(p)
  /\ UNCHANGED <<owner, overdue, lost, beaten, processes, handler, bounds>>

Release(p) ==
  /\ Alive(p) /\ run[p] \in {"releasing", "abandoning"}
  /\ IF owner = p THEN owner' = None /\ live' = FALSE ELSE UNCHANGED lease
  /\ Goto(p, IF run[p] = "releasing" /\ owner = p THEN "succeeded" ELSE "failed")
  /\ UNCHANGED <<overdue, lost, beaten, processes, handler, bounds>>

Expire ==
  /\ live
  /\ IF owner = Over THEN UNCHANGED stalls
     ELSE stalls < MaxStalls /\ stalls' = stalls + 1
  /\ live' = FALSE
  /\ UNCHANGED <<owner, runs, processes, handler, faults, stops>>

(* A statement fails; the heartbeat's failure is kept until the task ends.  *)
StatementFails(p) ==
  /\ Alive(p) /\ Fault
  /\ CASE run[p] \in {"inserting", "claiming", "releasing", "abandoning"} ->
            Goto(p, "failed") /\ LeaveRow(p) /\ UNCHANGED lost
       [] run[p] = "finishing" -> Goto(p, "abandoning") /\ UNCHANGED <<owner, lost>>
       [] run[p] = "working" -> lost' = [lost EXCEPT ![p] = TRUE] /\ UNCHANGED <<owner, run>>
       [] OTHER -> FALSE
  /\ UNCHANGED <<live, overdue, beaten, processes, handler>>

-----------------------------------------------------------------------------
(* HTTP handlers *)

FindRefused(h) ==  \* mutant: a refused call is not over
  /\ handler[h] = "idle" /\ stage[ServerOf[h]] = "up"
  /\ handler' = [handler EXCEPT ![h] =
       IF h \in Invokes /\ (Running(ServerOf[h]) \/ (owner # None /\ live))
       THEN "refused" ELSE "found"]
  /\ UNCHANGED <<lease, runs, processes, bounds>>

(* scheduledJobs is empty once stopJobs() was called. *)
Find(h) ==
  LET p == ServerOf[h] IN
  /\ handler[h] = "idle" /\ stage[p] = "up"
  /\ handler' = [handler EXCEPT ![h] =
       IF h \in Invokes /\ (Running(p) \/ (owner # None /\ live)) THEN "done" ELSE "found"]
  /\ UNCHANGED <<lease, runs, processes, bounds>>

(* After the lookup of the lease. *)
Invoke(h) ==
  LET p == ServerOf[h] IN
  /\ h \in Invokes /\ handler[h] = "found" /\ Alive(p)
  /\ handler' = [handler EXCEPT ![h] = "done"]
  /\ Start(p)
  /\ UNCHANGED <<lease, processes, bounds>>

(* trackBackgroundTask(), before or after the response. *)
Track(h) ==
  /\ h \in Starts /\ handler[h] = "found" /\ Alive(ServerOf[h])
  /\ handler' = [handler EXCEPT ![h] = "tracked"]
  /\ UNCHANGED <<lease, runs, processes, bounds>>

(* After save(): the job is scheduled again, or cancelled. *)
Enable(h) ==
  LET p == ServerOf[h] IN
  /\ h \in Enables /\ handler[h] = "found" /\ Alive(p)
  /\ handler' = [handler EXCEPT ![h] = "done"]
  /\ \E on \in BOOLEAN : armed' = [armed EXCEPT ![p] = on]
  /\ UNCHANGED <<lease, runs, stage, forced, bounds>>

-----------------------------------------------------------------------------
(* Background tasks *)

TaskIs(p, kinds) == \E h \in Handlers : ServerOf[h] = p /\ handler[h] \in kinds

(* What a task has tracked itself is taken as part of it.  Callbacks of     *)
(* setImmediate() run in their order.                                       *)
TaskOver(h) ==
  LET p == ServerOf[h] IN
  /\ handler[h] = "tracked" /\ Alive(p)
  /\ \E to \in {"done", IF stage[p] = "turning" THEN "behind" ELSE "deferred"} :
       handler' = [handler EXCEPT ![h] = to]
  /\ UNCHANGED <<lease, runs, processes, bounds>>

FollowUp(h) ==
  /\ handler[h] = "deferred" /\ Alive(ServerOf[h])
  /\ handler' = [handler EXCEPT ![h] = "tracked"]
  /\ UNCHANGED <<lease, runs, processes, bounds>>

-----------------------------------------------------------------------------
(* Shutdown *)

Enter(p, to) == stage' = [stage EXCEPT ![p] = to]

(* onStart(): stopJobs() cancels the timers. *)
Stop(p) ==
  /\ stage[p] = "up" /\ stops < MaxStops
  /\ Enter(p, "draining")
  /\ armed' = [armed EXCEPT ![p] = FALSE]
  /\ stops' = stops + 1
  /\ UNCHANGED <<lease, runs, forced, handler, faults, stalls>>

Handling(p) == \E h \in Handlers : ServerOf[h] = p /\ handler[h] = "found"

DrainedWaiting(p) ==  \* mutant: the connections are never closed
  /\ stage[p] = "draining" /\ ~Handling(p)
  /\ Enter(p, "stopping")
  /\ UNCHANGED <<lease, runs, armed, forced, handler, bounds>>

(* The server is closed, or its connections are after a while. *)
Drained(p) ==
  /\ stage[p] = "draining"
  /\ forced' = [forced EXCEPT ![p] = Handling(p)]
  /\ Enter(p, "stopping")
  /\ UNCHANGED <<lease, runs, armed, handler, bounds>>

(* Both calls of stopJobs() have waited for the runs. *)
Stopped(p) ==
  /\ stage[p] = "stopping" /\ run[p] \in Resting
  /\ Enter(p, "settling")
  /\ UNCHANGED <<lease, runs, armed, forced, handler, bounds>>

Exit(p, to) ==
  /\ Enter(p, to)
  /\ LeaveRow(p)
  /\ handler' = [h \in Handlers |->
                   IF ServerOf[h] = p /\ handler[h] = "found" THEN "done" ELSE handler[h]]
  /\ UNCHANGED <<live, runs, armed, forced>>

(* No task is left: the wait gives a follow-up one turn. *)
Quiescent(p) ==
  /\ stage[p] = "settling" /\ ~TaskIs(p, {"tracked"})
  /\ Enter(p, "turning")
  /\ UNCHANGED <<lease, runs, armed, forced, handler, bounds>>

(* A follow-up has become a task in that turn: the wait goes on. *)
Unsettled(p) ==
  /\ stage[p] = "turning" /\ ~TaskIs(p, {"deferred"}) /\ TaskIs(p, {"tracked"})
  /\ Enter(p, "settling")
  /\ handler' = [h \in Handlers |->
                   IF ServerOf[h] = p /\ handler[h] = "behind" THEN "deferred" ELSE handler[h]]
  /\ UNCHANGED <<lease, runs, armed, forced, bounds>>

SettledAtOnce(p) ==  \* mutant: the turn is not waited for
  /\ stage[p] = "turning" /\ ~TaskIs(p, {"tracked"})
  /\ Exit(p, IF forced[p] THEN "aborted" ELSE "exited")
  /\ UNCHANGED bounds

(* Password-reset deliveries and background tasks are over. *)
Settled(p) ==
  /\ stage[p] = "turning" /\ ~TaskIs(p, {"deferred", "tracked"})
  /\ Exit(p, IF forced[p] THEN "aborted" ELSE "exited")
  /\ UNCHANGED bounds

TaskTimeout(p) ==
  /\ stage[p] \in {"stopping", "settling", "turning"}
  /\ Exit(p, "aborted")
  /\ UNCHANGED bounds

(* Or a second signal. *)
Crash(p) == Alive(p) /\ Fault /\ Exit(p, "aborted")

Restart(p) ==
  /\ ~Alive(p)
  /\ Enter(p, "up")
  /\ Goto(p, "idle")
  /\ armed' = [armed EXCEPT ![p] = TRUE]
  /\ forced' = [forced EXCEPT ![p] = FALSE]
  /\ handler' = [h \in Handlers |->
                   IF ServerOf[h] = p /\ handler[h] \notin Uncalled THEN "done" ELSE handler[h]]
  /\ UNCHANGED <<lease, overdue, lost, beaten, bounds>>

-----------------------------------------------------------------------------

RunStep(p) ==
  \/ Fire(p) \/ Insert(p) \/ Claim(p) \/ Heartbeat(p) \/ TaskDone(p)
  \/ FinalRenew(p) \/ Release(p) \/ StatementFails(p)

ProcessStep(p) ==
  \/ Stop(p) \/ Drained(p) \/ Stopped(p) \/ Quiescent(p) \/ Unsettled(p) \/ Settled(p)
  \/ TaskTimeout(p) \/ Crash(p) \/ Restart(p)

HandlerStep(h) ==
  Find(h) \/ Invoke(h) \/ Enable(h) \/ Track(h) \/ TaskOver(h) \/ FollowUp(h)

Next ==
  \/ \E p \in Processes : RunStep(p) \/ ProcessStep(p)
  \/ \E h \in Handlers : HandlerStep(h)
  \/ Expire

Spec == Init /\ [][Next]_vars

(* Timers fire, statements are answered, tasks end and time passes.  HTTP   *)
(* handlers and background tasks may hang.                                  *)
Fairness ==
  /\ \A p \in Processes :
       /\ WF_vars(Fire(p)) /\ WF_vars(Insert(p)) /\ WF_vars(Claim(p))
       /\ WF_vars(TaskDone(p)) /\ WF_vars(FinalRenew(p)) /\ WF_vars(Release(p))
       /\ WF_vars(Drained(p)) /\ WF_vars(TaskTimeout(p))
  /\ WF_vars(owner = Over /\ Expire)

FairSpec == Spec /\ Fairness

-----------------------------------------------------------------------------
(* Properties *)

(* Of runs whose tasks overlap, only the one that claimed last succeeds.    *)
LastClaimSucceeds ==
  \A p \in Processes : Alive(p) /\ run[p] \in {"releasing", "succeeded"} => ~beaten[p]

(* No two tasks overlap as long as no lease expires under its run: crashes, *)
(* failed statements and rows left behind do not let a second one in.       *)
TasksExclude ==
  stalls = 0 => \A p, q \in Processes : Working(p) /\ Working(q) => p = q

(* A process that exits with code 0 leaves no run behind and no background  *)
(* task, nor the follow-up of a task that ended before the last turn.        *)
CleanExit ==
  \A p \in Processes :
    stage[p] = "exited" => run[p] \in Resting /\ ~TaskIs(p, {"tracked", "deferred"})

(* Nor any other follow-up: the turn was quiescent, as the comment at        *)
(* utils/backgroundTasks.ts:32 requires.                                     *)
QuiescentExit == \A p \in Processes : stage[p] = "exited" => ~TaskIs(p, {"behind"})

(* The same as long as nobody schedules the job again meanwhile.            *)
CleanExitUnscheduled == (\A h \in Enables : handler[h] \in Uncalled) => CleanExit

(* A row left by a dead run is taken over or deleted while some process     *)
(* keeps the job scheduled.                                                 *)
Serving(p) == stage[p] = "up" /\ armed[p]

LeaseRecovered ==
  (\E p \in Processes : <>[]Serving(p)) => [](owner = Over => <>(owner # Over))

(* A process that is told to stop does, whatever hangs.                     *)
ShutdownEnds == \A p \in Processes : stage[p] = "draining" ~> ~Alive(p)
=============================================================================
