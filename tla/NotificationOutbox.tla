-------------------------- MODULE NotificationOutbox --------------------------
(***************************************************************************)
(* The durable delivery of notifications.                                  *)
(*                                                                         *)
(* A notification is a row of the table notification_outbox.  Most rows    *)
(* are written inside the transaction that changes the request or the      *)
(* issue they are about; their delivery is deferred until that transaction *)
(* has committed.  Every process runs a NotificationManager, which claims  *)
(* a row under a lease, sends it to each agent (mail, Slack, ...) that has *)
(* not had it yet, checkpoints every agent that accepted it, and deletes   *)
(* the row or leaves it to a later scan.                                   *)
(*                                                                         *)
(* The table is kept by PostgreSQL, or by SQLite through one connection    *)
(* that all callbacks of the single process share: a statement executed    *)
(* while some transaction is open is then part of it, sees its rows, and   *)
(* is undone with it.                                                      *)
(*                                                                         *)
(* Time is abstracted as in RequestDispatch: "due" is an elapsed retry     *)
(* delay, "live" a claim whose lease runs, and any row may be found to be  *)
(* past its maximal age.  The random token of a claim is the process that  *)
(* made it: one process has at most one delivery of a row under way.       *)
(***************************************************************************)
EXTENDS Naturals, FiniteSets

CONSTANTS
  Processes,     \* server processes sharing the table
  Solo,          \* the process that runs over SQLite
  Notifications, \* notifications, numbered in the order of their ids
  Raisers,       \* the processes whose handlers raise them
  Agents,        \* the notification agents, in the order of registration
  Targets,       \* targetAgents: the agents each notification is for
  None,          \* no process
  MaxAttempts,   \* MAX_NOTIFICATION_OUTBOX_ATTEMPTS
  MaxRows,       \* MAX_NOTIFICATION_OUTBOX_ROWS
  ScanBatch,     \* NOTIFICATION_OUTBOX_SCAN_BATCH_SIZE
  Concurrency,   \* NOTIFICATION_OUTBOX_DELIVERY_CONCURRENCY
  QueueLimit,    \* waiting tasks the delivery queue accepts
  Instances      \* the database, the notifications raised over it, and a
                 \* bound on crashes, rollbacks, errors and late heartbeats

ASSUME ConstantsAssumption ==
  /\ Solo \in Processes /\ None \notin Processes
  /\ Notifications \subseteq Nat /\ Agents \subseteq Nat
  /\ Targets \in [Notifications -> SUBSET Agents]
  /\ Raisers \subseteq Processes
  /\ Instances \subseteq [sqlite: BOOLEAN, raised: SUBSET Notifications, faults: Nat]
  /\ MaxAttempts \in Nat \ {0} /\ ScanBatch \in Nat \ {0} /\ Concurrency \in Nat \ {0}
  /\ MaxRows \in Nat /\ QueueLimit \in Nat

VARIABLES
  instance,   \* the instance chosen at the start, never changed
  stage,      \* what became of each notification (see Stages)
  raisedBy,   \* the process that raised it
  row,        \* the table, uncommitted rows included
  undo,       \* SQLite: the table when the open transaction began
  tx,         \* per process, its business transaction
  deferred,   \* per process, deferredOutboxDeliveries
  scan,       \* per process, the rows a scan has read and not dispatched
  starting,   \* processes that have not made their first scan
  task,       \* per process, the delivery queued or running for a row
  sends,      \* times each agent accepted each notification (up to two)
  troubled,   \* notifications that an agent refused, or that lost a claim
  faults      \* faults so far

vars == <<instance, stage, raisedBy, row, undo, tx, deferred, scan, starting, task,
          sends, troubled, faults>>

tables == <<row, undo>>
managers == <<tx, deferred, scan, starting>>
ghosts == <<sends, troubled, faults>>

-----------------------------------------------------------------------------
(* Types *)

(* entered: persistNotification counts an enqueue; inserted: its row is in  *)
(* the open transaction; open: its delivery is deferred; committed: its     *)
(* caller may rely on it; undone: its transaction failed; swept: the row of *)
(* a committed one was removed by the rollback of another transaction.      *)
Stages == {"none", "entered", "inserted", "open", "undone", "committed",
           "delivered", "discarded", "swept"}

Row == [there: BOOLEAN, delivered: SUBSET Agents, attempts: Nat, due: BOOLEAN,
        claim: Processes \cup {None}, live: BOOLEAN]

NoRow == [there |-> FALSE, delivered |-> {}, attempts |-> 0, due |-> TRUE,
          claim |-> None, live |-> FALSE]

NewRow == [NoRow EXCEPT !.there = TRUE]

(* A delivery works on the record it was dispatched with. *)
Snapshot == [seen: BOOLEAN, delivered: SUBSET Agents, attempts: Nat]

NotSeen == [seen |-> FALSE, delivered |-> {}, attempts |-> 0]

TaskStates == {"none", "queued", "claimed", "sending", "accepted", "checkpoint"}

Task == [pc: TaskStates, delivered: SUBSET Agents, attempts: Nat, tried: SUBSET Agents]

NoTask == [pc |-> "none", delivered |-> {}, attempts |-> 0, tried |-> {}]

Transactions == {"none", "open", "failing", "committed", "rolledback"}

TypeOK ==
  /\ instance \in Instances
  /\ stage \in [Notifications -> Stages]
  /\ raisedBy \in [Notifications -> Processes \cup {None}]
  /\ row \in [Notifications -> Row] /\ undo \in [Notifications -> Row]
  /\ tx \in [Processes -> Transactions]
  /\ deferred \in [Processes -> SUBSET Notifications]
  /\ scan \in [Processes -> [Notifications -> Snapshot]]
  /\ starting \in SUBSET Processes
  /\ task \in [Processes -> [Notifications -> Task]]
  /\ sends \in [Notifications -> [Agents -> 0..2]]
  /\ troubled \in SUBSET Notifications
  /\ faults \in Nat

Nothing == [n \in Notifications |-> NotSeen]

Init ==
  /\ instance \in Instances
  /\ stage = [n \in Notifications |-> "none"]
  /\ raisedBy = [n \in Notifications |-> None]
  /\ row = [n \in Notifications |-> NoRow] /\ undo = row
  /\ tx = [p \in Processes |-> "none"]
  /\ deferred = [p \in Processes |-> {}]
  /\ scan = [p \in Processes |-> Nothing]
  /\ starting = Processes
  /\ task = [p \in Processes |-> [n \in Notifications |-> NoTask]]
  /\ sends = [n \in Notifications |-> [a \in Agents |-> 0]]
  /\ troubled = {}
  /\ faults = 0

-----------------------------------------------------------------------------
(* The table *)

shared == instance.sqlite

Up == IF shared THEN {Solo} ELSE Processes

(* The notifications of p's transaction that are in the given stage. *)
Own(p, s) == {n \in Notifications : raisedBy[n] = p /\ stage[n] = s}

(* persistNotification is under way: transactionalEnqueuesInProgress > 0 *)
Enqueuing(p) == Own(p, "entered") \cup Own(p, "inserted") # {}

Uncommitted(n) == stage[n] \in {"inserted", "open"}

(* A row other statements can see. *)
Visible(n) == row[n].there /\ (shared \/ ~Uncommitted(n))

UnclaimedAlways(n) == TRUE  \* mutant: a claim ignores other claims

Unclaimed(n) == row[n].claim = None \/ ~row[n].live

Holds(p, n) == Visible(n) /\ row[n].claim = p

(* p may raise n next. *)
Raises(p, n) ==
  /\ p \in Raisers \ starting /\ n \in instance.raised
  /\ stage[n] = "none" /\ \A m \in instance.raised : m < n => stage[m] # "none"

(* OutboxAdmission: PostgreSQL keeps the advisory lock until the inserting  *)
(* transaction ends; SQLite's lock covers the insertion alone.              *)
Admitted(p) ==
  shared \/ \A n \in Notifications : Uncommitted(n) => raisedBy[n] = p

Room == Cardinality({n \in Notifications : row[n].there}) < MaxRows

-----------------------------------------------------------------------------
(* dispatchOutboxRecord *)

Active(p) == {n \in Notifications : task[p][n].pc # "none"}

Running(p) == {n \in Notifications : task[p][n].pc \notin {"none", "queued"}}

Min2(a, b) == IF a < b THEN a ELSE b

(* Rows that are being delivered already are skipped, and those the queue   *)
(* has no room for are dropped: a later scan finds them again.              *)
Dispatch(p, snapshot) ==
  LET new  == {n \in Notifications : snapshot[n].seen} \ Active(p)
      room == Concurrency + QueueLimit - Cardinality(Active(p))
  IN  \E taken \in SUBSET new :
        /\ Cardinality(taken) = Min2(Cardinality(new), room)
        /\ task' = [task EXCEPT ![p] = [n \in Notifications |->
             IF n \in taken
             THEN [pc |-> "queued", delivered |-> snapshot[n].delivered,
                   attempts |-> snapshot[n].attempts, tried |-> {}]
             ELSE task[p][n]]]

FirstRecord(S) ==
  [n \in Notifications |-> IF n \in S THEN [NotSeen EXCEPT !.seen = TRUE] ELSE NotSeen]

-----------------------------------------------------------------------------
(* Raising notifications *)

(* Over SQLite the statements of a transaction concern everybody; over      *)
(* PostgreSQL it matters from its first notification on.                    *)
Begin(p) ==
  /\ shared /\ tx[p] = "none" /\ \E n \in Notifications : Raises(p, n)
  /\ tx' = [tx EXCEPT ![p] = "open"]
  /\ undo' = row
  /\ UNCHANGED <<instance, stage, raisedBy, row, deferred, scan, starting, task, ghosts>>

(* persistNotification inside a transaction counts itself, ... *)
Enter(p, n) ==
  /\ tx[p] = "open" \/ (tx[p] = "none" /\ ~shared)
  /\ ~Enqueuing(p) /\ Raises(p, n)
  /\ tx' = [tx EXCEPT ![p] = "open"]
  /\ stage' = [stage EXCEPT ![n] = "entered"]
  /\ raisedBy' = [raisedBy EXCEPT ![n] = p]
  /\ UNCHANGED <<instance, tables, deferred, scan, starting, task, ghosts>>

(* ... inserts its row once admitted, ... *)
Insert(p, n) ==
  /\ raisedBy[n] = p /\ stage[n] = "entered" /\ Admitted(p) /\ Room
  /\ row' = [row EXCEPT ![n] = NewRow]
  /\ stage' = [stage EXCEPT ![n] = "inserted"]
  /\ UNCHANGED <<instance, raisedBy, undo, managers, task, ghosts>>

(* ... or, the table being full, fails its transaction, ... *)
InsertRefused(p, n) ==
  /\ raisedBy[n] = p /\ stage[n] = "entered" /\ Admitted(p) /\ ~Room
  /\ stage' = [stage EXCEPT ![n] = "undone"]
  /\ tx' = [tx EXCEPT ![p] = "failing"]
  /\ UNCHANGED <<instance, raisedBy, tables, deferred, scan, starting, task, ghosts>>

(* ... and defers its delivery. *)
Defer(p, n) ==
  /\ raisedBy[n] = p /\ stage[n] = "inserted"
  /\ stage' = [stage EXCEPT ![n] = "open"]
  /\ deferred' = [deferred EXCEPT ![p] = @ \cup {n}]
  /\ UNCHANGED <<instance, raisedBy, tables, tx, scan, starting, task, ghosts>>

(* persistNotification without a transaction: saved and dispatched at once. *)
Send(p, n) ==
  /\ Raises(p, n) /\ Admitted(None)
  /\ raisedBy' = [raisedBy EXCEPT ![n] = p]
  /\ \/ /\ Room
        /\ row' = [row EXCEPT ![n] = NewRow]
        /\ stage' = [stage EXCEPT ![n] = "committed"]
        /\ Dispatch(p, FirstRecord({n}))
     \/ /\ ~Room
        /\ stage' = [stage EXCEPT ![n] = "undone"]
        /\ UNCHANGED <<row, task>>
  /\ UNCHANGED <<instance, undo, managers, ghosts>>

Ended == undo' = [n \in Notifications |-> NoRow]

Commit(p) ==
  /\ tx[p] = "open" /\ ~Enqueuing(p)
  /\ tx' = [tx EXCEPT ![p] = "committed"]
  /\ stage' = [n \in Notifications |->
       IF n \in Own(p, "open") THEN "committed" ELSE stage[n]]
  /\ Ended
  /\ UNCHANGED <<instance, raisedBy, row, deferred, scan, starting, task, ghosts>>

Kept(p) == deferred  \* mutant: the deferral is not lifted

Lifted(p) == [deferred EXCEPT ![p] = {}]

(* commitDeferredNotifications, called by the subscribers after the commit. *)
AfterCommit(p) ==
  /\ tx[p] = "committed"
  /\ tx' = [tx EXCEPT ![p] = "none"]
  /\ deferred' = Lifted(p)
  /\ Dispatch(p, FirstRecord(deferred[p]))
  /\ UNCHANGED <<instance, stage, raisedBy, tables, scan, starting, ghosts>>

(* The database forgets what p's transaction did; over SQLite also what all *)
(* others did meanwhile.                                                    *)
Undone(p) ==
  LET own == {n \in Notifications : raisedBy[n] = p /\ Uncommitted(n)}
      Lost(n) == shared /\ stage[n] = "committed" /\ ~undo[n].there
      Back(n) == shared /\ stage[n] \in {"delivered", "discarded"} /\ undo[n].there
  IN  /\ row' = IF shared THEN undo
                ELSE [n \in Notifications |-> IF n \in own THEN NoRow ELSE row[n]]
      /\ stage' = [n \in Notifications |->
           IF n \in own \/ n \in Own(p, "entered") THEN "undone"
           ELSE IF Lost(n) THEN "swept"
           ELSE IF Back(n) THEN "committed" ELSE stage[n]]
      /\ troubled' = troubled \cup
           {n \in Notifications \ own : shared /\ undo[n] # row[n]}

Rollback(p) ==
  /\ \/ tx[p] = "failing" /\ UNCHANGED faults
     \/ tx[p] = "open" /\ ~Enqueuing(p) /\ faults < instance.faults /\ faults' = faults + 1
  /\ Undone(p)
  /\ tx' = [tx EXCEPT ![p] = "rolledback"]
  /\ Ended
  /\ UNCHANGED <<instance, raisedBy, deferred, scan, starting, task, sends>>

(* rollbackDeferredNotifications *)
AfterRollback(p) ==
  /\ tx[p] = "rolledback"
  /\ tx' = [tx EXCEPT ![p] = "none"]
  /\ deferred' = Lifted(p)
  /\ UNCHANGED <<instance, stage, raisedBy, tables, scan, starting, task, ghosts>>

-----------------------------------------------------------------------------
(* Scans *)

Oldest(S) ==
  {n \in S : Cardinality({m \in S : m < n}) < ScanBatch}

(* getPendingNotificationOutboxRecords: the oldest rows without a running   *)
(* claim are read; if one of them is past its age all such rows are deleted *)
(* (no row keeps its maximal attempts); the others are filtered by their    *)
(* retry delay, except by a first scan.                                     *)
ScanRead(p) ==
  LET idle == {n \in Notifications : Visible(n) /\ Unclaimed(n)} IN
  \E old \in SUBSET idle :
    LET found == [n \in Notifications |->
                   IF n \in Oldest(idle) \ old /\ (row[n].due \/ p \in starting)
                   THEN [seen |-> TRUE, delivered |-> row[n].delivered,
                         attempts |-> row[n].attempts]
                   ELSE NotSeen]
    IN  /\ ~Enqueuing(p) /\ scan[p] = Nothing
        /\ old # {} => old \cap Oldest(idle) # {}
        /\ found # Nothing \/ old # {} \/ p \in starting
        /\ scan' = [scan EXCEPT ![p] = found]
        /\ starting' = starting \ {p}
        /\ row' = [n \in Notifications |-> IF n \in old THEN NoRow ELSE row[n]]
        /\ stage' = [n \in Notifications |-> IF n \in old THEN "discarded" ELSE stage[n]]
        /\ UNCHANGED <<instance, raisedBy, undo, tx, deferred, task, ghosts>>

DeferredOrNot(p, n) == TRUE  \* mutant: a scan ignores the deferrals

NotDeferred(p, n) == n \notin deferred[p]

(* The records read are dispatched unless a transaction of this process is  *)
(* enqueuing again; deferred ones are left to the commit.                   *)
ScanDispatch(p) ==
  /\ scan[p] # Nothing
  /\ IF Enqueuing(p) THEN UNCHANGED task
     ELSE Dispatch(p, [n \in Notifications |->
            IF NotDeferred(p, n) THEN scan[p][n] ELSE NotSeen])
  /\ scan' = [scan EXCEPT ![p] = Nothing]
  /\ UNCHANGED <<instance, stage, raisedBy, tables, tx, deferred, starting, ghosts>>

-----------------------------------------------------------------------------
(* A delivery *)

At(p, n, pc) == task[p][n].pc = pc

Goto(p, n, pc) == task' = [task EXCEPT ![p][n].pc = pc]

End(p, n) == task' = [task EXCEPT ![p][n] = NoTask]

(* claimNotificationOutboxRecord: the row may have changed since it was     *)
(* read; only its claim is looked at.                                       *)
Claim(p, n) ==
  /\ At(p, n, "queued") /\ Cardinality(Running(p)) < Concurrency
  /\ \/ /\ Visible(n) /\ Unclaimed(n)
        /\ row' = [row EXCEPT ![n].claim = p, ![n].live = TRUE]
        /\ Goto(p, n, "claimed")
     \/ /\ ~(Visible(n) /\ Unclaimed(n))
        /\ End(p, n) /\ UNCHANGED row
  /\ UNCHANGED <<instance, stage, raisedBy, undo, managers, ghosts>>

(* The agents still to be tried, in the order they were registered. *)
Untried(p, n) == Targets[n] \ (task[p][n].delivered \cup task[p][n].tried)

Target(p, n) == CHOOSE a \in Untried(p, n) : \A b \in Untried(p, n) : a <= b

GiveUp(p, n) ==
  task' = [task EXCEPT ![p][n].pc = "claimed", ![p][n].tried = @ \cup {Target(p, n)}]

(* A statement that renews the claim, if it is still there. *)
Renewed(p, n) == row' = IF Holds(p, n) THEN [row EXCEPT ![n].live = TRUE] ELSE row

(* The source of the notification is gone: nothing is left to tell. *)
Retire(p, n) ==
  /\ At(p, n, "claimed") /\ task[p][n].tried = {} /\ Holds(p, n)
  /\ row' = [row EXCEPT ![n] = NoRow]
  /\ stage' = [stage EXCEPT ![n] = "discarded"]
  /\ End(p, n)
  /\ UNCHANGED <<instance, raisedBy, undo, managers, ghosts>>

(* The agent is not registered any more. *)
AgentMissing(p, n) ==
  /\ At(p, n, "claimed") /\ Untried(p, n) # {}
  /\ GiveUp(p, n)
  /\ troubled' = troubled \cup {n}
  /\ UNCHANGED <<instance, stage, raisedBy, tables, managers, sends, faults>>

(* sendWithClaimHeartbeat renews the claim, then calls the agent, ... *)
BeginSend(p, n) ==
  /\ At(p, n, "claimed") /\ Untried(p, n) # {}
  /\ Renewed(p, n)
  /\ \/ Holds(p, n) /\ Goto(p, n, "sending") /\ UNCHANGED troubled
     \/ ~Holds(p, n) /\ GiveUp(p, n) /\ troubled' = troubled \cup {n}
  /\ UNCHANGED <<instance, stage, raisedBy, undo, managers, sends, faults>>

(* ... which refuses the notification or fails, ... *)
Refuse(p, n) ==
  /\ At(p, n, "sending")
  /\ Renewed(p, n)
  /\ GiveUp(p, n)
  /\ troubled' = troubled \cup {n}
  /\ UNCHANGED <<instance, stage, raisedBy, undo, managers, sends, faults>>

(* ... or accepts it. *)
Accept(p, n) ==
  /\ At(p, n, "sending")
  /\ Goto(p, n, "accepted")
  /\ sends' = [sends EXCEPT ![n][Target(p, n)] = Min2(@ + 1, 2)]
  /\ UNCHANGED <<instance, stage, raisedBy, tables, managers, troubled, faults>>

(* A claim found lost by then makes the delivery count as failed, ... *)
Recheck(p, n) ==
  /\ At(p, n, "accepted")
  /\ Renewed(p, n)
  /\ \/ Holds(p, n) /\ Goto(p, n, "checkpoint") /\ UNCHANGED troubled
     \/ ~Holds(p, n) /\ GiveUp(p, n) /\ troubled' = troubled \cup {n}
  /\ UNCHANGED <<instance, stage, raisedBy, undo, managers, sends, faults>>

(* ... otherwise the agent is added to those the record had: the row gets   *)
(* the set of the record, whatever its own set has become.                  *)
DeliveredBy(p, n) == task[p][n].delivered \cup {p}  \* mutant: the sender is stored

Delivered(p, n) == task[p][n].delivered \cup {Target(p, n)}

Checkpoint(p, n) ==
  /\ At(p, n, "checkpoint")
  /\ \/ /\ Holds(p, n)
        /\ row' = [row EXCEPT ![n].delivered = Delivered(p, n)]
        /\ task' = [task EXCEPT ![p][n].pc = "claimed",
                                ![p][n].delivered = Delivered(p, n)]
     \/ ~Holds(p, n) /\ End(p, n) /\ UNCHANGED row
  /\ UNCHANGED <<instance, stage, raisedBy, undo, managers, ghosts>>

CompleteTried(p, n) ==  \* mutant: the agents that failed count as delivered
  /\ At(p, n, "claimed") /\ Untried(p, n) = {}
  /\ row' = IF Holds(p, n) THEN [row EXCEPT ![n] = NoRow] ELSE row
  /\ stage' = IF Holds(p, n) THEN [stage EXCEPT ![n] = "delivered"] ELSE stage
  /\ End(p, n)
  /\ UNCHANGED <<instance, raisedBy, undo, managers, ghosts>>

(* completeNotificationOutboxRecord; a lost claim throws, and so does the   *)
(* recording of that failure.                                               *)
Complete(p, n) ==
  /\ At(p, n, "claimed") /\ task[p][n].delivered = Targets[n]
  /\ row' = IF Holds(p, n) THEN [row EXCEPT ![n] = NoRow] ELSE row
  /\ stage' = IF Holds(p, n) THEN [stage EXCEPT ![n] = "delivered"] ELSE stage
  /\ End(p, n)
  /\ UNCHANGED <<instance, raisedBy, undo, managers, ghosts>>

(* markNotificationOutboxAttemptFailed: one attempt more than the record    *)
(* had, and the claim is given back; the last attempt discards the row.     *)
RecordFailure(p, n) ==
  LET attempts == task[p][n].attempts + 1 IN
  /\ End(p, n)
  /\ \/ /\ Holds(p, n) /\ attempts >= MaxAttempts
        /\ row' = [row EXCEPT ![n] = NoRow]
        /\ stage' = [stage EXCEPT ![n] = "discarded"]
     \/ /\ Holds(p, n) /\ attempts < MaxAttempts
        /\ row' = [row EXCEPT ![n] = [@ EXCEPT !.attempts = attempts, !.due = FALSE,
                                               !.claim = None, !.live = FALSE]]
        /\ UNCHANGED stage
     \/ ~Holds(p, n) /\ UNCHANGED <<row, stage>>

Incomplete(p, n) ==
  /\ At(p, n, "claimed") /\ Untried(p, n) = {} /\ task[p][n].delivered # Targets[n]
  /\ RecordFailure(p, n)
  /\ UNCHANGED <<instance, raisedBy, undo, managers, ghosts>>

(* The record cannot be turned into a notification, as when a user in it    *)
(* has been deleted.                                                        *)
HydrationFails(p, n) ==
  /\ At(p, n, "claimed") /\ task[p][n].tried = {}
  /\ RecordFailure(p, n)
  /\ troubled' = troubled \cup {n}
  /\ UNCHANGED <<instance, raisedBy, undo, managers, sends, faults>>

-----------------------------------------------------------------------------
(* Faults and time *)

Fault == faults < instance.faults /\ faults' = faults + 1

(* A statement of the delivery fails, the recording of the failure succeeds *)
(* or fails as well; a failed renewal, before the agent is called or after  *)
(* it has accepted, only makes that agent's delivery count as failed.       *)
RenewalFails(p, n) ==
  /\ At(p, n, "accepted") \/ (At(p, n, "claimed") /\ Untried(p, n) # {})
  /\ GiveUp(p, n)
  /\ UNCHANGED <<row, stage>>

DatabaseError(p, n) ==
  /\ Fault
  /\ \/ /\ task[p][n].pc \in {"claimed", "checkpoint"}
        /\ RecordFailure(p, n) \/ (End(p, n) /\ UNCHANGED <<row, stage>>)
     \/ RenewalFails(p, n)
  /\ UNCHANGED <<instance, raisedBy, undo, managers, sends, troubled>>

(* A process dies and starts again. *)
Crash(p) ==
  /\ Fault
  /\ IF tx[p] \in {"open", "failing"} THEN Undone(p) /\ Ended
                                      ELSE UNCHANGED <<tables, stage, troubled>>
  /\ tx' = [tx EXCEPT ![p] = "none"]
  /\ deferred' = Lifted(p)
  /\ scan' = [scan EXCEPT ![p] = Nothing]
  /\ starting' = starting \cup {p}
  /\ task' = [task EXCEPT ![p] = [n \in Notifications |-> NoTask]]
  /\ UNCHANGED <<instance, raisedBy, sends>>

(* A lease ends because its holder is gone, or because it was not renewed.  *)
LeaseExpires(n) ==
  /\ row[n].live
  /\ \/ task[row[n].claim][n].pc \in {"none", "queued"} /\ UNCHANGED faults
     \/ task[row[n].claim][n].pc \notin {"none", "queued"} /\ Fault
  /\ row' = [row EXCEPT ![n].live = FALSE]
  /\ UNCHANGED <<instance, stage, raisedBy, undo, managers, task, sends, troubled>>

BackoffElapses(n) ==
  /\ row[n].there /\ ~row[n].due
  /\ row' = [row EXCEPT ![n].due = TRUE]
  /\ UNCHANGED <<instance, stage, raisedBy, undo, managers, task, ghosts>>

-----------------------------------------------------------------------------
(* Specification *)

Persist(p, n) ==
  Enter(p, n) \/ Insert(p, n) \/ InsertRefused(p, n) \/ Defer(p, n) \/ Send(p, n)

Transaction(p) == Begin(p) \/ Commit(p) \/ AfterCommit(p) \/ Rollback(p) \/ AfterRollback(p)

Answer(p, n) == Refuse(p, n) \/ Accept(p, n)

Deliver(p, n) ==
  \/ Claim(p, n) \/ Retire(p, n) \/ AgentMissing(p, n) \/ BeginSend(p, n) \/ Answer(p, n)
  \/ Recheck(p, n) \/ Checkpoint(p, n) \/ Complete(p, n) \/ Incomplete(p, n)
  \/ HydrationFails(p, n)

Next ==
  \/ \E p \in Up : Transaction(p) \/ ScanRead(p) \/ ScanDispatch(p) \/ Crash(p)
  \/ \E p \in Up, n \in Notifications : Persist(p, n) \/ Deliver(p, n) \/ DatabaseError(p, n)
  \/ \E n \in Notifications : LeaseExpires(n) \/ BackoffElapses(n)

Spec == Init /\ [][Next]_vars

(* Fairness: handlers end their transactions, callbacks run, scans are made *)
(* again and again, agents answer or time out, leases and delays elapse.    *)
(* Nothing is assumed of the handlers that raise notifications and of       *)
(* faults.                                                                  *)
Ending(p) ==
  \/ \E n \in Notifications : Insert(p, n) \/ InsertRefused(p, n) \/ Defer(p, n)
  \/ Commit(p) \/ AfterCommit(p) \/ Rollback(p) \/ AfterRollback(p)

Working(p, n) ==
  \/ Claim(p, n) \/ BeginSend(p, n) \/ Answer(p, n) \/ Recheck(p, n)
  \/ Checkpoint(p, n) \/ Complete(p, n) \/ Incomplete(p, n)

Fairness ==
  /\ \A p \in Processes : WF_vars(p \in Up /\ Ending(p))
                          /\ WF_vars(p \in Up /\ (ScanRead(p) \/ ScanDispatch(p)))
  /\ \A p \in Processes, n \in Notifications : WF_vars(p \in Up /\ Working(p, n))
  /\ \A n \in Notifications : WF_vars(LeaseExpires(n) \/ BackoffElapses(n))

FairSpec == Spec /\ Fairness

-----------------------------------------------------------------------------
(* Safety *)

(* An agent gets a notification only after the transaction that raised it   *)
(* has committed, never before and never if that transaction failed: what   *)
(* the test "persists in the source transaction and delivers only after     *)
(* commit" says.                                                            *)
SentAfterCommit ==
  \A n \in Notifications, a \in Agents :
    sends[n][a] > 0 => stage[n] \in {"committed", "delivered", "discarded", "swept"}

(* A notification whose transaction committed stays in the table until      *)
(* every agent has accepted it or it is given up, as long as no rollback of *)
(* another transaction sweeps its row away: what a rollback over the one    *)
(* connection of SQLite takes with it is not claimed here.                  *)
NoSilentLoss ==
  \A n \in Notifications :
    /\ stage[n] = "committed" => row[n].there
    /\ stage[n] = "delivered" => \A a \in Targets[n] : sends[n][a] > 0

(* An agent that accepted a notification gets it again only if something    *)
(* went wrong with that notification: no number of processes, scans and     *)
(* callbacks repeats a delivery that nobody refused.                        *)
SentOnce ==
  \A n \in Notifications, a \in Agents :
    sends[n][a] > 1 => n \in troubled \/ faults > 0

-----------------------------------------------------------------------------
(* Liveness *)

(* A committed notification is delivered or given up in the end, however    *)
(* its first dispatch was lost: a full queue, a crash, a failed agent; and  *)
(* no deferral makes the scans pass over its row for ever.                  *)
EventuallyHandled == \A n \in Notifications : []<>(stage[n] # "committed")
=============================================================================
