--------------------------- MODULE RequestDispatch ---------------------------
(***************************************************************************)
(* The durable dispatch of approved media requests.                        *)
(*                                                                         *)
(* A request that becomes approved gets a row in the table                 *)
(* request_dispatch_outbox, written by the transaction that approves it.   *)
(* Every server process runs a RequestDispatchManager: it scans the table, *)
(* claims rows under a lease, hands the request to its acquisition service *)
(* (Radarr, Readarr, ...) and then deletes the row, reschedules it, or     *)
(* gives up and fails the request.  The processes share the database and   *)
(* nothing else; the request-mutation admission lock serialises the API    *)
(* handlers and the dispatch of one request, but not the worker's own      *)
(* statements on the outbox row before and after it.                       *)
(*                                                                         *)
(* Time is abstracted to the two comparisons the code makes with it: a row *)
(* is "due" once its retry delay has elapsed, and a claim is "stale" once  *)
(* its lease has.  Database ids and random claim tokens are values that    *)
(* nothing in the system refers to any more or yet.                        *)
(***************************************************************************)
EXTENDS Naturals, FiniteSets

CONSTANTS
  Processes,    \* server processes sharing one database
  Requests,     \* media requests
  Books,        \* the requests whose service keeps a failed request queued
  RowIds,       \* primary keys of the outbox
  RequestOf,    \* the request each primary key is used for
  Tokens,       \* claim tokens
  None,         \* no token, no process
  MaxAttempts,  \* MAX_REQUEST_DISPATCH_ATTEMPTS
  MaxRows,      \* MAX_REQUEST_DISPATCH_OUTBOX_ROWS
  Concurrency,  \* REQUEST_DISPATCH_CONCURRENCY
  QueueLimit,   \* waiting tasks the delivery queue accepts
  MaxFaults,    \* bound on crashes, database errors, lost leases and errors
                \* after an acceptance
  Operations    \* the operator actions enabled in this instance

ASSUME ConstantsAssumption ==
  /\ Books \subseteq Requests
  /\ RequestOf \in [RowIds -> Requests]
  /\ None \notin Tokens /\ None \notin Processes
  /\ MaxAttempts \in Nat \ {0}
  /\ MaxRows \in Nat /\ MaxFaults \in Nat
  /\ Concurrency \in Nat \ {0} /\ QueueLimit \in Nat

VARIABLES
  status,       \* MediaRequest.status, "none" before creation
  unavailable,  \* the request's latest stage is UNAVAILABLE
  outbox,       \* the table request_dispatch_outbox
  admission,    \* holder of each request's mutation admission lock
  task,         \* per process, the dispatch running or queued for a row
  scan,         \* per process, the rows read by a scan and not yet dispatched
  sends,        \* times the service accepted the request since its approval
  faults        \* faults so far

vars == <<status, unavailable, outbox, admission, task, scan, sends, faults>>

-----------------------------------------------------------------------------
(* Types *)

Statuses == {"none", "pending", "approved", "declined", "failed",
             "completed", "removed"}

(* A row is read by the columns that steer it.  "live" is its presence. *)
Row == [live: BOOLEAN, attempts: Nat, due: BOOLEAN,
        claim: Tokens \cup {None}, stale: BOOLEAN]

NoRow == [live |-> FALSE, attempts |-> 0, due |-> TRUE,
          claim |-> None, stale |-> FALSE]

NewRow == [NoRow EXCEPT !.live = TRUE]

(* A task holds the record it was dispatched with (of which it uses the     *)
(* attempts), its claim token and the outcome of the delivery.              *)
TaskStates == {"none", "queued", "claimed", "started", "admitted",
               "returned", "finalizing", "failing"}

Task == [pc: TaskStates, attempts: Nat, token: Tokens \cup {None},
         delivered: BOOLEAN]

NoTask == [pc |-> "none", attempts |-> 0, token |-> None, delivered |-> FALSE]

Snapshot == [seen: BOOLEAN, attempts: Nat]

NotSeen == [seen |-> FALSE, attempts |-> 0]

Steps == {"free", "dispatch", "cancelled", "saved", "clearing"}

Holder == [proc: Processes \cup {None}, step: Steps]

Free == [proc |-> None, step |-> "free"]

TypeOK ==
  /\ status \in [Requests -> Statuses]
  /\ unavailable \in [Requests -> BOOLEAN]
  /\ outbox \in [RowIds -> Row]
  /\ admission \in [Requests -> Holder]
  /\ task \in [Processes -> [RowIds -> Task]]
  /\ scan \in [Processes -> [RowIds -> Snapshot]]
  /\ sends \in [Requests -> Nat]
  /\ faults \in Nat

Init ==
  /\ status = [r \in Requests |-> "none"]
  /\ unavailable = [r \in Requests |-> FALSE]
  /\ outbox = [id \in RowIds |-> NoRow]
  /\ admission = [r \in Requests |-> Free]
  /\ task = [p \in Processes |-> [id \in RowIds |-> NoTask]]
  /\ scan = [p \in Processes |-> [id \in RowIds |-> NotSeen]]
  /\ sends = [r \in Requests |-> 0]
  /\ faults = 0

-----------------------------------------------------------------------------
(* The outbox table *)

Live == {id \in RowIds : outbox[id].live}

RowsOf(r) == {id \in RowIds : RequestOf[id] = r}

Queued(r) == \E id \in RowsOf(r) : outbox[id].live

(* A primary key is never reused while anything still refers to it. *)
Unused(id) ==
  /\ ~outbox[id].live
  /\ \A p \in Processes : task[p][id].pc = "none" /\ ~scan[p][id].seen

AnyToken == Tokens  \* mutant: a token per process instead of a random one

UnusedTokens ==
  {t \in Tokens : /\ \A id \in RowIds : outbox[id].claim # t
                  /\ \A p \in Processes, id \in RowIds : task[p][id].token # t}

ClaimableTwice(row) == row.live  \* mutant: the claim ignores other claims

ClaimableOnce(row) == row.live /\ row.claim = None  \* mutant: leases never end

(* The condition under which a scan lists a row and a claim takes it. *)
Claimable(row) == row.live /\ (row.claim = None \/ row.stale)

(* The foreign key's ON DELETE CASCADE takes the row, claimed or not. *)
WithoutRowsOf(r) ==
  [id \in RowIds |-> IF RequestOf[id] = r THEN NoRow ELSE outbox[id]]

(* cancel(): the unclaimed row of the request is deleted. *)
WithoutUnclaimed(r) ==
  [id \in RowIds |-> IF RequestOf[id] = r /\ outbox[id].claim = None
                     THEN NoRow ELSE outbox[id]]

-----------------------------------------------------------------------------
(* Starting tasks *)

Active(p) == {id \in RowIds : task[p][id].pc # "none"}

Running(p) == {id \in RowIds : task[p][id].pc \notin {"none", "queued"}}

LeastOf(m, n) == IF m < n THEN m ELSE n

(* dispatch() for each record of a snapshot: rows with an active task are   *)
(* skipped, and tasks beyond the capacity of the delivery queue are dropped *)
(* without an error.                                                        *)
Dispatch(p, snapshot) ==
  LET fresh == {id \in RowIds : snapshot[id].seen /\ task[p][id].pc = "none"}
      room  == Concurrency + QueueLimit - Cardinality(Active(p))
  IN  \E accepted \in SUBSET fresh :
        /\ Cardinality(accepted) = LeastOf(Cardinality(fresh), room)
        /\ task' = [task EXCEPT ![p] = [id \in RowIds |->
             IF id \in accepted
             THEN [NoTask EXCEPT !.pc = "queued", !.attempts = snapshot[id].attempts]
             ELSE task[p][id]]]

Only(id, n) ==
  [i \in RowIds |-> IF i = id THEN [seen |-> TRUE, attempts |-> n] ELSE NotSeen]

Nothing == [id \in RowIds |-> NotSeen]

(* enqueue() and the dispatch that follows its transaction: an existing row *)
(* is reused, whoever has claimed it, and dispatched only if it is due.     *)
(* With a full outbox the insertion throws and the transaction is undone.   *)
Enqueue(p, r) ==
  \/ \E id \in RowsOf(r) :
        /\ outbox[id].live
        /\ outbox' = outbox
        /\ Dispatch(p, IF outbox[id].due THEN Only(id, outbox[id].attempts)
                                         ELSE Nothing)
  \/ /\ ~Queued(r)
     /\ Cardinality(Live) < MaxRows
     /\ \E id \in RowsOf(r) :
          /\ Unused(id)
          /\ outbox' = [outbox EXCEPT ![id] = NewRow]
          /\ Dispatch(p, Only(id, 0))

-----------------------------------------------------------------------------
(* Operator actions: API handlers, each under the admission lock *)

Idle(r) == admission[r] = Free

Take(p, r, step) == admission' = [admission EXCEPT ![r] = [proc |-> p, step |-> step]]

Release(r) == admission' = [admission EXCEPT ![r] = Free]

Holding(p, r, step) == admission[r] = [proc |-> p, step |-> step]

(* A request saved as approved is a new approval: nothing sent yet. *)
BecomeApproved(r) ==
  /\ status' = [status EXCEPT ![r] = "approved"]
  /\ unavailable' = [unavailable EXCEPT ![r] = FALSE]
  /\ sends' = [sends EXCEPT ![r] = 0]

(* A new request is saved as pending, or as approved when its requester may *)
(* approve it.                                                              *)
CreatePending(p, r) ==
  /\ "create" \in Operations
  /\ Idle(r) /\ status[r] = "none"
  /\ status' = [status EXCEPT ![r] = "pending"]
  /\ UNCHANGED <<unavailable, outbox, admission, task, scan, sends, faults>>

CreateApproved(p, r) ==
  /\ "create" \in Operations
  /\ Idle(r) /\ status[r] = "none"
  /\ BecomeApproved(r)
  /\ Enqueue(p, r)
  /\ UNCHANGED <<admission, scan, faults>>

Approve(p, r) ==
  /\ "decide" \in Operations
  /\ Idle(r) /\ status[r] = "pending"
  /\ BecomeApproved(r)
  /\ Enqueue(p, r)
  /\ UNCHANGED <<admission, scan, faults>>

Decline(p, r) ==
  /\ "decide" \in Operations
  /\ Idle(r) /\ status[r] = "pending"
  /\ status' = [status EXCEPT ![r] = "declined"]
  /\ outbox' = WithoutUnclaimed(r)
  /\ UNCHANGED <<unavailable, admission, task, scan, sends, faults>>

(* A failed movie or series request resubmitted to another server. *)
Repair(p, r) ==
  /\ "repair" \in Operations
  /\ Idle(r) /\ status[r] = "failed" /\ r \notin Books
  /\ BecomeApproved(r)
  /\ Enqueue(p, r)
  /\ UNCHANGED <<admission, scan, faults>>

Retryable(r) ==
  /\ status[r] \in {"approved", "declined", "failed", "completed"}
  /\ status[r] = "approved" => unavailable[r]

(* Retry: the unclaimed row is cancelled, ... *)
RetryCancel(p, r) ==
  /\ "retry" \in Operations
  /\ Idle(r) /\ Retryable(r)
  /\ Take(p, r, "cancelled")
  /\ outbox' = WithoutUnclaimed(r)
  /\ UNCHANGED <<status, unavailable, task, scan, sends, faults>>

(* ... a completed request's service is told to stop its remaining work,     *)
(* which some services refuse, ...                                          *)
RetryRefused(p, r) ==
  /\ Holding(p, r, "cancelled") /\ status[r] = "completed"
  /\ Release(r)
  /\ UNCHANGED <<status, unavailable, outbox, task, scan, sends, faults>>

(* ... the request is saved as approved, which enqueues it, ... *)
RetrySave(p, r) ==
  /\ Holding(p, r, "cancelled")
  /\ BecomeApproved(r)
  /\ Enqueue(p, r)
  /\ Take(p, r, "saved")
  /\ UNCHANGED <<scan, faults>>

(* ... and it is enqueued once more outside a transaction. *)
RetryEnqueue(p, r) ==
  /\ Holding(p, r, "saved")
  /\ Enqueue(p, r)
  /\ Release(r)
  /\ UNCHANGED <<status, unavailable, scan, sends, faults>>

(* Clearing a status entry first cancels the queued dispatch, ... *)
ClearCancel(p, r) ==
  /\ "clear" \in Operations
  /\ Idle(r) /\ status[r] \notin {"none", "removed"}
  /\ Take(p, r, "clearing")
  /\ outbox' = WithoutUnclaimed(r)
  /\ UNCHANGED <<status, unavailable, task, scan, sends, faults>>

(* ... then the work of an active request at its service, which some       *)
(* services refuse: the handler answers 409 and leaves the request as it is *)
ClearRefused(p, r) ==
  /\ Holding(p, r, "clearing")
  /\ status[r] = "approved" /\ ~unavailable[r]
  /\ Release(r)
  /\ UNCHANGED <<status, unavailable, outbox, task, scan, sends, faults>>

RemoveRequest(r) ==
  /\ status' = [status EXCEPT ![r] = "removed"]
  /\ outbox' = WithoutRowsOf(r)

ClearRemove(p, r) ==
  /\ Holding(p, r, "clearing")
  /\ RemoveRequest(r)
  /\ Release(r)
  /\ UNCHANGED <<unavailable, task, scan, sends, faults>>

Remove(p, r) ==
  /\ "remove" \in Operations
  /\ Idle(r) /\ status[r] \notin {"none", "removed"}
  /\ RemoveRequest(r)
  /\ UNCHANGED <<unavailable, admission, task, scan, sends, faults>>

(* A scanner finds the media available: the subscriber of Media completes   *)
(* the request without the request's admission lock.  A pending request is  *)
(* approved first, in the same transaction, whose row is cancelled again.   *)
CompleteFromLibrary(r) ==
  /\ "complete" \in Operations
  /\ status[r] \in {"pending", "approved", "failed"}
  /\ status' = [status EXCEPT ![r] = "completed"]
  /\ outbox' = WithoutUnclaimed(r)
  /\ UNCHANGED <<unavailable, admission, task, scan, sends, faults>>

ReconcileFailed(p, r) ==  \* mutant: the job looks for failed requests
  /\ "reconcile" \in Operations
  /\ r \in Books /\ status[r] = "failed" /\ ~Queued(r) /\ ~unavailable[r]
  /\ Enqueue(p, r)
  /\ UNCHANGED <<status, unavailable, admission, scan, sends, faults>>

(* The scheduled job that re-enqueues approved book requests with no row. *)
Reconcile(p, r) ==
  /\ "reconcile" \in Operations
  /\ r \in Books /\ status[r] = "approved" /\ ~Queued(r) /\ ~unavailable[r]
  /\ Enqueue(p, r)
  /\ UNCHANGED <<status, unavailable, admission, scan, sends, faults>>

-----------------------------------------------------------------------------
(* The scan: rows are read in one step and dispatched in a later one *)

ScanRead(p) ==
  LET found == [id \in RowIds |->
        IF Claimable(outbox[id]) /\ outbox[id].due
        THEN [seen |-> TRUE, attempts |-> outbox[id].attempts] ELSE NotSeen]
  IN  /\ scan[p] = Nothing /\ found # Nothing
      /\ scan' = [scan EXCEPT ![p] = found]
      /\ UNCHANGED <<status, unavailable, outbox, admission, task, sends, faults>>

ScanDispatch(p) ==
  /\ scan[p] # Nothing
  /\ Dispatch(p, scan[p])
  /\ scan' = [scan EXCEPT ![p] = Nothing]
  /\ UNCHANGED <<status, unavailable, outbox, admission, sends, faults>>

-----------------------------------------------------------------------------
(* A dispatch task *)

At(p, id, pc) == task[p][id].pc = pc

Goto(p, id, pc) == task' = [task EXCEPT ![p][id].pc = pc]

Finish(p, id) == task' = [task EXCEPT ![p][id] = NoTask]

(* The task has claimed its row with token t. *)
Own(p, id, t) ==
  task' = [task EXCEPT ![p][id] = [@ EXCEPT !.pc = "claimed", !.token = t]]

(* The delivery has returned. *)
Yield(p, id, delivered) ==
  task' = [task EXCEPT ![p][id] = [@ EXCEPT !.pc = "returned", !.delivered = delivered]]

HoldsAnyClaim(p, id) ==  \* mutant: the WHERE clauses omit the token
  outbox[id].live /\ outbox[id].claim # None /\ task[p][id].token # None

(* The row still carries the task's token: an UPDATE or DELETE with that    *)
(* token in its WHERE clause affects one row.                               *)
Holds(p, id) ==
  outbox[id].live /\ outbox[id].claim # None /\ outbox[id].claim = task[p][id].token

(* claim(): neither the retry delay nor the attempts are read again. *)
Claim(p, id) ==
  /\ At(p, id, "queued") /\ Cardinality(Running(p)) < Concurrency
  /\ Claimable(outbox[id])
  /\ \E t \in UnusedTokens :
       /\ outbox' = [outbox EXCEPT ![id] = [@ EXCEPT !.claim = t, !.stale = FALSE]]
       /\ Own(p, id, t)
  /\ UNCHANGED <<status, unavailable, admission, scan, sends, faults>>

ClaimRefused(p, id) ==
  /\ At(p, id, "queued") /\ Cardinality(Running(p)) < Concurrency
  /\ ~Claimable(outbox[id])
  /\ Finish(p, id)
  /\ UNCHANGED <<status, unavailable, outbox, admission, scan, sends, faults>>

(* The renewals before and after the delivery; a lost claim throws. *)
Renew(p, id) ==
  /\ task[p][id].pc \in {"claimed", "returned"} /\ Holds(p, id)
  /\ outbox' = [outbox EXCEPT ![id].stale = FALSE]
  /\ Goto(p, id, IF At(p, id, "claimed") THEN "started" ELSE "finalizing")
  /\ UNCHANGED <<status, unavailable, admission, scan, sends, faults>>

RenewLost(p, id) ==
  /\ task[p][id].pc \in {"claimed", "returned"} /\ ~Holds(p, id)
  /\ Goto(p, id, "failing")
  /\ UNCHANGED <<status, unavailable, outbox, admission, scan, sends, faults>>

Heartbeat(p, id) ==
  /\ task[p][id].pc \in {"started", "admitted"} /\ Holds(p, id)
  /\ outbox[id].stale
  /\ outbox' = [outbox EXCEPT ![id].stale = FALSE]
  /\ UNCHANGED <<status, unavailable, admission, task, scan, sends, faults>>

Dispatchable(r) == status[r] = "approved" \/ (r \in Books /\ status[r] = "failed")

(* dispatchRequestById() under the admission lock *)
Admit(p, id) ==
  /\ At(p, id, "started") /\ Idle(RequestOf[id])
  /\ Dispatchable(RequestOf[id])
  /\ Take(p, RequestOf[id], "dispatch")
  /\ Goto(p, id, "admitted")
  /\ UNCHANGED <<status, unavailable, outbox, scan, sends, faults>>

(* A request that is gone or no longer approved needs no delivery. *)
NothingToDo(p, id) ==
  /\ At(p, id, "started") /\ Idle(RequestOf[id])
  /\ ~Dispatchable(RequestOf[id])
  /\ Yield(p, id, TRUE)
  /\ UNCHANGED <<status, unavailable, outbox, admission, scan, sends, faults>>

Return(p, id, delivered) ==
  /\ At(p, id, "admitted")
  /\ Yield(p, id, delivered)
  /\ Release(RequestOf[id])

(* The service accepts a movie, series or album: it stays approved until    *)
(* the library has it.  A book, comic or magazine is completed at once.     *)
SendAccepted(p, id) ==
  LET r == RequestOf[id] IN
  /\ Return(p, id, TRUE)
  /\ sends' = [sends EXCEPT ![r] = @ + 1]
  /\ \/ r \notin Books /\ UNCHANGED <<status, outbox>>
     \/ /\ r \in Books
        /\ status' = [status EXCEPT ![r] = "completed"]
        /\ outbox' = WithoutUnclaimed(r)
  /\ UNCHANGED <<unavailable, scan, faults>>

(* The media is already in the library. *)
AlreadyAvailable(p, id) ==
  LET r == RequestOf[id] IN
  /\ Return(p, id, TRUE)
  /\ status' = [status EXCEPT ![r] = "completed"]
  /\ outbox' = WithoutUnclaimed(r)
  /\ UNCHANGED <<unavailable, scan, sends, faults>>

(* No default server, no usable release: the row waits for its next attempt *)
NoRelease(p, id) ==
  /\ RequestOf[id] \notin Books
  /\ Return(p, id, FALSE)
  /\ unavailable' = [unavailable EXCEPT ![RequestOf[id]] = TRUE]
  /\ UNCHANGED <<status, outbox, scan, sends, faults>>

Fault == faults < MaxFaults /\ faults' = faults + 1

(* An error of a delivery may come after the service accepted the request:  *)
(* its answer is lost or names no id, or a save that follows fails.  Nothing *)
(* records the acceptance then, so the error counts as a fault.             *)
PerhapsAccepted(r) ==
  \/ UNCHANGED <<sends, faults>>
  \/ Fault /\ sends' = [sends EXCEPT ![r] = @ + 1]

(* The call to the service, or one of the saves after it, fails: the        *)
(* request is saved as failed, over whatever status it has by now.  A book  *)
(* that had failed before is not saved again, and its row stays queued.     *)
SendFailed(p, id) ==
  LET r == RequestOf[id] IN
  /\ Return(p, id, r \notin Books)
  /\ \/ /\ status' = [status EXCEPT ![r] = "failed"]
        /\ outbox' = WithoutUnclaimed(r)
     \/ /\ r \in Books /\ status[r] # "approved"
        /\ UNCHANGED <<status, outbox>>
  /\ PerhapsAccepted(r)
  /\ UNCHANGED <<unavailable, scan>>

(* A transient error of a book service.  Without a Retry-After header the   *)
(* outcome depends on the status read back from the database.               *)
SendDeferred(p, id) ==
  LET r == RequestOf[id] IN
  /\ r \in Books
  /\ \E retryAfter \in BOOLEAN : Return(p, id, ~retryAfter /\ status[r] # "approved")
  /\ PerhapsAccepted(r)
  /\ UNCHANGED <<status, unavailable, outbox, scan>>

(* The selection of services changed while waiting for their admission, or  *)
(* the handler of an error meets another one.                               *)
SendThrows(p, id) ==
  /\ At(p, id, "admitted")
  /\ Goto(p, id, "failing")
  /\ Release(RequestOf[id])
  /\ PerhapsAccepted(RequestOf[id])
  /\ UNCHANGED <<status, unavailable, outbox, scan>>

(* A delivered request's row is deleted under the task's token. *)
DeleteDelivered(p, id) ==
  /\ At(p, id, "finalizing") /\ task[p][id].delivered /\ Holds(p, id)
  /\ outbox' = [outbox EXCEPT ![id] = NoRow]
  /\ Finish(p, id)
  /\ UNCHANGED <<status, unavailable, admission, scan, sends, faults>>

(* failAttempt() counts from the record the task was dispatched with. *)
Failing(p, id) ==
  \/ At(p, id, "failing")
  \/ At(p, id, "finalizing") /\ ~task[p][id].delivered

AttemptsLeft(p, id) == task[p][id].attempts - 1  \* mutant: counts down

AttemptsMade(p, id) == task[p][id].attempts + 1

Reschedule(p, id) ==
  /\ Failing(p, id) /\ Holds(p, id)
  /\ AttemptsMade(p, id) < MaxAttempts
  /\ outbox' = [outbox EXCEPT ![id] =
       [NewRow EXCEPT !.attempts = AttemptsMade(p, id), !.due = FALSE]]
  /\ Finish(p, id)
  /\ UNCHANGED <<status, unavailable, admission, scan, sends, faults>>

ExhaustQuietly(p, id) ==  \* mutant: the request is left approved
  /\ Failing(p, id) /\ Holds(p, id)
  /\ AttemptsMade(p, id) >= MaxAttempts
  /\ outbox' = [outbox EXCEPT ![id] = NoRow]
  /\ Finish(p, id)
  /\ UNCHANGED <<status, unavailable, admission, scan, sends, faults>>

(* The last attempt: in one transaction an approved request fails and the   *)
(* row is deleted.                                                          *)
Exhaust(p, id) ==
  LET r == RequestOf[id] IN
  /\ Failing(p, id) /\ Holds(p, id)
  /\ AttemptsMade(p, id) >= MaxAttempts
  /\ status' = [status EXCEPT ![r] = IF @ = "approved" THEN "failed" ELSE @]
  /\ outbox' = [outbox EXCEPT ![id] = NoRow]
  /\ Finish(p, id)
  /\ UNCHANGED <<unavailable, admission, scan, sends, faults>>

(* "claim was lost": the error is handled by one more failAttempt(), whose  *)
(* own error is only logged.                                                *)
ClaimWasLost(p, id) ==
  /\ task[p][id].pc \in {"finalizing", "failing"} /\ ~Holds(p, id)
  /\ IF At(p, id, "finalizing") THEN Goto(p, id, "failing") ELSE Finish(p, id)
  /\ UNCHANGED <<status, unavailable, outbox, admission, scan, sends, faults>>

-----------------------------------------------------------------------------
(* Time and faults *)

BackoffElapses(id) ==
  /\ outbox[id].live /\ ~outbox[id].due
  /\ outbox' = [outbox EXCEPT ![id].due = TRUE]
  /\ UNCHANGED <<status, unavailable, admission, task, scan, sends, faults>>

Orphaned(id) == ~\E p \in Processes : Holds(p, id)

Lapse(id) ==
  /\ outbox[id].claim # None /\ ~outbox[id].stale
  /\ outbox' = [outbox EXCEPT ![id].stale = TRUE]
  /\ UNCHANGED <<status, unavailable, admission, task, scan, sends>>

(* The lease of a claim whose task is gone runs out. *)
LeaseExpires(id) == Orphaned(id) /\ Lapse(id) /\ UNCHANGED faults

(* The lease of a running task runs out: its heartbeats came too late. *)
LeaseLost(id) == ~Orphaned(id) /\ Lapse(id) /\ Fault

(* A statement of the task fails.  A failing claim ends the task; later     *)
(* failures lead to failAttempt(), and a failure of that is only logged.    *)
DatabaseError(p, id) ==
  /\ Fault
  /\ \/ task[p][id].pc \in {"queued", "failing"} /\ Finish(p, id)
     \/ /\ task[p][id].pc \in {"claimed", "started", "returned", "finalizing"}
        /\ Goto(p, id, "failing")
  /\ UNCHANGED <<status, unavailable, outbox, admission, scan, sends>>

(* A process dies and is started again: its tasks are gone, the database    *)
(* releases the admission locks of its sessions, the claims stay.  The      *)
(* service may have accepted what the tasks were sending.                   *)
Crash(p) ==
  /\ Fault
  /\ \E accepted \in SUBSET {RequestOf[id] : id \in {i \in RowIds : At(p, i, "admitted")}} :
       sends' = [r \in Requests |-> IF r \in accepted THEN sends[r] + 1 ELSE sends[r]]
  /\ task' = [task EXCEPT ![p] = [id \in RowIds |-> NoTask]]
  /\ scan' = [scan EXCEPT ![p] = Nothing]
  /\ admission' = [r \in Requests |->
       IF admission[r].proc = p THEN Free ELSE admission[r]]
  /\ UNCHANGED <<status, unavailable, outbox>>

-----------------------------------------------------------------------------

Operator(p, r) ==
  \/ CreatePending(p, r) \/ CreateApproved(p, r)
  \/ Approve(p, r) \/ Decline(p, r) \/ Repair(p, r)
  \/ RetryCancel(p, r) \/ RetryRefused(p, r) \/ RetrySave(p, r) \/ RetryEnqueue(p, r)
  \/ ClearCancel(p, r) \/ ClearRefused(p, r) \/ ClearRemove(p, r)
  \/ Remove(p, r) \/ Reconcile(p, r)

Deliver(p, id) ==
  \/ SendAccepted(p, id) \/ AlreadyAvailable(p, id) \/ NoRelease(p, id)
  \/ SendFailed(p, id) \/ SendDeferred(p, id) \/ SendThrows(p, id)

(* The steps a task takes by itself, once it has a slot and the lock. *)
Proceed(p, id) ==
  \/ Renew(p, id) \/ RenewLost(p, id) \/ Deliver(p, id)
  \/ DeleteDelivered(p, id) \/ Reschedule(p, id) \/ Exhaust(p, id)
  \/ ClaimWasLost(p, id)

Worker(p, id) ==
  \/ Claim(p, id) \/ ClaimRefused(p, id)
  \/ Admit(p, id) \/ NothingToDo(p, id)
  \/ Heartbeat(p, id) \/ Proceed(p, id)

Next ==
  \/ \E p \in Processes, r \in Requests : Operator(p, r)
  \/ \E r \in Requests : CompleteFromLibrary(r)
  \/ \E p \in Processes : ScanRead(p) \/ ScanDispatch(p) \/ Crash(p)
  \/ \E p \in Processes, id \in RowIds : Worker(p, id) \/ DatabaseError(p, id)
  \/ \E id \in RowIds : BackoffElapses(id) \/ LeaseExpires(id) \/ LeaseLost(id)

Spec == Init /\ [][Next]_vars

(* Fairness: timers fire, scans and jobs run on time, the event loop runs   *)
(* every task that can go on.  A task waiting for a slot of the delivery    *)
(* queue or for the admission lock is served in turn (both are FIFO), so it *)
(* may not be passed over for ever although others take the slot or lock.   *)
(* Nothing is assumed of operators, faults or the library.                  *)
Fairness ==
  /\ \A p \in Processes : WF_vars(ScanRead(p)) /\ SF_vars(ScanDispatch(p))
  /\ \A p \in Processes, id \in RowIds :
       /\ SF_vars(Claim(p, id)) /\ SF_vars(ClaimRefused(p, id))
       /\ SF_vars(Admit(p, id)) /\ SF_vars(NothingToDo(p, id))
       /\ WF_vars(Proceed(p, id))
  /\ \A p \in Processes, r \in Requests :
       /\ WF_vars(Reconcile(p, r))
       /\ WF_vars(RetryRefused(p, r) \/ RetrySave(p, r)) /\ WF_vars(RetryEnqueue(p, r))
       /\ WF_vars(ClearRefused(p, r) \/ ClearRemove(p, r))
  /\ \A id \in RowIds : WF_vars(BackoffElapses(id)) /\ WF_vars(LeaseExpires(id))

FairSpec == Spec /\ Fairness

-----------------------------------------------------------------------------
(* Safety *)

(* A claim token names one claim: no two tasks hold the same token, and a   *)
(* task whose token is on a row is a task for that row.  This is what lets  *)
(* every later statement identify its claim by the token alone.             *)
ClaimHeldOnce ==
  \A p, q \in Processes, i, j \in RowIds :
    task[p][i].token # None =>
      /\ task[p][i].token = task[q][j].token => p = q /\ i = j
      /\ task[p][i].token = outbox[j].claim => i = j

(* An operation that is between two of its database writes. *)
Underway(r) == admission[r].step \in {"cancelled", "saved", "clearing"}

(* An approved request is not forgotten: the service has accepted it since  *)
(* its approval, or its dispatch is queued, or a handler that is about to   *)
(* enqueue or remove it still holds its admission lock.                     *)
NoSilentLoss ==
  \A r \in Requests :
    status[r] = "approved" => sends[r] > 0 \/ Queued(r) \/ Underway(r)

(* The service is asked again only because of a fault: each crash, database *)
(* error, lost lease or error after an acceptance costs at most one         *)
(* repeated submission, however many processes compete for the rows and     *)
(* however often a failed book is retried from the queue.                   *)
NoDuplicateSend == \A r \in Requests : sends[r] <= 1 + faults

-----------------------------------------------------------------------------
(* Action properties *)

(* A claim whose lease is running ends only by a finishing step of the task *)
(* that holds it, or with the request itself: no scan, cancellation, rival  *)
(* worker or late task takes a row away from its holder.                    *)
LiveClaimEndsByHolder ==
  [][\A id \in RowIds :
       outbox[id].claim # None /\ ~outbox[id].stale
         /\ outbox'[id].claim # outbox[id].claim
       => \/ status'[RequestOf[id]] = "removed"
          \/ \E p \in Processes :
               /\ task[p][id].token = outbox[id].claim
               /\ task[p][id].pc \in {"finalizing", "failing"}
               /\ task'[p][id].pc = "none"]_vars

(* A row is claimed only when its retry delay has elapsed: what the tests   *)
(* "respects retry backoff during periodic scans" and "persists provider-   *)
(* directed retry delays across manager restarts" say of the dispatcher.    *)
BackoffRespected ==
  [][\A id \in RowIds :
       outbox'[id].claim \notin {None, outbox[id].claim} => outbox[id].due]_vars

(* A failed book request leaves the durable queue by delivery or exhaustion *)
(* of its attempts, never because a transient error met it: what the code   *)
(* logs of that error, "leaving request in the durable dispatch queue".     *)
FailedBookStaysQueued ==
  [][\A r \in Books, id \in RowIds :
       /\ RequestOf[id] = r /\ status[r] = "failed" /\ status'[r] = "failed"
       /\ outbox[id].live /\ ~outbox'[id].live
       => \E p \in Processes : AttemptsMade(p, id) >= MaxAttempts]_vars

-----------------------------------------------------------------------------
(* Liveness *)

(* A queued dispatch is settled: the row of an approved request leaves the  *)
(* outbox, delivered or exhausted, through any number of scans and retries  *)
(* and a bounded number of faults.                                          *)
EventuallySettled == \A r \in Requests : Queued(r) ~> ~Queued(r)

(* An approved book request is eventually completed or failed, also when a  *)
(* retry lost its dispatch to the worker of an older one: that is what the  *)
(* reconciliation job is for.                                               *)
ApprovedBooksSettle ==
  \A r \in Books : status[r] = "approved" ~> status[r] # "approved"
=============================================================================
