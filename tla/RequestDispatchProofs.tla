------------------------ MODULE RequestDispatchProofs ------------------------
(***************************************************************************)
(* Theorems about RequestDispatch, for every number of processes, requests *)
(* and rows.                                                               *)
(***************************************************************************)
EXTENDS RequestDispatch, FiniteSetTheorems, TLAPS

(* The records the actions build have the types of the columns and fields   *)
(* they are written to.                                                     *)
LEMMA RecordTypes ==
  /\ NoRow \in Row /\ NewRow \in Row
  /\ NoRow.claim = None /\ NewRow.claim = None
  /\ ~NoRow.live /\ NewRow.live
  /\ NoTask \in Task /\ NoTask.token = None /\ NoTask.pc = "none"
  /\ NotSeen \in Snapshot /\ ~NotSeen.seen
  /\ Free \in Holder /\ Free.step = "free"
  /\ Nothing \in [RowIds -> Snapshot]
BY DEF NoRow, NewRow, Row, NoTask, Task, TaskStates, NotSeen, Snapshot, Free,
       Holder, Steps, Nothing

(* dispatch() changes a task only from "none", to a queued task that holds  *)
(* no token and whose row is in the snapshot.                               *)
LEMMA DispatchEffect ==
  ASSUME TypeOK, NEW p \in Processes, NEW snapshot \in [RowIds -> Snapshot],
         Dispatch(p, snapshot)
  PROVE  /\ task' \in [Processes -> [RowIds -> Task]]
         /\ \A q \in Processes, id \in RowIds :
              \/ task'[q][id] = task[q][id]
              \/ /\ q = p /\ snapshot[id].seen /\ task[q][id].pc = "none"
                 /\ task'[q][id].pc = "queued" /\ task'[q][id].token = None
                 /\ ~task'[q][id].delivered
<1>1. PICK accepted \in SUBSET {id \in RowIds : snapshot[id].seen /\ task[p][id].pc = "none"} :
        task' = [task EXCEPT ![p] = [id \in RowIds |->
             IF id \in accepted
             THEN [NoTask EXCEPT !.pc = "queued", !.attempts = snapshot[id].attempts]
             ELSE task[p][id]]]
  BY DEF Dispatch
<1>2. \A id \in RowIds : snapshot[id].attempts \in Nat
  BY DEF Snapshot
<1>3. \A n \in Nat : LET new == [NoTask EXCEPT !.pc = "queued", !.attempts = n]
                     IN  /\ new \in Task /\ new.pc = "queued"
                         /\ new.token = None /\ ~new.delivered
  BY DEF NoTask, Task, TaskStates
<1>4. task \in [Processes -> [RowIds -> Task]]
  BY DEF TypeOK
<1>5. \A q \in Processes, id \in RowIds :
        task'[q][id] = IF q = p /\ id \in accepted
                       THEN [NoTask EXCEPT !.pc = "queued", !.attempts = snapshot[id].attempts]
                       ELSE task[q][id]
  BY <1>1, <1>4
<1>6. task' \in [Processes -> [RowIds -> Task]]
  BY <1>1, <1>2, <1>3, <1>4
<1>7. ASSUME NEW q \in Processes, NEW id \in RowIds, task'[q][id] # task[q][id]
      PROVE  /\ q = p /\ snapshot[id].seen /\ task[q][id].pc = "none"
             /\ task'[q][id].pc = "queued" /\ task'[q][id].token = None
             /\ ~task'[q][id].delivered
  <2>1. q = p /\ id \in accepted
    BY <1>5, <1>7
  <2>2. snapshot[id].seen /\ task[q][id].pc = "none"
    BY <2>1
  <2> DEFINE n == snapshot[id].attempts
             new == [NoTask EXCEPT !.pc = "queued", !.attempts = n]
  <2>3. task'[q][id] = new
    BY <1>5, <2>1
  <2>4. n \in Nat
    BY <1>2
  <2> HIDE DEF n
  <2>5. new.pc = "queued" /\ new.token = None /\ ~new.delivered
    BY <2>4 DEF NoTask
  <2> HIDE DEF new
  <2>6. QED BY <2>1, <2>2, <2>3, <2>5
<1>8. QED BY <1>6, <1>7

(* What enqueue() and the dispatch after it may change. *)
LEMMA EnqueueEffect ==
  ASSUME ConstantsAssumption, TypeOK, NEW p \in Processes, NEW r \in Requests,
         Enqueue(p, r)
  PROVE  /\ task' \in [Processes -> [RowIds -> Task]]
         /\ outbox' \in [RowIds -> Row]
         /\ \A q \in Processes, id \in RowIds :
              \/ task'[q][id] = task[q][id]
              \/ /\ RequestOf[id] = r /\ task[q][id].pc = "none"
                 /\ task'[q][id].pc = "queued" /\ task'[q][id].token = None
                 /\ ~task'[q][id].delivered
         /\ \A id \in RowIds :
              \/ outbox'[id] = outbox[id]
              \/ /\ RequestOf[id] = r /\ ~outbox[id].live
                 /\ outbox'[id] = NewRow
         /\ \E id \in RowIds : RequestOf[id] = r /\ outbox'[id].live
<1>a. \A id \in RowIds, n \in Nat : /\ Only(id, n) \in [RowIds -> Snapshot]
                                    /\ \A i \in RowIds : Only(id, n)[i].seen => i = id
  BY RecordTypes DEF Only, Snapshot
<1>b. Nothing \in [RowIds -> Snapshot] /\ \A i \in RowIds : ~Nothing[i].seen
  BY RecordTypes DEF Nothing
<1>c. outbox \in [RowIds -> Row] /\ \A id \in RowIds : outbox[id].attempts \in Nat
  BY DEF TypeOK, Row
<1>1. CASE \E id \in RowsOf(r) :
             /\ outbox[id].live
             /\ outbox' = outbox
             /\ Dispatch(p, IF outbox[id].due THEN Only(id, outbox[id].attempts)
                                              ELSE Nothing)
  <2>1. PICK id \in RowsOf(r) :
             /\ outbox[id].live
             /\ outbox' = outbox
             /\ Dispatch(p, IF outbox[id].due THEN Only(id, outbox[id].attempts)
                                              ELSE Nothing)
    BY <1>1
  <2>2. id \in RowIds /\ RequestOf[id] = r
    BY DEF RowsOf
  <2>3. CASE outbox[id].due
    <3>1. Dispatch(p, Only(id, outbox[id].attempts))
      BY <2>1, <2>3
    <3>2. QED BY <3>1, <2>1, <2>2, <1>a, <1>c, DispatchEffect
  <2>4. CASE ~outbox[id].due
    <3>1. Dispatch(p, Nothing)
      BY <2>1, <2>4
    <3>2. QED BY <3>1, <2>1, <2>2, <1>b, <1>c, DispatchEffect
  <2>5. QED BY <2>3, <2>4
<1>2. CASE \E id \in RowsOf(r) :
             /\ Unused(id)
             /\ outbox' = [outbox EXCEPT ![id] = NewRow]
             /\ Dispatch(p, Only(id, 0))
  <2>1. PICK id \in RowsOf(r) :
             /\ Unused(id)
             /\ outbox' = [outbox EXCEPT ![id] = NewRow]
             /\ Dispatch(p, Only(id, 0))
    BY <1>2
  <2>2. id \in RowIds /\ RequestOf[id] = r /\ ~outbox[id].live
    BY <2>1 DEF RowsOf, Unused
  <2>3. outbox' \in [RowIds -> Row] /\ outbox'[id].live
    BY <2>1, <2>2, <1>c, RecordTypes
  <2>4. \A i \in RowIds : outbox'[i] = outbox[i] \/ (i = id /\ outbox'[i] = NewRow)
    BY <2>1, <2>2, <1>c
  <2>5. QED BY <2>1, <2>2, <2>3, <2>4, <1>a, DispatchEffect
<1>3. QED BY <1>1, <1>2 DEF Enqueue
-----------------------------------------------------------------------------
(* Type correctness *)

(* cancel() and the cascade only turn rows into absent ones. *)
LEMMA CancelEffect ==
  ASSUME TypeOK, NEW r \in Requests
  PROVE  /\ WithoutUnclaimed(r) \in [RowIds -> Row]
         /\ WithoutRowsOf(r) \in [RowIds -> Row]
         /\ \A id \in RowIds :
              /\ \/ WithoutUnclaimed(r)[id] = outbox[id]
                 \/ /\ WithoutUnclaimed(r)[id] = NoRow
                    /\ RequestOf[id] = r /\ outbox[id].claim = None
              /\ \/ WithoutRowsOf(r)[id] = outbox[id]
                 \/ WithoutRowsOf(r)[id] = NoRow /\ RequestOf[id] = r
BY RecordTypes DEF TypeOK, WithoutUnclaimed, WithoutRowsOf

(* Every operator action keeps the types. *)
LEMMA OperatorTypes ==
  ASSUME ConstantsAssumption, TypeOK, NEW p \in Processes, NEW r \in Requests,
         Operator(p, r)
  PROVE  TypeOK'
<1> USE DEF TypeOK
<1>1. ASSUME Enqueue(p, r)
      PROVE  outbox' \in [RowIds -> Row] /\ task' \in [Processes -> [RowIds -> Task]]
  BY <1>1, EnqueueEffect
<1>2. ASSUME BecomeApproved(r)
      PROVE  /\ status' \in [Requests -> Statuses] /\ sends' \in [Requests -> Nat]
             /\ unavailable' \in [Requests -> BOOLEAN]
  BY <1>2 DEF BecomeApproved, Statuses
<1>3. \A step \in Steps : [proc |-> p, step |-> step] \in Holder
  BY DEF Holder
<1>4. ASSUME NEW step \in Steps, Take(p, r, step)
      PROVE  admission' \in [Requests -> Holder]
  BY <1>3, <1>4 DEF Take
<1>5. ASSUME Release(r)
      PROVE  admission' \in [Requests -> Holder]
  BY <1>5, RecordTypes DEF Release
<1>6. ASSUME RemoveRequest(r)
      PROVE  status' \in [Requests -> Statuses] /\ outbox' \in [RowIds -> Row]
  BY <1>6, CancelEffect DEF RemoveRequest, Statuses
<1>7. WithoutUnclaimed(r) \in [RowIds -> Row]
  BY CancelEffect
<1>8. {"cancelled", "saved", "clearing"} \subseteq Steps
  BY DEF Steps
<1>a. CASE CreatePending(p, r)  BY <1>a DEF CreatePending, Statuses
<1>b. CASE CreateApproved(p, r) BY <1>b, <1>1, <1>2 DEF CreateApproved
<1>c. CASE Approve(p, r)        BY <1>c, <1>1, <1>2 DEF Approve
<1>d. CASE Decline(p, r)        BY <1>d, <1>7 DEF Decline, Statuses
<1>e. CASE Repair(p, r)         BY <1>e, <1>1, <1>2 DEF Repair
<1>f. CASE RetryCancel(p, r)    BY <1>f, <1>4, <1>7, <1>8 DEF RetryCancel
<1>g. CASE RetrySave(p, r)      BY <1>g, <1>1, <1>2, <1>4, <1>8 DEF RetrySave
<1>h. CASE RetryEnqueue(p, r)   BY <1>h, <1>1, <1>5 DEF RetryEnqueue
<1>i. CASE ClearCancel(p, r)    BY <1>i, <1>4, <1>7, <1>8 DEF ClearCancel
<1>j. CASE ClearRefused(p, r) \/ RetryRefused(p, r)
  BY <1>j, <1>5 DEF ClearRefused, RetryRefused
<1>k. CASE ClearRemove(p, r)    BY <1>k, <1>5, <1>6 DEF ClearRemove
<1>l. CASE Remove(p, r)         BY <1>l, <1>6 DEF Remove
<1>m. CASE Reconcile(p, r)      BY <1>m, <1>1 DEF Reconcile
<1>z. QED BY <1>a, <1>b, <1>c, <1>d, <1>e, <1>f, <1>g, <1>h, <1>i, <1>j, <1>k,
             <1>l, <1>m DEF Operator

(* Two fields of a record are written at once by a claim and by a return.   *)
LEMMA RecordUpdates ==
  /\ \A x \in Task, d \in BOOLEAN :
       LET new == [x EXCEPT !.pc = "returned", !.delivered = d]
       IN  /\ new \in Task /\ new.pc = "returned" /\ new.delivered = d
           /\ new.token = x.token
  /\ \A x \in Task, t \in Tokens :
       LET new == [x EXCEPT !.pc = "claimed", !.token = t]
       IN  /\ new \in Task /\ new.pc = "claimed" /\ new.token = t
           /\ new.delivered = x.delivered
  /\ \A x \in Row, t \in Tokens :
       LET new == [x EXCEPT !.claim = t, !.stale = FALSE]
       IN  new \in Row /\ new.claim = t /\ new.live = x.live
<1>1. ASSUME NEW x \in Task, NEW d \in BOOLEAN
      PROVE  LET new == [x EXCEPT !.pc = "returned", !.delivered = d]
             IN  /\ new \in Task /\ new.pc = "returned" /\ new.delivered = d
                 /\ new.token = x.token
  BY DEF Task, TaskStates
<1>2. ASSUME NEW x \in Task, NEW t \in Tokens
      PROVE  LET new == [x EXCEPT !.pc = "claimed", !.token = t]
             IN  /\ new \in Task /\ new.pc = "claimed" /\ new.token = t
                 /\ new.delivered = x.delivered
  BY DEF Task, TaskStates
<1>3. ASSUME NEW x \in Row, NEW t \in Tokens
      PROVE  LET new == [x EXCEPT !.claim = t, !.stale = FALSE]
             IN  new \in Row /\ new.claim = t /\ new.live = x.live
  BY DEF Row
<1>4. QED BY <1>1, <1>2, <1>3

(* The assignments the steps of a task make to it, one lemma for each form. *)
LEMMA GotoEffect ==
  ASSUME TypeOK, NEW p \in Processes, NEW id \in RowIds, NEW pc \in TaskStates,
         Goto(p, id, pc)
  PROVE  /\ task' \in [Processes -> [RowIds -> Task]]
         /\ \A q \in Processes, i \in RowIds :
              /\ task'[q][i].token = task[q][i].token
              /\ task'[q][i].delivered = task[q][i].delivered
              /\ task'[q][i].pc = IF q = p /\ i = id THEN pc ELSE task[q][i].pc
<1>1. task \in [Processes -> [RowIds -> Task]]
  BY DEF TypeOK
<1>2. QED BY <1>1 DEF Goto, Task

LEMMA FinishEffect ==
  ASSUME TypeOK, NEW p \in Processes, NEW id \in RowIds, Finish(p, id)
  PROVE  /\ task' \in [Processes -> [RowIds -> Task]]
         /\ \A q \in Processes, i \in RowIds :
              task'[q][i] = IF q = p /\ i = id THEN NoTask ELSE task[q][i]
<1>1. task \in [Processes -> [RowIds -> Task]]
  BY DEF TypeOK
<1>2. QED BY <1>1, RecordTypes DEF Finish

LEMMA ReturnEffect ==
  ASSUME TypeOK, NEW p \in Processes, NEW id \in RowIds, NEW d \in BOOLEAN,
         Yield(p, id, d)
  PROVE  /\ task' \in [Processes -> [RowIds -> Task]]
         /\ \A q \in Processes, i \in RowIds :
              /\ task'[q][i].token = task[q][i].token
              /\ q # p \/ i # id => task'[q][i] = task[q][i]
         /\ task'[p][id].pc = "returned" /\ task'[p][id].delivered = d
<1>1. task \in [Processes -> [RowIds -> Task]]
  BY DEF TypeOK
<1>2. LET new == [task[p][id] EXCEPT !.pc = "returned", !.delivered = d]
      IN  /\ new \in Task /\ new.pc = "returned" /\ new.delivered = d
          /\ new.token = task[p][id].token
  <2> DEFINE x == task[p][id]
  <2>1. x \in Task
    BY <1>1
  <2> HIDE DEF x
  <2>2. LET new == [x EXCEPT !.pc = "returned", !.delivered = d]
        IN  /\ new \in Task /\ new.pc = "returned" /\ new.delivered = d
            /\ new.token = x.token
    BY <2>1 DEF Task, TaskStates
  <2>3. QED BY <2>2 DEF x
<1>3. \A q \in Processes, i \in RowIds :
        task'[q][i] = IF q = p /\ i = id
                      THEN [task[p][id] EXCEPT !.pc = "returned", !.delivered = d]
                      ELSE task[q][i]
  BY <1>1 DEF Yield
<1>4. QED BY <1>1, <1>2, <1>3 DEF Yield

LEMMA ClaimEffect ==
  ASSUME TypeOK, NEW p \in Processes, NEW id \in RowIds, NEW t \in Tokens,
         Own(p, id, t)
  PROVE  /\ task' \in [Processes -> [RowIds -> Task]]
         /\ \A q \in Processes, i \in RowIds :
              q # p \/ i # id => task'[q][i] = task[q][i]
         /\ task'[p][id].pc = "claimed" /\ task'[p][id].token = t
         /\ task'[p][id].delivered = task[p][id].delivered
<1>1. task \in [Processes -> [RowIds -> Task]]
  BY DEF TypeOK
<1>2. LET new == [task[p][id] EXCEPT !.pc = "claimed", !.token = t]
      IN  /\ new \in Task /\ new.pc = "claimed" /\ new.token = t
          /\ new.delivered = task[p][id].delivered
  <2> DEFINE x == task[p][id]
  <2>1. x \in Task
    BY <1>1
  <2> HIDE DEF x
  <2>2. LET new == [x EXCEPT !.pc = "claimed", !.token = t]
        IN  /\ new \in Task /\ new.pc = "claimed" /\ new.token = t
            /\ new.delivered = x.delivered
    BY <2>1 DEF Task, TaskStates
  <2>3. QED BY <2>2 DEF x
<1>3. \A q \in Processes, i \in RowIds :
        task'[q][i] = IF q = p /\ i = id
                      THEN [task[p][id] EXCEPT !.pc = "claimed", !.token = t]
                      ELSE task[q][i]
  BY <1>1 DEF Own
<1>4. QED BY <1>1, <1>2, <1>3 DEF Own

(* Every step of a worker keeps the types. *)
(* An error of a delivery leaves the sends as they are or adds one, which   *)
(* is a fault.                                                              *)
LEMMA AcceptanceBilled ==
  ASSUME TypeOK, NEW r \in Requests, PerhapsAccepted(r)
  PROVE  /\ sends' \in [Requests -> Nat] /\ faults' \in Nat
         /\ \A s \in Requests : s # r => sends'[s] = sends[s]
         /\ \/ UNCHANGED <<sends, faults>>
            \/ /\ faults' = faults + 1 /\ sends'[r] = sends[r] + 1
               /\ sends' = [sends EXCEPT ![r] = @ + 1]
BY DEF PerhapsAccepted, Fault, TypeOK

LEMMA WorkerTypes ==
  ASSUME ConstantsAssumption, TypeOK, NEW p \in Processes, NEW id \in RowIds,
         Worker(p, id)
  PROVE  TypeOK'
<1> DEFINE r == RequestOf[id]
<1>1. r \in Requests
  BY DEF ConstantsAssumption
<1>2. outbox \in [RowIds -> Row] /\ outbox[id] \in Row
  BY DEF TypeOK
<1>3. [outbox EXCEPT ![id].stale = FALSE] \in [RowIds -> Row]
  BY <1>2 DEF Row
<1>4. \A t \in Tokens :
        [outbox EXCEPT ![id] = [@ EXCEPT !.claim = t, !.stale = FALSE]] \in [RowIds -> Row]
  <2>1. ASSUME NEW t \in Tokens
        PROVE  [outbox[id] EXCEPT !.claim = t, !.stale = FALSE] \in Row
    BY <1>2, RecordUpdates, Zenon
  <2>2. QED BY <1>2, <2>1
<1>5. WithoutUnclaimed(r) \in [RowIds -> Row]
  BY <1>1, CancelEffect
<1>6. [outbox EXCEPT ![id] = NoRow] \in [RowIds -> Row]
  BY <1>2, RecordTypes
<1>7. task[p][id].attempts \in Nat
  BY DEF TypeOK, Task
<1>8. \A pc \in TaskStates : Goto(p, id, pc) => task' \in [Processes -> [RowIds -> Task]]
  BY GotoEffect
<1>9. Finish(p, id) => task' \in [Processes -> [RowIds -> Task]]
  BY FinishEffect
<1>10. \A d \in BOOLEAN :
         Return(p, id, d) => /\ task' \in [Processes -> [RowIds -> Task]]
                             /\ admission' \in [Requests -> Holder]
  <2>1. ASSUME NEW d \in BOOLEAN, Return(p, id, d)
        PROVE  task' \in [Processes -> [RowIds -> Task]]
    <3>1. Yield(p, id, d)
      BY <2>1 DEF Return
    <3>2. QED BY <3>1, ReturnEffect
  <2>2. Release(r) => admission' \in [Requests -> Holder]
    BY <1>1, RecordTypes DEF Release, TypeOK
  <2>3. QED BY <2>1, <2>2 DEF Return
<1>11. {"started", "finalizing", "failing", "admitted"} \subseteq TaskStates
  BY DEF TaskStates
<1>12. /\ [status EXCEPT ![r] = "completed"] \in [Requests -> Statuses]
       /\ [status EXCEPT ![r] = "failed"] \in [Requests -> Statuses]
       /\ [status EXCEPT ![r] = IF @ = "approved" THEN "failed" ELSE @]
             \in [Requests -> Statuses]
  BY <1>1 DEF TypeOK, Statuses
<1> USE DEF TypeOK
<1>a. CASE Claim(p, id)
  <2>1. PICK t \in Tokens :
          /\ outbox' = [outbox EXCEPT ![id] = [@ EXCEPT !.claim = t, !.stale = FALSE]]
          /\ Own(p, id, t)
    BY <1>a DEF Claim, UnusedTokens
  <2>2. task' \in [Processes -> [RowIds -> Task]]
    BY <2>1, ClaimEffect
  <2>3. outbox' \in [RowIds -> Row]
    BY <2>1, <1>4, Zenon
  <2>4. QED BY <1>a, <2>2, <2>3 DEF Claim
<1>b. CASE ClaimRefused(p, id)  BY <1>b, <1>9 DEF ClaimRefused
<1>c. CASE Renew(p, id)
  <2>1. (IF At(p, id, "claimed") THEN "started" ELSE "finalizing") \in TaskStates
    BY <1>11
  <2>2. QED BY <1>c, <1>3, <1>8, <2>1 DEF Renew
<1>d. CASE RenewLost(p, id)     BY <1>d, <1>8, <1>11 DEF RenewLost
<1>e. CASE Heartbeat(p, id)     BY <1>e, <1>3 DEF Heartbeat
<1>f. CASE Admit(p, id)
  <2>1. [proc |-> p, step |-> "dispatch"] \in Holder
    BY DEF Holder, Steps
  <2>2. QED BY <1>f, <1>1, <1>8, <1>11, <2>1 DEF Admit, Take
<1>g. CASE NothingToDo(p, id)
  <2>1. Yield(p, id, TRUE)
    BY <1>g DEF NothingToDo
  <2>2. task' \in [Processes -> [RowIds -> Task]]
    BY <2>1, ReturnEffect
  <2>3. QED BY <1>g, <2>2 DEF NothingToDo
<1>h. CASE SendAccepted(p, id)
  <2>1. task' \in [Processes -> [RowIds -> Task]] /\ admission' \in [Requests -> Holder]
    BY <1>h, <1>10 DEF SendAccepted
  <2>2. sends' \in [Requests -> Nat]
    BY <1>h, <1>1 DEF SendAccepted
  <2>3. status' \in [Requests -> Statuses] /\ outbox' \in [RowIds -> Row]
    BY <1>h, <1>5, <1>12 DEF SendAccepted
  <2>4. QED BY <1>h, <2>1, <2>2, <2>3 DEF SendAccepted
<1>i. CASE AlreadyAvailable(p, id)
  BY <1>i, <1>5, <1>10, <1>12 DEF AlreadyAvailable
<1>j. CASE NoRelease(p, id)     BY <1>j, <1>10 DEF NoRelease
<1>13. PerhapsAccepted(r) => sends' \in [Requests -> Nat] /\ faults' \in Nat
  BY <1>1, AcceptanceBilled
<1>k. CASE SendFailed(p, id)    BY <1>k, <1>5, <1>10, <1>12, <1>13 DEF SendFailed
<1>l. CASE SendDeferred(p, id)  BY <1>l, <1>10, <1>13 DEF SendDeferred
<1>m. CASE SendThrows(p, id)
  BY <1>m, <1>8, <1>11, <1>13, RecordTypes DEF SendThrows, Release
<1>n. CASE DeleteDelivered(p, id) BY <1>n, <1>6, <1>9 DEF DeleteDelivered
<1>o. CASE Reschedule(p, id)
  <2>1. \A n \in Nat : [NewRow EXCEPT !.attempts = n, !.due = FALSE] \in Row
    BY DEF NewRow, NoRow, Row
  <2>2. AttemptsMade(p, id) \in Nat
    BY <1>7 DEF AttemptsMade
  <2>3. [outbox EXCEPT ![id] = [NewRow EXCEPT
           !.attempts = AttemptsMade(p, id), !.due = FALSE]] \in [RowIds -> Row]
    BY <1>2, <2>1, <2>2
  <2>4. QED BY <1>o, <1>9, <2>3 DEF Reschedule
<1>p. CASE Exhaust(p, id)       BY <1>p, <1>6, <1>9, <1>12 DEF Exhaust
<1>q. CASE ClaimWasLost(p, id)  BY <1>q, <1>8, <1>9, <1>11 DEF ClaimWasLost
<1>z. QED BY <1>a, <1>b, <1>c, <1>d, <1>e, <1>f, <1>g, <1>h, <1>i, <1>j, <1>k,
             <1>l, <1>m, <1>n, <1>o, <1>p, <1>q DEF Worker, Proceed, Deliver

LEMMA TypeStep ==
  ASSUME ConstantsAssumption, TypeOK, [Next]_vars
  PROVE  TypeOK'
<1>1. CASE UNCHANGED vars
  BY <1>1 DEF vars, TypeOK
<1>2. ASSUME NEW p \in Processes, NEW r \in Requests, Operator(p, r)
      PROVE  TypeOK'
  BY <1>2, OperatorTypes
<1>3. ASSUME NEW p \in Processes, NEW id \in RowIds, Worker(p, id)
      PROVE  TypeOK'
  BY <1>3, WorkerTypes
<1>4. ASSUME NEW r \in Requests, CompleteFromLibrary(r)
      PROVE  TypeOK'
  BY <1>4, CancelEffect DEF CompleteFromLibrary, TypeOK, Statuses
<1>5. ASSUME NEW p \in Processes, ScanRead(p)
      PROVE  TypeOK'
  <2>1. \A id \in RowIds : [seen |-> TRUE, attempts |-> outbox[id].attempts] \in Snapshot
    BY DEF TypeOK, Row, Snapshot
  <2>2. [id \in RowIds |->
          IF Claimable(outbox[id]) /\ outbox[id].due
          THEN [seen |-> TRUE, attempts |-> outbox[id].attempts] ELSE NotSeen]
        \in [RowIds -> Snapshot]
    BY <2>1, RecordTypes
  <2>3. QED BY <1>5, <2>2 DEF ScanRead, TypeOK
<1>6. ASSUME NEW p \in Processes, ScanDispatch(p)
      PROVE  TypeOK'
  <2>1. scan[p] \in [RowIds -> Snapshot] /\ Dispatch(p, scan[p])
    BY <1>6 DEF ScanDispatch, TypeOK
  <2>2. task' \in [Processes -> [RowIds -> Task]]
    BY <2>1, DispatchEffect
  <2>3. QED BY <1>6, <2>2, RecordTypes DEF ScanDispatch, TypeOK
<1>7. ASSUME Fault
      PROVE  faults' \in Nat
  BY <1>7 DEF Fault, TypeOK
<1>8. ASSUME NEW p \in Processes, Crash(p)
      PROVE  TypeOK'
  <2>1. sends' \in [Requests -> Nat]
    BY <1>8 DEF Crash, TypeOK
  <2>2. QED BY <1>7, <1>8, <2>1, RecordTypes DEF Crash, TypeOK
<1>9. ASSUME NEW p \in Processes, NEW id \in RowIds, DatabaseError(p, id)
      PROVE  TypeOK'
  <2>1. "failing" \in TaskStates
    BY DEF TaskStates
  <2>2. QED BY <1>7, <1>9, <2>1, GotoEffect, FinishEffect DEF DatabaseError, TypeOK
<1>10. ASSUME NEW id \in RowIds, BackoffElapses(id)
       PROVE  TypeOK'
  <2>0. outbox \in [RowIds -> Row]
    BY DEF TypeOK
  <2>1. [outbox EXCEPT ![id].due = TRUE] \in [RowIds -> Row]
    BY <2>0 DEF Row
  <2>2. QED BY <1>10, <2>1 DEF BackoffElapses, TypeOK
<1>11. ASSUME NEW id \in RowIds, LeaseExpires(id) \/ LeaseLost(id)
       PROVE  TypeOK'
  <2>0. outbox \in [RowIds -> Row]
    BY DEF TypeOK
  <2>1. [outbox EXCEPT ![id].stale = TRUE] \in [RowIds -> Row]
    BY <2>0 DEF Row
  <2>2. QED BY <1>7, <1>11, <2>1 DEF LeaseExpires, LeaseLost, Lapse, TypeOK
<1>12. QED BY <1>1, <1>2, <1>3, <1>4, <1>5, <1>6, <1>8, <1>9, <1>10, <1>11 DEF Next

LEMMA TypeInit ==
  ASSUME Init
  PROVE  TypeOK
BY RecordTypes DEF Init, TypeOK, Statuses

(* Every variable keeps its type, in particular every column of the outbox  *)
(* and every field of a task in memory.                                     *)
THEOREM TypeCorrect == Spec => []TypeOK
<1>1. Init => TypeOK
  BY TypeInit
<1>2. TypeOK /\ [Next]_vars => TypeOK'
  BY TypeStep, ConstantsAssumption
<1>3. QED BY <1>1, <1>2, PTL DEF Spec

-----------------------------------------------------------------------------
(* Claims *)

(* A primary key that is not in use carries no claim and no columns.        *)
AbsentRowsEmpty == \A i \in RowIds : ~outbox[i].live => outbox[i] = NoRow

(* The task p runs for row i ends in a step it takes as the holder.         *)
EndsClaim(p, i) ==
  /\ task[p][i].token = outbox[i].claim
  /\ task[p][i].pc \in {"finalizing", "failing"}
  /\ task'[p][i].pc = "none"

(* What a step other than a claim may do to a row: leave it claimed as it   *)
(* is, or leave it unclaimed for one of three reasons.                      *)
RowEffect(i) ==
  \/ /\ outbox'[i].claim = outbox[i].claim
     /\ outbox[i].live \/ outbox'[i] = outbox[i]
     /\ outbox'[i].live = outbox[i].live
  \/ /\ outbox'[i] = NoRow \/ outbox'[i].live
     /\ outbox'[i].claim = None
     /\ \/ outbox[i].claim = None
        \/ status'[RequestOf[i]] = "removed"
        \/ \E p \in Processes : EndsClaim(p, i)

KeepsToken(q, i) == task'[q][i].token = task[q][i].token \/ task'[q][i].token = None

Unclaimed ==
  /\ \A i \in RowIds : RowEffect(i)
  /\ \A q \in Processes, i \in RowIds :
       KeepsToken(q, i)

(* Nothing an API handler, the library or the reconciliation does adds a    *)
(* claim, or takes one away from a request that is not removed.             *)
LEMMA OperatorClaims ==
  ASSUME ConstantsAssumption, TypeOK, AbsentRowsEmpty,
         NEW r \in Requests,
         CompleteFromLibrary(r) \/ \E p \in Processes : Operator(p, r)
  PROVE  Unclaimed
<1>1. ASSUME UNCHANGED outbox
      PROVE  \A i \in RowIds : RowEffect(i)
  BY <1>1 DEF RowEffect
<1>2. ASSUME UNCHANGED task
      PROVE  \A q \in Processes, i \in RowIds :
               KeepsToken(q, i)
  BY <1>2 DEF KeepsToken
<1>3. ASSUME NEW p \in Processes, Enqueue(p, r)
      PROVE  Unclaimed
  <2>1. \A i \in RowIds : outbox[i].live \/ outbox[i].claim = None
    BY RecordTypes DEF AbsentRowsEmpty
  <2>2. \A i \in RowIds : RowEffect(i)
    BY <1>3, <2>1, EnqueueEffect, RecordTypes DEF RowEffect
  <2>3. QED BY <1>3, <2>2, EnqueueEffect DEF Unclaimed, KeepsToken
<1>4. ASSUME outbox' = WithoutUnclaimed(r)
      PROVE  \A i \in RowIds : RowEffect(i)
  <2>1. \A i \in RowIds : \/ outbox'[i] = outbox[i]
                          \/ outbox'[i] = NoRow /\ outbox[i].claim = None
    BY <1>4, CancelEffect
  <2>2. QED BY <2>1, RecordTypes DEF RowEffect
<1>5. ASSUME RemoveRequest(r)
      PROVE  \A i \in RowIds : RowEffect(i)
  <2>1. status'[r] = "removed"
    BY <1>5 DEF RemoveRequest, TypeOK
  <2>2. \A i \in RowIds : \/ outbox'[i] = outbox[i]
                          \/ outbox'[i] = NoRow /\ RequestOf[i] = r
    BY <1>5, CancelEffect DEF RemoveRequest
  <2>3. QED BY <2>1, <2>2, RecordTypes DEF RowEffect
<1>a. CASE CompleteFromLibrary(r)
  BY <1>a, <1>2, <1>4 DEF CompleteFromLibrary, Unclaimed
<1>b. CASE \E p \in Processes : Operator(p, r)
  <2> PICK p \in Processes : Operator(p, r)
    BY <1>b
  <2>1. CASE CreatePending(p, r) \/ ClearRefused(p, r) \/ RetryRefused(p, r)
    BY <2>1, <1>1, <1>2 DEF CreatePending, ClearRefused, RetryRefused, Unclaimed
  <2>2. CASE \/ CreateApproved(p, r) \/ Approve(p, r) \/ Repair(p, r)
             \/ RetrySave(p, r) \/ RetryEnqueue(p, r) \/ Reconcile(p, r)
    <3>1. Enqueue(p, r)
      BY <2>2 DEF CreateApproved, Approve, Repair, RetrySave, RetryEnqueue, Reconcile
    <3>2. QED BY <3>1, <1>3
  <2>3. CASE Decline(p, r) \/ RetryCancel(p, r) \/ ClearCancel(p, r)
    BY <2>3, <1>2, <1>4 DEF Decline, RetryCancel, ClearCancel, Unclaimed
  <2>4. CASE Remove(p, r) \/ ClearRemove(p, r)
    BY <2>4, <1>2, <1>5 DEF Remove, ClearRemove, Unclaimed
  <2>5. QED BY <2>1, <2>2, <2>3, <2>4 DEF Operator
<1>c. QED BY <1>a, <1>b

(* A worker ends a claim only as its holder, and apart from a claim of its  *)
(* own it writes nothing to the claims of other rows.                       *)
LEMMA WorkerClaims ==
  ASSUME ConstantsAssumption, TypeOK, AbsentRowsEmpty,
         NEW p \in Processes, NEW id \in RowIds, Worker(p, id)
  PROVE  Claim(p, id) \/ Unclaimed
<1> DEFINE r == RequestOf[id]
<1>1. r \in Requests /\ outbox \in [RowIds -> Row]
  BY DEF ConstantsAssumption, TypeOK
<1>2. ASSUME UNCHANGED outbox \/ outbox' = WithoutUnclaimed(r)
      PROVE  \A i \in RowIds : RowEffect(i)
  <2>1. \A i \in RowIds : \/ outbox'[i] = outbox[i]
                          \/ outbox'[i] = NoRow /\ outbox[i].claim = None
    BY <1>1, <1>2, CancelEffect
  <2>2. QED BY <2>1, RecordTypes DEF RowEffect
<1>3. \A pc \in TaskStates : Goto(p, id, pc) =>
        \A q \in Processes, i \in RowIds : KeepsToken(q, i)
  <2>1. ASSUME NEW pc \in TaskStates, Goto(p, id, pc),
               NEW q \in Processes, NEW i \in RowIds
        PROVE  task'[q][i].token = task[q][i].token
    BY <2>1, GotoEffect
  <2>2. QED BY <2>1, Zenon DEF KeepsToken
<1>4. Finish(p, id) =>
        /\ \A q \in Processes, i \in RowIds :
             KeepsToken(q, i)
        /\ task'[p][id].pc = "none"
  <2>1. ASSUME Finish(p, id), NEW q \in Processes, NEW i \in RowIds
        PROVE  task'[q][i] = IF q = p /\ i = id THEN NoTask ELSE task[q][i]
    BY <2>1, FinishEffect
  <2>2. ASSUME Finish(p, id), NEW q \in Processes, NEW i \in RowIds
        PROVE  KeepsToken(q, i)
    BY <2>1, <2>2, RecordTypes DEF KeepsToken
  <2>3. Finish(p, id) => task'[p][id].pc = "none"
    BY <2>1, RecordTypes
  <2>4. QED BY <2>2, <2>3
<1>5. ASSUME NEW d \in BOOLEAN,
             Yield(p, id, d)
      PROVE  \A q \in Processes, i \in RowIds :
               KeepsToken(q, i)
  <2>1. \A q \in Processes, i \in RowIds : task'[q][i].token = task[q][i].token
    BY <1>5, ReturnEffect
  <2>2. QED BY <2>1, Zenon DEF KeepsToken
<1>6. {"started", "finalizing", "failing", "admitted"} \subseteq TaskStates
  BY DEF TaskStates
<1>7. ASSUME Holds(p, id), outbox' = [outbox EXCEPT ![id].stale = FALSE]
      PROVE  \A i \in RowIds : RowEffect(i)
  <2>1. \A i \in RowIds : /\ outbox'[i].claim = outbox[i].claim
                          /\ outbox'[i].live = outbox[i].live
                          /\ i # id => outbox'[i] = outbox[i]
    BY <1>1, <1>7 DEF Row
  <2>2. outbox[id].live
    BY <1>7 DEF Holds
  <2>3. QED BY <2>1, <2>2 DEF RowEffect
<1>8. ASSUME NEW row, row.claim = None, row = NoRow \/ row.live,
             task[p][id].pc \in {"finalizing", "failing"}, Holds(p, id), Finish(p, id),
             outbox' = [outbox EXCEPT ![id] = row]
      PROVE  Unclaimed
  <2>1. EndsClaim(p, id)
    BY <1>4, <1>8 DEF EndsClaim, Holds
  <2>2. \A i \in RowIds : outbox'[i] = IF i = id THEN row ELSE outbox[i]
    BY <1>1, <1>8
  <2>3. RowEffect(id)
    BY <2>1, <2>2, <1>8 DEF RowEffect
  <2>4. \A i \in RowIds : i # id => RowEffect(i)
    BY <2>2 DEF RowEffect
  <2>5. QED BY <1>4, <1>8, <2>3, <2>4 DEF Unclaimed
<1>b. CASE ClaimRefused(p, id)
  BY <1>b, <1>2, <1>4 DEF ClaimRefused, Unclaimed
<1>c. CASE Renew(p, id)
  <2>1. (IF At(p, id, "claimed") THEN "started" ELSE "finalizing") \in TaskStates
    BY <1>6
  <2>2. QED BY <1>c, <1>3, <1>7, <2>1 DEF Renew, Unclaimed
<1>d. CASE RenewLost(p, id)
  BY <1>d, <1>2, <1>3, <1>6 DEF RenewLost, Unclaimed
<1>e. CASE Heartbeat(p, id)
  BY <1>e, <1>7 DEF Heartbeat, Unclaimed, KeepsToken
<1>f. CASE Admit(p, id) \/ SendThrows(p, id)
  BY <1>f, <1>2, <1>3, <1>6 DEF Admit, SendThrows, Unclaimed
<1>g. CASE NothingToDo(p, id)
  <2>1. \A q \in Processes, i \in RowIds : KeepsToken(q, i)
    BY <1>g, <1>5 DEF NothingToDo
  <2>2. QED BY <1>g, <1>2, <2>1 DEF NothingToDo, Unclaimed
<1>h. CASE \/ SendAccepted(p, id) \/ AlreadyAvailable(p, id) \/ NoRelease(p, id)
           \/ SendFailed(p, id) \/ SendDeferred(p, id)
  <2>1. PICK d \in BOOLEAN : Return(p, id, d)
    BY <1>h DEF SendAccepted, AlreadyAvailable, NoRelease, SendFailed, SendDeferred
  <2>2. \A q \in Processes, i \in RowIds : KeepsToken(q, i)
    BY <2>1, <1>5 DEF Return
  <2>3. UNCHANGED outbox \/ outbox' = WithoutUnclaimed(r)
    BY <1>h DEF SendAccepted, AlreadyAvailable, NoRelease, SendFailed, SendDeferred
  <2>4. QED BY <1>2, <2>2, <2>3 DEF Unclaimed
<1>n. CASE DeleteDelivered(p, id) \/ Exhaust(p, id)
  <2>1. task[p][id].pc \in {"finalizing", "failing"}
    BY <1>n DEF DeleteDelivered, Exhaust, Failing, At
  <2>2. QED BY <1>n, <1>8, <2>1, RecordTypes DEF DeleteDelivered, Exhaust
<1>o. CASE Reschedule(p, id)
  <2> DEFINE row == [NewRow EXCEPT !.attempts = AttemptsMade(p, id), !.due = FALSE]
  <2>1. row.claim = None /\ row.live
    BY DEF NewRow, NoRow
  <2>2. task[p][id].pc \in {"finalizing", "failing"}
    BY <1>o DEF Reschedule, Failing, At
  <2>3. Holds(p, id) /\ Finish(p, id) /\ outbox' = [outbox EXCEPT ![id] = row]
    BY <1>o DEF Reschedule
  <2> HIDE DEF row
  <2>4. QED BY <2>1, <2>2, <2>3, <1>8
<1>q. CASE ClaimWasLost(p, id)
  BY <1>q, <1>2, <1>3, <1>4, <1>6 DEF ClaimWasLost, Unclaimed
<1>z. QED BY <1>b, <1>c, <1>d, <1>e, <1>f, <1>g, <1>h, <1>n, <1>o, <1>q
          DEF Worker, Proceed, Deliver

(* Every step is a claim, or adds no claim and ends one only for a reason.  *)
LEMMA StepClaims ==
  ASSUME ConstantsAssumption, TypeOK, AbsentRowsEmpty, [Next]_vars
  PROVE  (\E p \in Processes, id \in RowIds : Claim(p, id)) \/ Unclaimed
<1>1. ASSUME UNCHANGED outbox
      PROVE  \A i \in RowIds : RowEffect(i)
  BY <1>1 DEF RowEffect
<1>2. ASSUME UNCHANGED task
      PROVE  \A q \in Processes, i \in RowIds : KeepsToken(q, i)
  BY <1>2 DEF KeepsToken
<1>3. CASE UNCHANGED vars
  BY <1>1, <1>2, <1>3 DEF vars, Unclaimed
<1>4. ASSUME NEW r \in Requests,
             CompleteFromLibrary(r) \/ \E p \in Processes : Operator(p, r)
      PROVE  Unclaimed
  BY <1>4, OperatorClaims
<1>5. ASSUME NEW p \in Processes, NEW id \in RowIds, Worker(p, id)
      PROVE  Claim(p, id) \/ Unclaimed
  BY <1>5, WorkerClaims
<1>6. ASSUME NEW p \in Processes, ScanRead(p)
      PROVE  Unclaimed
  BY <1>1, <1>2, <1>6 DEF ScanRead, Unclaimed
<1>7. ASSUME NEW p \in Processes, ScanDispatch(p)
      PROVE  Unclaimed
  <2>1. scan[p] \in [RowIds -> Snapshot] /\ Dispatch(p, scan[p]) /\ UNCHANGED outbox
    BY <1>7 DEF ScanDispatch, TypeOK
  <2>2. \A q \in Processes, i \in RowIds : KeepsToken(q, i)
    BY <2>1, DispatchEffect DEF KeepsToken
  <2>3. QED BY <1>1, <2>1, <2>2 DEF Unclaimed
<1>8. ASSUME NEW p \in Processes, Crash(p)
      PROVE  Unclaimed
  <2>1. \A q \in Processes, i \in RowIds :
          task'[q][i] = IF q = p THEN NoTask ELSE task[q][i]
    BY <1>8 DEF Crash, TypeOK
  <2>2. \A q \in Processes, i \in RowIds : KeepsToken(q, i)
    BY <2>1, RecordTypes DEF KeepsToken
  <2>3. QED BY <1>1, <1>8, <2>2 DEF Crash, Unclaimed
<1>9. ASSUME NEW p \in Processes, NEW id \in RowIds, DatabaseError(p, id)
      PROVE  Unclaimed
  <2>1. Finish(p, id) \/ Goto(p, id, "failing")
    BY <1>9 DEF DatabaseError
  <2>2. "failing" \in TaskStates
    BY DEF TaskStates
  <2>3. \A q \in Processes, i \in RowIds : KeepsToken(q, i)
    BY <2>1, <2>2, GotoEffect, FinishEffect, RecordTypes DEF KeepsToken
  <2>4. QED BY <1>1, <1>9, <2>3 DEF DatabaseError, Unclaimed
<1>10. ASSUME NEW id \in RowIds,
              BackoffElapses(id) \/ LeaseExpires(id) \/ LeaseLost(id)
       PROVE  Unclaimed
  <2>1. outbox[id].live
    BY <1>10, RecordTypes
       DEF AbsentRowsEmpty, BackoffElapses, LeaseExpires, LeaseLost, Lapse
  <2>2. \/ outbox' = [outbox EXCEPT ![id].due = TRUE]
        \/ outbox' = [outbox EXCEPT ![id].stale = TRUE]
    BY <1>10 DEF BackoffElapses, LeaseExpires, LeaseLost, Lapse
  <2>3. \A i \in RowIds : /\ outbox'[i].claim = outbox[i].claim
                          /\ outbox'[i].live = outbox[i].live
                          /\ i # id => outbox'[i] = outbox[i]
    <3>1. outbox \in [RowIds -> Row]
      BY DEF TypeOK
    <3>2. QED BY <2>2, <3>1 DEF Row
  <2>4. \A i \in RowIds : RowEffect(i)
    BY <2>1, <2>3 DEF RowEffect
  <2>5. UNCHANGED task
    BY <1>10 DEF BackoffElapses, LeaseExpires, LeaseLost, Lapse
  <2>6. QED BY <1>2, <2>4, <2>5 DEF Unclaimed
<1>11. QED
  BY <1>3, <1>4, <1>5, <1>6, <1>7, <1>8, <1>9, <1>10 DEF Next

(* What a claim does: it takes a token nobody has, for a row whose claim is *)
(* absent or out of time.                                                   *)
LEMMA ClaimTakes ==
  ASSUME TypeOK, NEW p \in Processes, NEW id \in RowIds, Claim(p, id)
  PROVE  \E t \in UnusedTokens :
           /\ outbox'[id].claim = t /\ outbox'[id].live
           /\ outbox[id].claim = None \/ outbox[id].stale
           /\ \A i \in RowIds : i # id => outbox'[i] = outbox[i]
           /\ task'[p][id].token = t
           /\ \A q \in Processes, i \in RowIds :
                q # p \/ i # id => task'[q][i] = task[q][i]
<1>1. PICK t \in UnusedTokens :
        /\ outbox' = [outbox EXCEPT ![id] = [@ EXCEPT !.claim = t, !.stale = FALSE]]
        /\ Own(p, id, t)
  BY DEF Claim
<1>2. t \in Tokens
  BY DEF UnusedTokens
<1>3. outbox \in [RowIds -> Row] /\ outbox[id] \in Row
  BY DEF TypeOK
<1>4. LET new == [outbox[id] EXCEPT !.claim = t, !.stale = FALSE]
      IN  new \in Row /\ new.claim = t /\ new.live = outbox[id].live
  BY <1>2, <1>3, RecordUpdates, Zenon
<1>5. outbox'[id] = [outbox[id] EXCEPT !.claim = t, !.stale = FALSE]
  BY <1>1, <1>3
<1>6. \A i \in RowIds : i # id => outbox'[i] = outbox[i]
  BY <1>1, <1>3
<1>7. outbox[id].live /\ (outbox[id].claim = None \/ outbox[id].stale)
  BY DEF Claim, Claimable
<1>8. /\ task'[p][id].token = t
      /\ \A q \in Processes, i \in RowIds : q # p \/ i # id => task'[q][i] = task[q][i]
  BY <1>1, <1>2, ClaimEffect
<1>9. QED BY <1>4, <1>5, <1>6, <1>7, <1>8

ClaimInv == TypeOK /\ AbsentRowsEmpty /\ ClaimHeldOnce

LEMMA ClaimInvStep ==
  ASSUME ConstantsAssumption, ClaimInv, [Next]_vars
  PROVE  ClaimInv'
<1>1. TypeOK /\ AbsentRowsEmpty /\ ClaimHeldOnce
  BY DEF ClaimInv
<1>2. TypeOK'
  BY <1>1, TypeStep
<1>3. CASE Unclaimed
  <2>1. AbsentRowsEmpty'
    BY <1>1, <1>3 DEF Unclaimed, RowEffect, AbsentRowsEmpty
  <2>2. ASSUME NEW p \in Processes, NEW q \in Processes,
               NEW i \in RowIds, NEW j \in RowIds, task'[p][i].token # None
        PROVE  /\ task'[p][i].token = task'[q][j].token => p = q /\ i = j
               /\ task'[p][i].token = outbox'[j].claim => i = j
    <3>1. task'[p][i].token = task[p][i].token
      BY <1>3, <2>2 DEF Unclaimed, KeepsToken
    <3>2. task'[q][j].token = task[q][j].token \/ task'[q][j].token = None
      BY <1>3 DEF Unclaimed, KeepsToken
    <3>3. outbox'[j].claim = outbox[j].claim \/ outbox'[j].claim = None
      BY <1>3 DEF Unclaimed, RowEffect
    <3>4. QED BY <1>1, <2>2, <3>1, <3>2, <3>3 DEF ClaimHeldOnce
  <2>3. QED BY <1>2, <2>1, <2>2 DEF ClaimInv, ClaimHeldOnce
<1>4. ASSUME NEW p \in Processes, NEW id \in RowIds, Claim(p, id)
      PROVE  ClaimInv'
  <2>1. PICK t \in UnusedTokens :
           /\ outbox'[id].claim = t /\ outbox'[id].live
           /\ \A i \in RowIds : i # id => outbox'[i] = outbox[i]
           /\ task'[p][id].token = t
           /\ \A q \in Processes, i \in RowIds :
                q # p \/ i # id => task'[q][i] = task[q][i]
    BY <1>1, <1>4, ClaimTakes
  <2>2. AbsentRowsEmpty'
    BY <1>1, <2>1 DEF AbsentRowsEmpty
  <2>3. /\ \A i \in RowIds : outbox[i].claim # t
        /\ \A q \in Processes, i \in RowIds : task[q][i].token # t
    BY <2>1 DEF UnusedTokens
  <2>4. ASSUME NEW q \in Processes, NEW u \in Processes,
               NEW i \in RowIds, NEW j \in RowIds, task'[q][i].token # None
        PROVE  /\ task'[q][i].token = task'[u][j].token => q = u /\ i = j
               /\ task'[q][i].token = outbox'[j].claim => i = j
    <3>1. CASE q = p /\ i = id
      BY <2>1, <2>3, <3>1
    <3>2. CASE ~(q = p /\ i = id)
      <4>1. task'[q][i].token = task[q][i].token /\ task'[q][i].token # t
        BY <2>1, <2>3, <3>2
      <4>2. CASE u = p /\ j = id
        BY <2>1, <4>1, <4>2
      <4>3. CASE ~(u = p /\ j = id)
        <5>1. task'[q][i].token = task'[u][j].token => q = u /\ i = j
          BY <1>1, <2>1, <2>4, <4>1, <4>3 DEF ClaimHeldOnce
        <5>2. task'[q][i].token = outbox'[j].claim => i = j
          BY <1>1, <2>1, <2>4, <4>1 DEF ClaimHeldOnce
        <5>3. QED BY <5>1, <5>2
      <4>4. QED BY <1>1, <2>1, <2>4, <4>1, <4>2, <4>3 DEF ClaimHeldOnce
    <3>3. QED BY <3>1, <3>2
  <2>5. QED BY <1>2, <2>2, <2>4 DEF ClaimInv, ClaimHeldOnce
<1>5. QED BY <1>1, <1>3, <1>4, StepClaims

LEMMA ClaimInvariant == Spec => []ClaimInv
<1>1. ASSUME Init
      PROVE  ClaimInv
  <2>1. TypeOK
    BY <1>1, TypeInit
  <2>2. \A p \in Processes, i \in RowIds : task[p][i].token = None
    BY <1>1, RecordTypes DEF Init
  <2>3. \A i \in RowIds : outbox[i] = NoRow
    BY <1>1 DEF Init
  <2>4. QED BY <2>1, <2>2, <2>3 DEF ClaimInv, AbsentRowsEmpty, ClaimHeldOnce
<1>2. ClaimInv /\ [Next]_vars => ClaimInv'
  BY ClaimInvStep, ConstantsAssumption
<1>3. QED BY <1>1, <1>2, PTL DEF Spec

(* A claim token names one claim: no two tasks ever hold the same token, so *)
(* the WHERE clauses on the token let only the holder write to its row.     *)
THEOREM ClaimsHeldOnce == Spec => []ClaimHeldOnce
<1>1. ClaimInv => ClaimHeldOnce
  BY DEF ClaimInv
<1>2. QED BY <1>1, ClaimInvariant, PTL

(* No scan, cancellation, rival worker or late task takes a row away from a *)
(* worker whose lease is running.                                           *)
THEOREM LiveClaimsEndByHolder == Spec => LiveClaimEndsByHolder
<1> DEFINE Ends(id) ==
      outbox[id].claim # None /\ ~outbox[id].stale
        /\ outbox'[id].claim # outbox[id].claim
      => \/ status'[RequestOf[id]] = "removed"
         \/ \E p \in Processes :
              /\ task[p][id].token = outbox[id].claim
              /\ task[p][id].pc \in {"finalizing", "failing"}
              /\ task'[p][id].pc = "none"
<1>1. ASSUME ClaimInv, [Next]_vars
      PROVE  \A id \in RowIds : Ends(id)
  <2>1. TypeOK /\ AbsentRowsEmpty
    BY <1>1 DEF ClaimInv
  <2>2. CASE Unclaimed
    BY <2>2 DEF Unclaimed, RowEffect, EndsClaim
  <2>3. ASSUME NEW p \in Processes, NEW i \in RowIds, Claim(p, i)
        PROVE  \A id \in RowIds : Ends(id)
    BY <2>1, <2>3, ClaimTakes
  <2>4. QED BY <1>1, <2>1, <2>2, <2>3, StepClaims, ConstantsAssumption
<1>2. ClaimInv /\ [Next]_vars => [\A id \in RowIds : Ends(id)]_vars
  BY <1>1
<1>3. QED BY <1>2, ClaimInvariant, PTL DEF Spec, LiveClaimEndsByHolder

-----------------------------------------------------------------------------
(***************************************************************************)
(* An approved request is not forgotten, as long as no operator repairs,   *)
(* retries or clears it: those three write to an outbox row that a worker  *)
(* has claimed, or delete it before they decide, and TLC shows each losing *)
(* a request.  Everything else is safe for every number of processes,      *)
(* requests and rows and for any crashes, database errors and lost leases. *)
(***************************************************************************)

(* The request has been approved or settled: nothing approves it any more.  *)
Known(i) == status[RequestOf[i]] \notin {"none", "pending"}

Accounted(i) == status[RequestOf[i]] # "approved" \/ sends[RequestOf[i]] > 0

(* A task whose next step under its claim deletes the row. *)
Delivered(p, i) ==
  task[p][i].pc \in {"returned", "finalizing"} /\ task[p][i].delivered

LossInv ==
  /\ \A r \in Requests : admission[r].step \in {"free", "dispatch"}
  /\ \A i \in RowIds : outbox[i].live => Known(i)
  /\ \A p \in Processes, i \in RowIds :
       task[p][i].pc # "none" \/ scan[p][i].seen => Known(i)
  /\ \A p \in Processes, i \in RowIds : Delivered(p, i) => Accounted(i)
  /\ NoSilentLoss

(* What every step does that neither creates nor approves a request. *)
StatusSettles ==
  \A r \in Requests :
    /\ status'[r] = status[r] \/ status'[r] \notin {"none", "pending", "approved"}
    /\ sends'[r] >= sends[r]

RowsAccounted ==
  \A i \in RowIds :
    /\ outbox'[i].live => outbox[i].live \/ Known(i)
    /\ outbox[i].live => outbox'[i].live \/ Accounted(i)'

TasksKnown ==
  \A p \in Processes, i \in RowIds :
    /\ task'[p][i].pc # "none" =>
         task[p][i].pc # "none" \/ scan[p][i].seen \/ outbox[i].live \/ Known(i)
    /\ scan'[p][i].seen => scan[p][i].seen \/ outbox[i].live
    /\ Delivered(p, i)' => Delivered(p, i) \/ Accounted(i)'

(* Nothing that was sent is forgotten.                                      *)
MoreSent == \A r \in Requests : sends'[r] >= sends[r]

LocksPlain == \A r \in Requests : admission'[r].step \in {"free", "dispatch"}

LEMMA LossInvKept ==
  ASSUME ConstantsAssumption, TypeOK, TypeOK', LossInv,
         StatusSettles, RowsAccounted, TasksKnown, LocksPlain
  PROVE  LossInv'
<1>0. RequestOf \in [RowIds -> Requests]
  BY DEF ConstantsAssumption
<1>1. \A i \in RowIds : Known(i) => Known(i)'
  BY <1>0 DEF StatusSettles, Known
<1>2. \A i \in RowIds : Accounted(i) => Accounted(i)'
  <2>1. \A r \in Requests : sends[r] \in Nat /\ sends'[r] \in Nat
    BY DEF TypeOK
  <2>2. QED BY <1>0, <2>1 DEF StatusSettles, Accounted
<1>3. \A i \in RowIds : outbox'[i].live => Known(i)'
  BY <1>1 DEF LossInv, RowsAccounted
<1>4. \A p \in Processes, i \in RowIds :
        task'[p][i].pc # "none" \/ scan'[p][i].seen => Known(i)'
  BY <1>1 DEF LossInv, TasksKnown
<1>5. \A p \in Processes, i \in RowIds : Delivered(p, i)' => Accounted(i)'
  BY <1>2 DEF LossInv, TasksKnown
<1>6. ASSUME NEW r \in Requests, status'[r] = "approved"
      PROVE  sends'[r] > 0 \/ Queued(r)' \/ Underway(r)'
  <2>1. status[r] = "approved" /\ sends'[r] >= sends[r]
        /\ sends[r] \in Nat /\ sends'[r] \in Nat
    BY <1>6 DEF StatusSettles, TypeOK
  <2>2. CASE sends[r] > 0
    BY <2>1, <2>2
  <2>3. CASE Queued(r)
    <3>1. PICK i \in RowsOf(r) : outbox[i].live
      BY <2>3 DEF Queued
    <3>2. i \in RowIds /\ RequestOf[i] = r
      BY DEF RowsOf
    <3>3. outbox'[i].live \/ sends'[r] > 0
      BY <1>6, <3>1, <3>2 DEF RowsAccounted, Accounted
    <3>4. QED BY <3>2, <3>3 DEF Queued, RowsOf
  <2>4. ~Underway(r)
    BY DEF LossInv, Underway
  <2>5. QED BY <2>1, <2>2, <2>3, <2>4 DEF LossInv, NoSilentLoss
<1>7. NoSilentLoss'
  BY <1>6 DEF NoSilentLoss
<1>8. QED BY <1>3, <1>4, <1>5, <1>7 DEF LossInv, LocksPlain

-----------------------------------------------------------------------------
(* The operators *)

Quiet == Operations \cap {"repair", "retry", "clear"} = {}

LEMMA SettleEffect ==
  ASSUME ConstantsAssumption, TypeOK, NEW r \in Requests,
         NEW s \in {"declined", "failed", "completed", "removed"},
         status' = [status EXCEPT ![r] = s], UNCHANGED sends \/ MoreSent
  PROVE  /\ StatusSettles
         /\ outbox' = WithoutUnclaimed(r) \/ outbox' = WithoutRowsOf(r) => RowsAccounted
<1>1. status'[r] = s /\ \A q \in Requests : q # r => status'[q] = status[q]
  BY DEF TypeOK
<1>2. StatusSettles
  <2>1. \A q \in Requests : sends'[q] >= sends[q]
    BY DEF TypeOK, MoreSent
  <2>2. QED BY <1>1, <2>1 DEF StatusSettles
<1>3. ASSUME outbox' = WithoutUnclaimed(r) \/ outbox' = WithoutRowsOf(r)
      PROVE  RowsAccounted
  <2>1. \A i \in RowIds : outbox'[i] = outbox[i] \/ (outbox'[i] = NoRow /\ RequestOf[i] = r)
    BY <1>3, CancelEffect
  <2>2. QED BY <1>1, <2>1, RecordTypes DEF RowsAccounted, Accounted
<1>4. QED BY <1>2, <1>3

LEMMA UnchangedEffects ==
  ASSUME TypeOK, LossInv
  PROVE  /\ UNCHANGED <<status, sends>> => StatusSettles
         /\ UNCHANGED status /\ MoreSent => StatusSettles
         /\ UNCHANGED outbox => RowsAccounted
         /\ UNCHANGED <<task, scan>> => TasksKnown
         /\ UNCHANGED admission => LocksPlain
         /\ \A r \in Requests : Release(r) => LocksPlain
<1>1. \A r \in Requests : sends[r] >= sends[r]
  BY DEF TypeOK
<1>2. /\ UNCHANGED <<status, sends>> => StatusSettles
      /\ UNCHANGED status /\ MoreSent => StatusSettles
  BY <1>1 DEF StatusSettles, MoreSent
<1>3. UNCHANGED outbox => RowsAccounted
  BY DEF RowsAccounted
<1>4. UNCHANGED <<task, scan>> => TasksKnown
  BY DEF TasksKnown, Delivered
<1>5. UNCHANGED admission => LocksPlain
  BY DEF LocksPlain, LossInv
<1>6. ASSUME NEW r \in Requests, Release(r)
      PROVE  LocksPlain
  BY <1>6, RecordTypes DEF LocksPlain, LossInv, Release, TypeOK
<1>7. QED BY <1>2, <1>3, <1>4, <1>5, <1>6

(* Creation and approval: the request has no rows, tasks or scanned rows,   *)
(* and gets its row in the step that approves it.                           *)
LEMMA ApprovalKeepsLossInv ==
  ASSUME ConstantsAssumption, TypeOK, LossInv,
         NEW p \in Processes, NEW r \in Requests,
         status[r] \in {"none", "pending"},
         BecomeApproved(r), Enqueue(p, r), UNCHANGED <<admission, scan>>
  PROVE  LossInv'
<1>0. RequestOf \in [RowIds -> Requests]
  BY DEF ConstantsAssumption
<1>1. /\ status'[r] = "approved"
      /\ \A q \in Requests : q # r => status'[q] = status[q] /\ sends'[q] = sends[q]
  BY DEF BecomeApproved, TypeOK
<1>2. \A i \in RowIds : RequestOf[i] = r => ~Known(i)
  BY DEF Known
<1>3. \A i \in RowIds : Known(i) => Known(i)' /\ RequestOf[i] # r
  BY <1>0, <1>1, <1>2 DEF Known
<1>4. \A i \in RowIds : RequestOf[i] = r => Known(i)'
  BY <1>1 DEF Known
<1>5. /\ \A q \in Processes, i \in RowIds :
           \/ task'[q][i] = task[q][i]
           \/ RequestOf[i] = r /\ task'[q][i].pc = "queued"
      /\ \A i \in RowIds : outbox'[i] = outbox[i] \/ (RequestOf[i] = r /\ ~outbox[i].live /\ outbox'[i] = NewRow)
      /\ \E i \in RowIds : RequestOf[i] = r /\ outbox'[i].live
  BY EnqueueEffect
<1>6. \A i \in RowIds : outbox'[i].live => Known(i)'
  BY <1>3, <1>4, <1>5 DEF LossInv
<1>7. \A q \in Processes, i \in RowIds :
        task'[q][i].pc # "none" \/ scan'[q][i].seen => Known(i)'
  BY <1>3, <1>4, <1>5 DEF LossInv
<1>8. ASSUME NEW q \in Processes, NEW i \in RowIds, Delivered(q, i)'
      PROVE  Accounted(i)'
  <2>1. task'[q][i] = task[q][i]
    BY <1>5, <1>8 DEF Delivered
  <2>2. Delivered(q, i) /\ task[q][i].pc # "none"
    BY <1>8, <2>1 DEF Delivered
  <2>3. RequestOf[i] # r /\ Accounted(i)
    BY <1>3, <2>2 DEF LossInv
  <2>4. QED BY <1>0, <1>1, <2>3 DEF Accounted
<1>9. ASSUME NEW q \in Requests, status'[q] = "approved"
      PROVE  sends'[q] > 0 \/ Queued(q)' \/ Underway(q)'
  <2>1. CASE q = r
    BY <1>5, <2>1 DEF Queued, RowsOf
  <2>2. CASE q # r
    <3>1. status[q] = "approved" /\ sends'[q] = sends[q] /\ ~Underway(q)
      BY <1>1, <1>9, <2>2 DEF LossInv, Underway
    <3>2. Queued(q) => Queued(q)'
      BY <1>5, RecordTypes DEF Queued, RowsOf
    <3>3. QED BY <3>1, <3>2 DEF LossInv, NoSilentLoss
  <2>3. QED BY <2>1, <2>2
<1>10. QED BY <1>6, <1>7, <1>8, <1>9 DEF LossInv, NoSilentLoss

LEMMA OperatorKeepsLossInv ==
  ASSUME ConstantsAssumption, Quiet, TypeOK, TypeOK', LossInv,
         NEW p \in Processes, NEW r \in Requests, Operator(p, r)
  PROVE  LossInv'
<1>1. CASE CreatePending(p, r)
  <2>1. /\ status[r] = "none" /\ status'[r] = "pending"
        /\ \A q \in Requests : q # r => status'[q] = status[q]
        /\ UNCHANGED <<outbox, admission, task, scan, sends>>
    BY <1>1 DEF CreatePending, TypeOK
  <2>2. \A i \in RowIds : Known(i) => Known(i)'
    BY <2>1 DEF Known, ConstantsAssumption
  <2>3. \A i \in RowIds : Accounted(i) => Accounted(i)'
    BY <2>1 DEF Accounted, ConstantsAssumption
  <2>4. NoSilentLoss'
    BY <2>1 DEF LossInv, NoSilentLoss, Queued, Underway
  <2>5. QED BY <2>1, <2>2, <2>3, <2>4 DEF LossInv, Delivered
<1>2. CASE CreateApproved(p, r) \/ Approve(p, r)
  <2>1. /\ status[r] \in {"none", "pending"}
        /\ BecomeApproved(r) /\ Enqueue(p, r) /\ UNCHANGED <<admission, scan>>
    BY <1>2 DEF CreateApproved, Approve
  <2>2. QED BY <2>1, ApprovalKeepsLossInv
<1>3. CASE Decline(p, r)
  <2>1. StatusSettles /\ RowsAccounted
    BY <1>3, SettleEffect DEF Decline
  <2>2. TasksKnown /\ LocksPlain
    BY <1>3, UnchangedEffects DEF Decline
  <2>3. QED BY <2>1, <2>2, LossInvKept
<1>4. CASE Remove(p, r)
  <2>1. StatusSettles /\ RowsAccounted
    BY <1>4, SettleEffect DEF Remove, RemoveRequest
  <2>2. TasksKnown /\ LocksPlain
    BY <1>4, UnchangedEffects DEF Remove
  <2>3. QED BY <2>1, <2>2, LossInvKept
<1>5. CASE Reconcile(p, r)
  <2>1. StatusSettles /\ LocksPlain
    BY <1>5, UnchangedEffects DEF Reconcile
  <2>2. \A i \in RowIds : RequestOf[i] = r => Known(i)
    BY <1>5 DEF Reconcile, Known
  <2>3. Enqueue(p, r) /\ UNCHANGED scan
    BY <1>5 DEF Reconcile
  <2>4. RowsAccounted
    BY <2>2, <2>3, EnqueueEffect, RecordTypes DEF RowsAccounted
  <2>5. TasksKnown
    BY <2>2, <2>3, EnqueueEffect DEF TasksKnown, Delivered
  <2>6. QED BY <2>1, <2>4, <2>5, LossInvKept
<1>6. CASE \/ Repair(p, r) \/ RetryCancel(p, r) \/ RetryRefused(p, r)
           \/ RetrySave(p, r) \/ RetryEnqueue(p, r)
           \/ ClearCancel(p, r) \/ ClearRefused(p, r) \/ ClearRemove(p, r)
  <2>1. ~(Repair(p, r) \/ RetryCancel(p, r) \/ ClearCancel(p, r))
    BY DEF Quiet, Repair, RetryCancel, ClearCancel
  <2>2. admission[r].step \notin {"cancelled", "saved", "clearing"}
    BY DEF LossInv
  <2>3. QED BY <1>6, <2>1, <2>2
            DEF RetryRefused, RetrySave, RetryEnqueue, ClearRefused, ClearRemove, Holding
<1>7. QED BY <1>1, <1>2, <1>3, <1>4, <1>5, <1>6 DEF Operator

-----------------------------------------------------------------------------
(* The workers *)

(* A task moves on, ends, or returns from a delivery it accounts for. *)
LEMMA TaskMoves ==
  ASSUME ConstantsAssumption, TypeOK, LossInv, UNCHANGED scan,
         NEW p \in Processes, NEW id \in RowIds, task[p][id].pc # "none"
  PROVE  /\ \A pc \in TaskStates :
              /\ Goto(p, id, pc)
              /\ pc \in {"returned", "finalizing"} => Delivered(p, id) \/ ~task[p][id].delivered
              => TasksKnown
         /\ Finish(p, id) => TasksKnown
         /\ \A d \in BOOLEAN :
              /\ Yield(p, id, d)
              /\ d => Accounted(id)'
              => TasksKnown
<1>1. ASSUME NEW pc \in TaskStates, Goto(p, id, pc),
             pc \in {"returned", "finalizing"} => Delivered(p, id) \/ ~task[p][id].delivered
      PROVE  TasksKnown
  <2>1. \A q \in Processes, i \in RowIds :
          /\ task'[q][i].delivered = task[q][i].delivered
          /\ task'[q][i].pc = IF q = p /\ i = id THEN pc ELSE task[q][i].pc
    BY <1>1, GotoEffect
  <2>2. QED BY <1>1, <2>1 DEF TasksKnown, Delivered
<1>2. ASSUME Finish(p, id)
      PROVE  TasksKnown
  <2>1. \A q \in Processes, i \in RowIds :
          task'[q][i] = IF q = p /\ i = id THEN NoTask ELSE task[q][i]
    BY <1>2, FinishEffect
  <2>2. QED BY <2>1, RecordTypes DEF TasksKnown, Delivered
<1>3. ASSUME NEW d \in BOOLEAN,
             Yield(p, id, d)
      PROVE  (d => Accounted(id)') => TasksKnown
  <2>1. /\ \A q \in Processes, i \in RowIds : q # p \/ i # id => task'[q][i] = task[q][i]
        /\ task'[p][id].pc = "returned" /\ task'[p][id].delivered = d
    BY <1>3, ReturnEffect
  <2>2. QED BY <2>1 DEF TasksKnown, Delivered
<1>4. QED BY <1>1, <1>2, <1>3

(* The outcomes of a delivery. *)
LEMMA DeliverKeepsLossInv ==
  ASSUME ConstantsAssumption, TypeOK, TypeOK', LossInv,
         NEW p \in Processes, NEW id \in RowIds, Deliver(p, id)
  PROVE  LossInv'
<1> DEFINE r == RequestOf[id]
<1>1. r \in Requests /\ \A i \in RowIds : RequestOf[i] \in Requests
  BY DEF ConstantsAssumption
<1>2. UNCHANGED scan /\ task[p][id].pc # "none" /\ LocksPlain
  <2>1. UNCHANGED scan /\ At(p, id, "admitted") /\ Release(r)
    BY DEF Deliver, SendAccepted, AlreadyAvailable, NoRelease, SendFailed,
           SendDeferred, SendThrows, Return
  <2>2. QED BY <2>1, <1>1, UnchangedEffects DEF At
<1>3. ASSUME NEW d \in BOOLEAN, Return(p, id, d), d => Accounted(id)'
      PROVE  TasksKnown
  BY <1>2, <1>3, TaskMoves DEF Return
<1>4. PerhapsAccepted(r) => MoreSent
  <2>1. ASSUME PerhapsAccepted(r), NEW q \in Requests
        PROVE  sends'[q] >= sends[q]
    <3>1. sends[q] \in Nat /\ (sends'[q] = sends[q] \/ sends'[q] = sends[q] + 1)
      BY <1>1, <2>1, AcceptanceBilled DEF TypeOK
    <3>2. QED BY <3>1
  <2>2. QED BY <2>1 DEF MoreSent
<1>a. CASE SendAccepted(p, id)
  <2>1. /\ sends'[r] = sends[r] + 1
        /\ \A q \in Requests : q # r => sends'[q] = sends[q]
        /\ \A q \in Requests : sends[q] \in Nat
    BY <1>1, <1>a DEF SendAccepted, TypeOK
  <2>2. sends'[r] > 0 /\ \A q \in Requests : sends'[q] >= sends[q]
    BY <1>1, <2>1
  <2>3. TasksKnown
    BY <1>3, <1>a, <2>2 DEF SendAccepted, Accounted
  <2>4. StatusSettles
    BY <1>1, <1>a, <2>2 DEF SendAccepted, StatusSettles, TypeOK
  <2>5. outbox' = outbox \/ outbox' = WithoutUnclaimed(r)
    BY <1>a DEF SendAccepted
  <2>6. \A i \in RowIds : outbox'[i] = outbox[i] \/ (outbox'[i] = NoRow /\ RequestOf[i] = r)
    BY <1>1, <2>5, CancelEffect
  <2>7. RowsAccounted
    BY <2>2, <2>6, RecordTypes DEF RowsAccounted, Accounted
  <2>8. QED BY <1>2, <2>3, <2>4, <2>7, LossInvKept
<1>b. CASE \/ AlreadyAvailable(p, id)
           \/ /\ SendFailed(p, id)
              /\ status' = [status EXCEPT ![r] = "failed"] /\ outbox' = WithoutUnclaimed(r)
  <2>1. PICK s \in {"failed", "completed"} : status' = [status EXCEPT ![r] = s]
    BY <1>b DEF AlreadyAvailable, SendFailed
  <2>2. /\ UNCHANGED sends \/ MoreSent
        /\ outbox' = WithoutUnclaimed(r) /\ \E d \in BOOLEAN : Return(p, id, d)
    BY <1>4, <1>b DEF AlreadyAvailable, SendFailed
  <2>3. StatusSettles /\ RowsAccounted
    BY <1>1, <2>1, <2>2, SettleEffect
  <2>4. Accounted(id)'
    BY <1>1, <2>1 DEF Accounted, TypeOK
  <2>5. QED BY <1>2, <1>3, <2>2, <2>3, <2>4, LossInvKept
<1>c. CASE \/ NoRelease(p, id) \/ SendDeferred(p, id)
           \/ /\ SendFailed(p, id)
              /\ r \in Books /\ UNCHANGED <<status, outbox>>
  <2>1. StatusSettles /\ RowsAccounted
    BY <1>4, <1>c, UnchangedEffects DEF NoRelease, SendDeferred, SendFailed
  <2>2. PICK d \in BOOLEAN : Return(p, id, d) /\ (d => status[r] # "approved")
    BY <1>c DEF NoRelease, SendDeferred, SendFailed
  <2>3. d => Accounted(id)'
    BY <1>c, <2>2 DEF NoRelease, SendDeferred, SendFailed, Accounted
  <2>4. QED BY <1>2, <1>3, <2>1, <2>2, <2>3, LossInvKept
<1>d. CASE SendThrows(p, id)
  <2>1. StatusSettles /\ RowsAccounted
    BY <1>4, <1>d, UnchangedEffects DEF SendThrows
  <2>2. Goto(p, id, "failing") /\ "failing" \in TaskStates
    BY <1>d DEF SendThrows, TaskStates
  <2>3. TasksKnown
    BY <1>2, <2>2, TaskMoves
  <2>4. QED BY <1>2, <2>1, <2>3, LossInvKept
<1>e. QED BY <1>a, <1>b, <1>c, <1>d DEF Deliver, SendFailed

LEMMA WorkerKeepsLossInv ==
  ASSUME ConstantsAssumption, TypeOK, TypeOK', LossInv,
         NEW p \in Processes, NEW id \in RowIds, Worker(p, id)
  PROVE  LossInv'
<1> DEFINE r == RequestOf[id]
<1>1. r \in Requests /\ \A i \in RowIds : RequestOf[i] \in Requests
  BY DEF ConstantsAssumption
<1>2. outbox \in [RowIds -> Row]
  BY DEF TypeOK
<1>3. {"started", "finalizing", "failing", "admitted"} \subseteq TaskStates
  BY DEF TaskStates
<1>4. ASSUME NEW row, outbox' = [outbox EXCEPT ![id] = row],
             outbox[id].live, row.live \/ Accounted(id)'
      PROVE  RowsAccounted
  <2>1. \A i \in RowIds : outbox'[i] = IF i = id THEN row ELSE outbox[i]
    BY <1>2, <1>4
  <2>2. QED BY <1>4, <2>1 DEF RowsAccounted
<1>a. CASE Claim(p, id)
  <2>1. PICK t \in Tokens :
          /\ outbox' = [outbox EXCEPT ![id] = [@ EXCEPT !.claim = t, !.stale = FALSE]]
          /\ Own(p, id, t)
    BY <1>a DEF Claim, UnusedTokens
  <2>2. /\ \A q \in Processes, i \in RowIds : q # p \/ i # id => task'[q][i] = task[q][i]
        /\ task'[p][id].pc = "claimed"
    BY <2>1, ClaimEffect
  <2>3. TasksKnown
    BY <1>a, <2>2 DEF Claim, At, TasksKnown, Delivered
  <2>4. \A i \in RowIds : outbox'[i].live = outbox[i].live
    <3>1. outbox[id].live
      BY <1>a DEF Claim, Claimable
    <3>2. outbox'[id].live /\ \A i \in RowIds : i # id => outbox'[i] = outbox[i]
      BY <1>a, ClaimTakes
    <3>3. QED BY <1>2, <3>1, <3>2 DEF Row, TypeOK
  <2>5. RowsAccounted
    BY <2>4 DEF RowsAccounted
  <2>6. StatusSettles /\ LocksPlain
    BY <1>a, UnchangedEffects DEF Claim
  <2>7. QED BY <2>3, <2>5, <2>6, LossInvKept
<1>b. CASE ClaimRefused(p, id)
  <2>1. TasksKnown
    BY <1>b, TaskMoves DEF ClaimRefused, At
  <2>2. QED BY <1>b, <2>1, UnchangedEffects, LossInvKept DEF ClaimRefused
<1>c. CASE Renew(p, id)
  <2>1. PICK pc \in {"started", "finalizing"} :
          /\ Goto(p, id, pc)
          /\ pc = "finalizing" => At(p, id, "returned")
          /\ task[p][id].pc # "none" /\ UNCHANGED scan
    BY <1>c DEF Renew, At
  <2>2. TasksKnown
    BY <1>3, <2>1, TaskMoves DEF At, Delivered, TypeOK, Task
  <2>3. \A i \in RowIds : outbox'[i].live = outbox[i].live
    BY <1>c, <1>2 DEF Renew, Row
  <2>4. RowsAccounted
    BY <2>3 DEF RowsAccounted
  <2>5. QED BY <1>c, <2>2, <2>4, UnchangedEffects, LossInvKept DEF Renew
<1>d. CASE RenewLost(p, id)
  <2>1. TasksKnown
    BY <1>d, <1>3, TaskMoves DEF RenewLost
  <2>2. QED BY <1>d, <2>1, UnchangedEffects, LossInvKept DEF RenewLost
<1>e. CASE Heartbeat(p, id)
  <2>1. \A i \in RowIds : outbox'[i].live = outbox[i].live
    BY <1>e, <1>2 DEF Heartbeat, Row
  <2>2. RowsAccounted
    BY <2>1 DEF RowsAccounted
  <2>3. QED BY <1>e, <2>2, UnchangedEffects, LossInvKept DEF Heartbeat
<1>f. CASE Admit(p, id)
  <2>1. TasksKnown
    BY <1>f, <1>3, TaskMoves DEF Admit, At
  <2>2. LocksPlain
    BY <1>f, <1>1 DEF Admit, Take, LocksPlain, LossInv, TypeOK
  <2>3. QED BY <1>f, <2>1, <2>2, UnchangedEffects, LossInvKept DEF Admit
<1>g. CASE NothingToDo(p, id)
  <2>1. Accounted(id)'
    BY <1>g DEF NothingToDo, Dispatchable, Accounted
  <2>2. TasksKnown
    BY <1>g, <2>1, TaskMoves DEF NothingToDo, At
  <2>3. QED BY <1>g, <2>2, UnchangedEffects, LossInvKept DEF NothingToDo
<1>h. CASE Deliver(p, id)
  BY <1>h, DeliverKeepsLossInv
<1>n. CASE DeleteDelivered(p, id)
  <2>1. TasksKnown
    BY <1>n, TaskMoves DEF DeleteDelivered, At
  <2>2. Delivered(p, id) /\ outbox[id].live
    BY <1>n DEF DeleteDelivered, Delivered, At, Holds
  <2>3. Accounted(id)'
    BY <1>n, <2>2 DEF LossInv, DeleteDelivered, Accounted
  <2>4. RowsAccounted
    BY <1>n, <1>4, <2>2, <2>3 DEF DeleteDelivered
  <2>5. QED BY <1>n, <2>1, <2>4, UnchangedEffects, LossInvKept DEF DeleteDelivered
<1>o. CASE Reschedule(p, id)
  <2>1. TasksKnown
    BY <1>o, TaskMoves DEF Reschedule, Failing, At
  <2>2. [NewRow EXCEPT !.attempts = AttemptsMade(p, id), !.due = FALSE].live
    BY DEF NewRow, NoRow
  <2>3. RowsAccounted
    BY <1>o, <1>4, <2>2 DEF Reschedule, Holds
  <2>4. QED BY <1>o, <2>1, <2>3, UnchangedEffects, LossInvKept DEF Reschedule
<1>p. CASE Exhaust(p, id)
  <2>1. TasksKnown
    BY <1>p, TaskMoves DEF Exhaust, Failing, At
  <2>2. /\ status'[r] = IF status[r] = "approved" THEN "failed" ELSE status[r]
        /\ \A q \in Requests : q # r => status'[q] = status[q]
        /\ UNCHANGED sends
    BY <1>p, <1>1 DEF Exhaust, TypeOK
  <2>3. StatusSettles
    BY <2>2, UnchangedEffects DEF StatusSettles, TypeOK
  <2>4. Accounted(id)'
    BY <2>2 DEF Accounted
  <2>5. RowsAccounted
    BY <1>p, <1>4, <2>4 DEF Exhaust, Holds
  <2>6. QED BY <1>p, <2>1, <2>3, <2>5, UnchangedEffects, LossInvKept DEF Exhaust
<1>q. CASE ClaimWasLost(p, id)
  <2>1. TasksKnown
    BY <1>q, <1>3, TaskMoves DEF ClaimWasLost
  <2>2. QED BY <1>q, <2>1, UnchangedEffects, LossInvKept DEF ClaimWasLost
<1>z. QED BY <1>a, <1>b, <1>c, <1>d, <1>e, <1>f, <1>g, <1>h, <1>n, <1>o, <1>p, <1>q
          DEF Worker, Proceed

-----------------------------------------------------------------------------
(* The theorem *)

LEMMA LossInvStep ==
  ASSUME ConstantsAssumption, Quiet, TypeOK, LossInv, [Next]_vars
  PROVE  LossInv'
<1>0. TypeOK'
  BY TypeStep
<1>1. CASE UNCHANGED vars
  <2>1. StatusSettles /\ RowsAccounted /\ TasksKnown /\ LocksPlain
    BY <1>1, UnchangedEffects DEF vars
  <2>2. QED BY <1>0, <2>1, LossInvKept
<1>2. ASSUME NEW p \in Processes, NEW r \in Requests, Operator(p, r)
      PROVE  LossInv'
  BY <1>0, <1>2, OperatorKeepsLossInv
<1>3. ASSUME NEW p \in Processes, NEW id \in RowIds, Worker(p, id)
      PROVE  LossInv'
  BY <1>0, <1>3, WorkerKeepsLossInv
<1>4. ASSUME NEW r \in Requests, CompleteFromLibrary(r)
      PROVE  LossInv'
  <2>1. StatusSettles /\ RowsAccounted
    BY <1>4, SettleEffect DEF CompleteFromLibrary
  <2>2. TasksKnown /\ LocksPlain
    BY <1>4, UnchangedEffects DEF CompleteFromLibrary
  <2>3. QED BY <1>0, <2>1, <2>2, LossInvKept
<1>5. ASSUME NEW p \in Processes, ScanRead(p)
      PROVE  LossInv'
  <2>1. StatusSettles /\ RowsAccounted /\ LocksPlain
    BY <1>5, UnchangedEffects DEF ScanRead
  <2>2. \A q \in Processes, i \in RowIds :
          scan'[q][i].seen => scan[q][i].seen \/ outbox[i].live
    BY <1>5, RecordTypes DEF ScanRead, Claimable, TypeOK
  <2>3. TasksKnown
    BY <1>5, <2>2 DEF ScanRead, TasksKnown, Delivered
  <2>4. QED BY <1>0, <2>1, <2>3, LossInvKept
<1>6. ASSUME NEW p \in Processes, ScanDispatch(p)
      PROVE  LossInv'
  <2>1. StatusSettles /\ RowsAccounted /\ LocksPlain
    BY <1>6, UnchangedEffects DEF ScanDispatch
  <2>2. scan[p] \in [RowIds -> Snapshot] /\ Dispatch(p, scan[p])
    BY <1>6 DEF ScanDispatch, TypeOK
  <2>3. \A q \in Processes, i \in RowIds : scan'[q][i].seen => scan[q][i].seen
    BY <1>6, RecordTypes DEF ScanDispatch, Nothing, TypeOK
  <2>4. TasksKnown
    BY <2>2, <2>3, DispatchEffect DEF TasksKnown, Delivered
  <2>5. QED BY <1>0, <2>1, <2>4, LossInvKept
<1>7. ASSUME NEW p \in Processes, Crash(p)
      PROVE  LossInv'
  <2>0. MoreSent
    <3>1. \A r \in Requests : sends[r] \in Nat /\ sends'[r] \in {sends[r], sends[r] + 1}
      BY <1>7 DEF Crash, TypeOK
    <3>2. QED BY <3>1 DEF MoreSent
  <2>1. StatusSettles /\ RowsAccounted
    BY <1>7, <2>0, UnchangedEffects DEF Crash
  <2>2. LocksPlain
    BY <1>7, RecordTypes DEF Crash, LocksPlain, LossInv
  <2>3. \A q \in Processes, i \in RowIds :
          /\ task'[q][i] = IF q = p THEN NoTask ELSE task[q][i]
          /\ scan'[q][i] = IF q = p THEN NotSeen ELSE scan[q][i]
    BY <1>7 DEF Crash, TypeOK, Nothing
  <2>4. TasksKnown
    BY <2>3, RecordTypes DEF TasksKnown, Delivered
  <2>5. QED BY <1>0, <2>1, <2>2, <2>4, LossInvKept
<1>8. ASSUME NEW p \in Processes, NEW id \in RowIds, DatabaseError(p, id)
      PROVE  LossInv'
  <2>1. StatusSettles /\ RowsAccounted /\ LocksPlain
    BY <1>8, UnchangedEffects DEF DatabaseError
  <2>2. /\ Finish(p, id) \/ Goto(p, id, "failing")
        /\ task[p][id].pc # "none" /\ "failing" \in TaskStates /\ UNCHANGED scan
    BY <1>8 DEF DatabaseError, TaskStates
  <2>3. TasksKnown
    BY <2>2, TaskMoves
  <2>4. QED BY <1>0, <2>1, <2>3, LossInvKept
<1>9. ASSUME NEW id \in RowIds,
             BackoffElapses(id) \/ LeaseExpires(id) \/ LeaseLost(id)
      PROVE  LossInv'
  <2>1. \/ outbox' = [outbox EXCEPT ![id].due = TRUE]
        \/ outbox' = [outbox EXCEPT ![id].stale = TRUE]
    BY <1>9 DEF BackoffElapses, LeaseExpires, LeaseLost, Lapse
  <2>2. \A i \in RowIds : outbox'[i].live = outbox[i].live
    <3>1. outbox \in [RowIds -> Row]
      BY DEF TypeOK
    <3>2. QED BY <2>1, <3>1 DEF Row
  <2>3. RowsAccounted
    BY <2>2 DEF RowsAccounted
  <2>4. UNCHANGED <<status, sends, task, scan, admission>>
    BY <1>9 DEF BackoffElapses, LeaseExpires, LeaseLost, Lapse
  <2>5. QED BY <1>0, <2>3, <2>4, UnchangedEffects, LossInvKept
<1>10. QED BY <1>1, <1>2, <1>3, <1>4, <1>5, <1>6, <1>7, <1>8, <1>9 DEF Next

(* An approved request is not forgotten: without repairs, retries and       *)
(* clearings, the service has accepted it since its approval or its row is  *)
(* in the outbox, whatever processes crash, leases lapse or statements fail.*)
THEOREM ApprovedRequestsKept ==
  ASSUME Quiet
  PROVE  Spec => []NoSilentLoss
<1>1. ASSUME Init
      PROVE  LossInv
  <2>1. /\ \A r \in Requests : admission[r].step = "free" /\ status[r] = "none"
        /\ \A i \in RowIds : ~outbox[i].live
        /\ \A p \in Processes, i \in RowIds : task[p][i].pc = "none" /\ ~scan[p][i].seen
    BY <1>1, RecordTypes DEF Init
  <2>2. QED BY <2>1 DEF LossInv, NoSilentLoss, Delivered
<1>2. TypeOK /\ LossInv /\ [Next]_vars => LossInv'
  BY LossInvStep, ConstantsAssumption
<1>3. LossInv => NoSilentLoss
  BY DEF LossInv
<1>4. QED BY <1>1, <1>2, <1>3, TypeCorrect, PTL DEF Spec

-----------------------------------------------------------------------------
(***************************************************************************)
(* The service is asked again only because of a fault, whatever operators  *)
(* approve, retry, repair, clear or remove.                                *)
(*                                                                         *)
(* Of a request's tasks those may still ask the service that have lost     *)
(* their claim (Late), the holder of its row (Ahead), and whoever claims   *)
(* the row next (Again).  Holder and next claimer are one and the same     *)
(* chance to ask, unless the holder's lease has run out under it (Lost).   *)
(* Bounded counts these chances against the faults, each step changes them *)
(* in one of the six ways named below, and all six keep the count.  A book *)
(* request that is sent without being completed is sent by a fault, which  *)
(* leaves the one free chance for the row that replaces a lost one.        *)
(***************************************************************************)

(* The task is about to ask the service, with or without its claim.         *)
Sending(p, i) == task[p][i].pc \in {"started", "admitted"}

Working(p, i) == task[p][i].pc \in {"claimed", "started", "admitted"}

(* The holder of the row is at work on it, or about to delete it.           *)
Settles(p, i) == Holds(p, i) /\ (Working(p, i) \/ Delivered(p, i))

(* Who may still ask for a request: tasks whose claim was taken over, the   *)
(* holder of its row, and whoever claims the row next; and whether the      *)
(* holder is about to be overtaken.                                         *)
Late(r) ==
  {x \in Processes \X RowIds :
     RequestOf[x[2]] = r /\ Sending(x[1], x[2]) /\ ~Holds(x[1], x[2])}

Ahead(r) == \E p \in Processes, i \in RowsOf(r) : Holds(p, i) /\ Working(p, i)

Again(r) ==
  \E i \in RowsOf(r) :
    /\ outbox[i].live
    /\ outbox[i].stale \/ \A p \in Processes : ~Settles(p, i)

Lost(r) == \E p \in Processes, i \in RowsOf(r) : Holds(p, i) /\ outbox[i].stale

Num(b) == IF b THEN 1 ELSE 0

(* A book whose dispatch may be enqueued anew without a new approval.       *)
Unsettled(r) ==
  r \in Books /\ (status[r] \in {"approved", "failed"} \/ admission[r].step = "dispatch")

(* Every task that lost its claim, or is about to, is the work of a fault,  *)
(* and so is everyone but one who has asked or may ask.                     *)
Bounded(r) ==
  /\ IsFiniteSet(Late(r))
  /\ Cardinality(Late(r)) + Num(Lost(r)) <= faults
  /\ Unsettled(r) => sends[r] + Cardinality(Late(r)) + Num(Lost(r)) <= faults
  /\ sends[r] + Cardinality(Late(r)) + Num(Ahead(r)) + Num(Again(r)) <= 1 + faults

(* A request has one row at most.                                           *)
OneRow ==
  \A i, j \in RowIds :
    outbox[i].live /\ outbox[j].live /\ RequestOf[i] = RequestOf[j] => i = j

-----------------------------------------------------------------------------
(* What a step may do to the count of a request *)

Still(r) ==
  /\ sends'[r] = sends[r]
  /\ Late(r)' \subseteq Late(r)
  /\ Lost(r)' => Lost(r)
  /\ Ahead(r)' /\ Again(r)' => Ahead(r) /\ Again(r)
  /\ Ahead(r)' \/ Again(r)' => Ahead(r) \/ Again(r)

(* The service accepts: from the holder, or from a task that is late.       *)
Sent(r) ==
  /\ sends'[r] = sends[r] + 1
  /\ Lost(r)' => Lost(r)
  /\ Ahead(r)' => Ahead(r)
  /\ Again(r)' => Again(r)
  /\ \/ Late(r)' \subseteq Late(r) /\ Ahead(r) /\ ~Ahead(r)'
     \/ \E x \in Late(r) : Late(r)' \subseteq Late(r) \ {x}

Faulted(r) ==
  /\ faults' = faults + 1
  /\ sends'[r] = sends[r]
  /\ Late(r)' \subseteq Late(r)
  /\ Ahead(r)' => Ahead(r)

(* The service accepts and an error or a crash hides it.                    *)
Broken(r) ==
  /\ faults' = faults + 1
  /\ sends'[r] = sends[r] + 1
  /\ Lost(r)' => Lost(r)
  /\ Ahead(r)' => Ahead(r)
  /\ \/ Late(r)' \subseteq Late(r) /\ Ahead(r) /\ ~Ahead(r)'
     \/ \E x \in Late(r) : Late(r)' \subseteq Late(r) \ {x}

(* An approval, or a row for a book that no task was left to send.          *)
Fresh(r) ==
  /\ sends'[r] = 0 \/ (Unsettled(r) /\ sends'[r] = sends[r])
  /\ Late(r)' \subseteq Late(r)
  /\ Lost(r)' => Lost(r)
  /\ Ahead(r)' /\ Again(r)' => Lost(r)'

(* A claim of a row whose holder is at work.                                *)
Overtaken(r) ==
  /\ sends'[r] = sends[r]
  /\ Lost(r) /\ ~Lost(r)'
  /\ Ahead(r) /\ Again(r) /\ ~Again(r)'
  /\ \E x : Late(r)' \subseteq Late(r) \cup {x}

(* A book becomes unsettled by an approval only, and as long as it is, only *)
(* a fault adds to its sends.                                               *)
Owing(r) ==
  Unsettled(r)' =>
    \/ sends'[r] = 0
    \/ Unsettled(r) /\ (sends'[r] = sends[r] \/ faults' = faults + 1)

LEMMA Numbers ==
  \A b : Num(b) \in {0, 1} /\ (b => Num(b) = 1) /\ (~b => Num(b) = 0)
BY DEF Num

LEMMA FewerLate ==
  ASSUME NEW L, NEW M, IsFiniteSet(L), M \subseteq L
  PROVE  /\ IsFiniteSet(M) /\ Cardinality(M) <= Cardinality(L)
         /\ Cardinality(L) \in Nat /\ Cardinality(M) \in Nat
<1>1. IsFiniteSet(M) /\ Cardinality(M) <= Cardinality(L)
  BY FS_Subset
<1>2. QED BY <1>1, FS_CardinalityType

LEMMA BoundKept ==
  ASSUME NEW r, sends[r] \in Nat, sends'[r] \in Nat, faults \in Nat, faults' \in Nat,
         faults' >= faults, Bounded(r), Owing(r),
         \/ Still(r) \/ Sent(r) \/ Faulted(r) \/ Broken(r) \/ Fresh(r) \/ Overtaken(r)
  PROVE  Bounded(r)' /\ sends'[r] <= 1 + faults'
<1> DEFINE L == Late(r)  M == Late(r)'
           n == Cardinality(L)  m == Cardinality(M)
           lost == Num(Lost(r))    lost2 == Num(Lost(r)')
           ahead == Num(Ahead(r))  ahead2 == Num(Ahead(r)')
           again == Num(Again(r))  again2 == Num(Again(r)')
<1>0. IsFiniteSet(L) /\ n \in Nat
  BY FS_CardinalityType DEF Bounded
<1>1. /\ n + lost <= faults /\ sends[r] + n + ahead + again <= 1 + faults
      /\ Unsettled(r) => sends[r] + n + lost <= faults
  BY DEF Bounded
<1>2. {lost, lost2, ahead, ahead2, again, again2} \subseteq {0, 1}
  BY Numbers
<1>3. /\ (Lost(r) => lost = 1) /\ (~Lost(r) => lost = 0)
      /\ (Lost(r)' => lost2 = 1) /\ (~Lost(r)' => lost2 = 0)
  BY Numbers
<1>4. /\ (Ahead(r) => ahead = 1) /\ (~Ahead(r) => ahead = 0)
      /\ (Ahead(r)' => ahead2 = 1) /\ (~Ahead(r)' => ahead2 = 0)
  BY Numbers
<1>5. /\ (Again(r) => again = 1) /\ (~Again(r) => again = 0)
      /\ (Again(r)' => again2 = 1) /\ (~Again(r)' => again2 = 0)
  BY Numbers
<1>owe. Unsettled(r)' => \/ sends'[r] = 0
                         \/ Unsettled(r) /\ (sends'[r] = sends[r] \/ faults' = faults + 1)
  BY DEF Owing
<1> SUFFICES /\ IsFiniteSet(M) /\ m \in Nat /\ m + lost2 <= faults'
             /\ sends'[r] + m + ahead2 + again2 <= 1 + faults'
             /\ Unsettled(r)' => sends'[r] + m + lost2 <= faults'
  <2>1. sends'[r] <= sends'[r] + m + ahead2 + again2
    BY <1>2
  <2>2. sends'[r] <= 1 + faults'
    BY <1>2, <2>1
  <2>3. Bounded(r)'
    BY DEF Bounded
  <2>4. QED BY <2>2, <2>3
<1>6. M \subseteq L => IsFiniteSet(M) /\ m <= n /\ m \in Nat
  BY <1>0, FewerLate
<1> HIDE DEF L, M, n, m, lost, lost2, ahead, ahead2, again, again2
<1> DEFINE Owes == Unsettled(r)  Owes2 == Unsettled(r)'
<1>7. /\ Owes => sends[r] + n + lost <= faults
      /\ Owes2 => sends'[r] = 0 \/ (Owes /\ (sends'[r] = sends[r] \/ faults' = faults + 1))
  BY <1>1, <1>owe
<1> SUFFICES /\ IsFiniteSet(M) /\ m \in Nat /\ m + lost2 <= faults'
             /\ sends'[r] + m + ahead2 + again2 <= 1 + faults'
             /\ Owes2 => sends'[r] + m + lost2 <= faults'
  OBVIOUS
<1> HIDE DEF Owes, Owes2
<1>a. CASE Still(r)
  <2>1. M \subseteq L /\ sends'[r] = sends[r] /\ lost2 <= lost /\ ahead2 + again2 <= ahead + again
    BY <1>a, <1>2, <1>3, <1>4, <1>5 DEF Still, M, L
  <2>2. QED BY <1>0, <1>1, <1>2, <1>6, <1>7, <2>1
<1>b. CASE Sent(r)
  <2>1. sends'[r] = sends[r] + 1 /\ lost2 <= lost /\ ahead2 <= ahead /\ again2 <= again
    BY <1>b, <1>2, <1>3, <1>4, <1>5 DEF Sent
  <2>2. CASE M \subseteq L /\ Ahead(r) /\ ~Ahead(r)'
    <3>1. ahead = 1 /\ ahead2 = 0
      BY <2>2, <1>4
    <3>2. QED BY <1>0, <1>1, <1>2, <1>6, <1>7, <2>1, <2>2, <3>1
  <2>3. ASSUME NEW x \in L, M \subseteq L \ {x}
        PROVE  IsFiniteSet(M) /\ m \in Nat /\ m <= n - 1
    <3>1. IsFiniteSet(L \ {x}) /\ Cardinality(L \ {x}) = n - 1
      BY <1>0, FS_RemoveElement DEF n
    <3>2. QED BY <2>3, <3>1, FewerLate DEF m
  <2>4. CASE \E x \in L : M \subseteq L \ {x}
    <3>1. IsFiniteSet(M) /\ m \in Nat /\ m <= n - 1
      BY <2>3, <2>4
    <3>2. QED BY <1>0, <1>1, <1>2, <1>7, <2>1, <3>1
  <2>5. QED BY <1>b, <2>2, <2>4 DEF Sent, L, M
<1>c. CASE Faulted(r)
  <2>1. M \subseteq L /\ sends'[r] = sends[r] /\ faults' = faults + 1 /\ ahead2 <= ahead
    BY <1>c, <1>2, <1>4 DEF Faulted, M, L
  <2>2. QED BY <1>0, <1>1, <1>2, <1>6, <1>7, <2>1
<1>d. CASE Fresh(r)
  <2>1. /\ M \subseteq L /\ lost2 <= lost /\ ahead2 + again2 <= 1 + lost2
        /\ sends'[r] = 0 \/ (Owes /\ sends'[r] = sends[r])
    BY <1>d, <1>2, <1>3, <1>4, <1>5 DEF Fresh, M, L, Owes
  <2>2. CASE sends'[r] = 0
    BY <1>0, <1>1, <1>2, <1>6, <2>1, <2>2
  <2>3. CASE Owes /\ sends'[r] = sends[r]
    BY <1>0, <1>1, <1>2, <1>6, <1>7, <2>1, <2>3
  <2>4. QED BY <2>1, <2>2, <2>3
<1>e. CASE Overtaken(r)
  <2>1. /\ sends'[r] = sends[r] /\ lost = 1 /\ lost2 = 0
        /\ ahead = 1 /\ again = 1 /\ again2 = 0
    BY <1>e, <1>3, <1>4, <1>5 DEF Overtaken
  <2>2. PICK x : M \subseteq L \cup {x}
    BY <1>e DEF Overtaken, M, L
  <2>3. IsFiniteSet(L \cup {x}) /\ Cardinality(L \cup {x}) <= n + 1
    BY <1>0, FS_AddElement DEF n
  <2>4. IsFiniteSet(M) /\ m \in Nat /\ m <= n + 1
    <3>1. IsFiniteSet(M) /\ m \in Nat /\ m <= Cardinality(L \cup {x})
      BY <2>2, <2>3, FewerLate DEF m
    <3>2. Cardinality(L \cup {x}) \in Nat
      BY <2>3, FS_CardinalityType
    <3>3. QED BY <1>0, <2>3, <3>1, <3>2
  <2>5. QED BY <1>0, <1>1, <1>2, <1>7, <2>1, <2>4
<1>f. CASE Broken(r)
  <2>1. /\ sends'[r] = sends[r] + 1 /\ faults' = faults + 1
        /\ lost2 <= lost /\ ahead2 <= ahead
    BY <1>f, <1>2, <1>3, <1>4 DEF Broken
  <2>2. CASE M \subseteq L /\ Ahead(r) /\ ~Ahead(r)'
    <3>1. ahead = 1 /\ ahead2 = 0
      BY <2>2, <1>4
    <3>2. QED BY <1>0, <1>1, <1>2, <1>6, <1>7, <2>1, <2>2, <3>1
  <2>3. ASSUME NEW x \in L, M \subseteq L \ {x}
        PROVE  IsFiniteSet(M) /\ m \in Nat /\ m <= n - 1
    <3>1. IsFiniteSet(L \ {x}) /\ Cardinality(L \ {x}) = n - 1
      BY <1>0, FS_RemoveElement DEF n
    <3>2. QED BY <2>3, <3>1, FewerLate DEF m
  <2>4. CASE \E x \in L : M \subseteq L \ {x}
    <3>1. IsFiniteSet(M) /\ m \in Nat /\ m <= n - 1
      BY <2>3, <2>4
    <3>2. QED BY <1>0, <1>1, <1>2, <1>7, <2>1, <3>1
  <2>5. QED BY <1>f, <2>2, <2>4 DEF Broken, L, M
<1>z. QED BY <1>a, <1>b, <1>c, <1>d, <1>e, <1>f

-----------------------------------------------------------------------------
(* What a step may do to a row and to a task *)

SameRow(i) ==
  /\ (outbox'[i].live <=> outbox[i].live) /\ (outbox'[i].stale <=> outbox[i].stale)
  /\ outbox'[i].claim = outbox[i].claim

(* The row is left alone, or deleted although nobody has claimed it.        *)
KeepsRow(i) == SameRow(i) \/ (outbox[i].claim = None /\ outbox'[i] = NoRow)

(* The row does not appear, nor does its lease run out.                     *)
RowCalm(i) == outbox'[i].live => outbox[i].live /\ (outbox'[i].stale => outbox[i].stale)

(* The task is left alone, or waits for its turn.                           *)
SameTask(p, i) ==
  \/ task'[p][i] = task[p][i]
  \/ /\ task[p][i].pc \in {"none", "queued"} /\ task'[p][i].pc \in {"none", "queued"}
     /\ task'[p][i].token = None

(* The task claims nothing, takes up nothing, and is not overtaken.         *)
TaskCalm(p, i) ==
  /\ Holds(p, i)' => Holds(p, i)
  /\ Sending(p, i)' /\ ~Holds(p, i)' => Sending(p, i) /\ ~Holds(p, i)
  /\ Working(p, i)' => Working(p, i)

StaysSettled(p, i) == outbox'[i].live /\ Settles(p, i) => Settles(p, i)'

LEMMA KeptRow ==
  ASSUME NEW i \in RowIds, KeepsRow(i)
  PROVE  RowCalm(i)
BY RecordTypes DEF KeepsRow, SameRow, RowCalm

LEMMA KeptTask ==
  ASSUME NEW p \in Processes, NEW i \in RowIds, KeepsRow(i), SameTask(p, i)
  PROVE  TaskCalm(p, i) /\ StaysSettled(p, i)
<1>1. Working(p, i)' <=> Working(p, i)
  BY DEF SameTask, Working
<1>2. Sending(p, i)' <=> Sending(p, i)
  BY DEF SameTask, Sending
<1>3. Delivered(p, i)' <=> Delivered(p, i)
  BY DEF SameTask, Delivered
<1>4. Holds(p, i)' => Holds(p, i)
  BY RecordTypes DEF SameTask, KeepsRow, SameRow, Holds
<1>5. Working(p, i) \/ Delivered(p, i) \/ Sending(p, i) => task'[p][i] = task[p][i]
  BY DEF SameTask, Working, Sending, Delivered
<1>6. Holds(p, i) /\ task'[p][i] = task[p][i] => Holds(p, i)'
  BY DEF KeepsRow, SameRow, Holds
<1>7. QED BY <1>1, <1>2, <1>3, <1>4, <1>5, <1>6 DEF TaskCalm, StaysSettled, Settles

(* The rows and tasks of a request are calm, so nobody comes late or ahead. *)
LEMMA TasksCalm ==
  ASSUME ConstantsAssumption, NEW r \in Requests,
         \A p \in Processes, i \in RowsOf(r) : TaskCalm(p, i)
  PROVE  /\ Late(r)' \subseteq Late(r)
         /\ Ahead(r)' => Ahead(r)
<1>1. Ahead(r)' => Ahead(r)
  BY DEF Ahead, TaskCalm, RowsOf
<1>2. ASSUME NEW x \in Late(r)'
      PROVE  x \in Late(r)
  <2>1. /\ x \in Processes \X RowIds /\ RequestOf[x[2]] = r
        /\ Sending(x[1], x[2])' /\ ~Holds(x[1], x[2])'
    BY <1>2 DEF Late
  <2>2. x[1] \in Processes /\ x[2] \in RowsOf(r)
    BY <2>1 DEF RowsOf
  <2>3. Sending(x[1], x[2]) /\ ~Holds(x[1], x[2])
    BY <2>1, <2>2 DEF TaskCalm
  <2>4. QED BY <2>1, <2>3 DEF Late
<1>3. QED BY <1>1, <1>2

LEMMA RowsCalm ==
  ASSUME ConstantsAssumption, NEW r \in Requests,
         \A i \in RowsOf(r) : RowCalm(i),
         \A p \in Processes, i \in RowsOf(r) : TaskCalm(p, i)
  PROVE  Lost(r)' => Lost(r)
<1>1. ASSUME NEW p \in Processes, NEW i \in RowsOf(r), Holds(p, i)', outbox'[i].stale
      PROVE  Holds(p, i) /\ outbox[i].stale
  BY <1>1 DEF RowCalm, TaskCalm, Holds
<1>2. QED BY <1>1 DEF Lost, RowsOf

(* Only the holder that stops working can leave the row to another.         *)
LEMMA AgainFrom ==
  ASSUME NEW r \in Requests, \A i \in RowsOf(r) : RowCalm(i), Again(r)', ~Again(r)
  PROVE  \E p \in Processes, i \in RowsOf(r) :
           outbox'[i].live /\ Settles(p, i) /\ ~Settles(p, i)'
<1>1. PICK i \in RowsOf(r) :
        outbox'[i].live /\ (outbox'[i].stale \/ \A p \in Processes : ~Settles(p, i)')
  BY DEF Again, RowsOf
<1>2. outbox[i].live /\ (outbox'[i].stale => outbox[i].stale)
  BY <1>1 DEF RowCalm
<1>3. ~outbox[i].stale /\ \E p \in Processes : Settles(p, i)
  BY <1>2 DEF Again
<1>4. QED BY <1>1, <1>2, <1>3

LEMMA StillWhen ==
  ASSUME ConstantsAssumption, NEW r \in Requests, sends'[r] = sends[r],
         \A i \in RowsOf(r) : RowCalm(i),
         \A p \in Processes, i \in RowsOf(r) : TaskCalm(p, i) /\ StaysSettled(p, i)
  PROVE  Still(r)
<1>1. Late(r)' \subseteq Late(r) /\ (Ahead(r)' => Ahead(r)) /\ (Lost(r)' => Lost(r))
  BY TasksCalm, RowsCalm
<1>2. Again(r)' => Again(r)
  BY AgainFrom DEF StaysSettled
<1>3. QED BY <1>1, <1>2 DEF Still

LEMMA StillKept ==
  ASSUME ConstantsAssumption, NEW r \in Requests, sends'[r] = sends[r],
         \A i \in RowsOf(r) : KeepsRow(i),
         \A p \in Processes, i \in RowsOf(r) : SameTask(p, i)
  PROVE  Still(r)
<1>1. \A i \in RowsOf(r) : i \in RowIds
  BY DEF RowsOf
<1>2. QED BY <1>1, KeptRow, KeptTask, StillWhen

(* A row has one holder, and a request one row.                             *)
LEMMA HolderUnique ==
  ASSUME OneRow, ClaimHeldOnce,
         NEW p \in Processes, NEW i \in RowIds, NEW q \in Processes, NEW j \in RowIds,
         Holds(p, i), Holds(q, j), RequestOf[i] = RequestOf[j]
  PROVE  p = q /\ i = j
<1>1. i = j
  BY DEF OneRow, Holds
<1>2. QED BY <1>1 DEF ClaimHeldOnce, Holds

(* Of a request with one row, only an overtaken holder is ahead of another. *)
LEMMA AheadAgain ==
  ASSUME ConstantsAssumption, OneRow', NEW r \in Requests, Ahead(r)', Again(r)'
  PROVE  Lost(r)'
<1>1. PICK p \in Processes, i \in RowIds :
        RequestOf[i] = r /\ Holds(p, i)' /\ Working(p, i)'
  BY DEF Ahead, RowsOf
<1>2. PICK j \in RowIds :
        /\ RequestOf[j] = r /\ outbox'[j].live
        /\ outbox'[j].stale \/ \A q \in Processes : ~Settles(q, j)'
  BY DEF Again, RowsOf
<1>3. i = j
  BY <1>1, <1>2 DEF OneRow, Holds
<1>4. Settles(p, j)'
  BY <1>1, <1>3 DEF Settles
<1>5. outbox'[j].stale
  BY <1>2, <1>4
<1>6. QED BY <1>1, <1>3, <1>5 DEF Lost, RowsOf

-----------------------------------------------------------------------------
(* One task moves *)

(* All else is left alone, but for unclaimed rows.                          *)
Elsewhere(p, i) ==
  /\ \A q \in Processes, j \in RowIds : q # p \/ j # i => task'[q][j] = task[q][j]
  /\ \A j \in RowIds : j # i => KeepsRow(j)

LEMMA ElsewhereCalm ==
  ASSUME NEW p \in Processes, NEW i \in RowIds, Elsewhere(p, i)
  PROVE  /\ \A j \in RowIds : j # i => RowCalm(j)
         /\ \A q \in Processes, j \in RowIds :
              j # i \/ (q # p /\ KeepsRow(i)) => TaskCalm(q, j) /\ StaysSettled(q, j)
<1>1. \A j \in RowIds : j # i => RowCalm(j)
  BY KeptRow DEF Elsewhere
<1>2. ASSUME NEW q \in Processes, NEW j \in RowIds, j # i \/ (q # p /\ KeepsRow(i))
      PROVE  TaskCalm(q, j) /\ StaysSettled(q, j)
  BY <1>2, KeptTask DEF Elsewhere, SameTask
<1>3. QED BY <1>1, <1>2

LEMMA OthersStill ==
  ASSUME ConstantsAssumption, NEW p \in Processes, NEW i \in RowIds, Elsewhere(p, i),
         NEW r \in Requests, RequestOf[i] # r, sends'[r] = sends[r]
  PROVE  Still(r)
<1>1. \A j \in RowsOf(r) : j \in RowIds /\ j # i
  BY DEF RowsOf
<1>2. QED BY <1>1, ElsewhereCalm, StillWhen

(* A step of one task adds no chance to ask for the request, and at most    *)
(* turns that of the holder into one for the next claimer.                  *)
Moved(r) ==
  /\ Late(r)' \subseteq Late(r)
  /\ Lost(r)' => Lost(r)
  /\ Ahead(r)' => Ahead(r)
  /\ Again(r)' => Again(r) \/ (Ahead(r) /\ ~Ahead(r)')

LEMMA MovedStill ==
  ASSUME NEW r, Moved(r), sends'[r] = sends[r]
  PROVE  Still(r)
BY DEF Moved, Still

LEMMA HolderMoves ==
  ASSUME ConstantsAssumption, OneRow, ClaimHeldOnce,
         NEW p \in Processes, NEW i \in RowIds, NEW r \in Requests, r = RequestOf[i],
         \A j \in RowsOf(r) : RowCalm(j),
         \A q \in Processes, j \in RowsOf(r) : TaskCalm(q, j),
         \A q \in Processes, j \in RowsOf(r) : q # p \/ j # i => StaysSettled(q, j),
         outbox'[i].live /\ Settles(p, i) => Working(p, i) \/ Settles(p, i)'
  PROVE  /\ Moved(r)
         /\ StaysSettled(p, i) => (Again(r)' => Again(r))
         /\ Holds(p, i) /\ ~Settles(p, i)' /\ ~Working(p, i)' => ~Ahead(r)'
<1>0. i \in RowsOf(r) /\ \A j \in RowsOf(r) : j \in RowIds /\ RequestOf[j] = r
  BY DEF RowsOf
<1>1. Late(r)' \subseteq Late(r) /\ (Ahead(r)' => Ahead(r)) /\ (Lost(r)' => Lost(r))
  BY TasksCalm, RowsCalm
<1>2. ASSUME Holds(p, i), Ahead(r)'
      PROVE  Holds(p, i)' /\ Working(p, i)'
  <2>1. PICK q \in Processes, j \in RowsOf(r) : Holds(q, j)' /\ Working(q, j)'
    BY <1>2 DEF Ahead, RowsOf
  <2>2. Holds(q, j)
    BY <2>1 DEF TaskCalm
  <2>3. q = p /\ j = i
    BY <1>0, <1>2, <2>2, HolderUnique
  <2>4. QED BY <2>1, <2>3
<1>3. ASSUME Again(r)', ~Again(r)
      PROVE  ~StaysSettled(p, i) /\ Ahead(r) /\ ~Ahead(r)'
  <2>1. PICK q \in Processes, j \in RowsOf(r) :
          outbox'[j].live /\ Settles(q, j) /\ ~Settles(q, j)'
    BY <1>3, AgainFrom
  <2>2. q = p /\ j = i
    BY <2>1 DEF StaysSettled
  <2>3. Holds(p, i) /\ Working(p, i) /\ ~StaysSettled(p, i)
    BY <2>1, <2>2 DEF Settles, StaysSettled
  <2>4. Ahead(r)
    BY <1>0, <2>3 DEF Ahead
  <2>5. ~Ahead(r)'
    BY <1>2, <2>1, <2>2, <2>3 DEF Settles
  <2>6. QED BY <2>3, <2>4, <2>5
<1>4. QED BY <1>1, <1>2, <1>3 DEF Moved

(* A task goes on, with the token it has or without the claim it has lost.  *)
GoesOn(p, i) ==
  /\ Elsewhere(p, i)
  /\ \/ outbox[i].claim = None /\ outbox'[i] = NoRow
     \/ /\ (outbox'[i].live <=> outbox[i].live) /\ outbox'[i].claim = outbox[i].claim
        /\ outbox'[i].stale => outbox[i].stale
  /\ \/ task'[p][i].token = task[p][i].token
     \/ ~Holds(p, i) /\ task'[p][i].token = None
  /\ Sending(p, i)' => Sending(p, i) \/ Holds(p, i)
  /\ Working(p, i)' => Working(p, i)
  /\ Delivered(p, i) /\ Holds(p, i) => Delivered(p, i)'

LEMMA GoesOnMoves ==
  ASSUME ConstantsAssumption, OneRow, ClaimHeldOnce,
         NEW p \in Processes, NEW i \in RowIds, NEW r \in Requests, r = RequestOf[i],
         GoesOn(p, i)
  PROVE  /\ Moved(r)
         /\ Delivered(p, i)' \/ ~Holds(p, i) => (Again(r)' => Again(r))
         /\ Holds(p, i) /\ ~Working(p, i)' => ~Ahead(r)'
         /\ ~Sending(p, i)' => Late(r)' \subseteq Late(r) \ {<<p, i>>}
<1>0. Elsewhere(p, i) /\ \A j \in RowsOf(r) : j \in RowIds
  BY DEF GoesOn, RowsOf
<1>1. RowCalm(i)
  BY RecordTypes DEF GoesOn, RowCalm
<1>2. Holds(p, i)' => Holds(p, i)
  BY RecordTypes DEF GoesOn, Holds
<1>3. TaskCalm(p, i)
  <2>1. Holds(p, i) => Holds(p, i)'
    BY DEF GoesOn, Holds
  <2>2. QED BY <1>2, <2>1 DEF GoesOn, TaskCalm
<1>4. ASSUME NEW q \in Processes, q # p
      PROVE  TaskCalm(q, i) /\ StaysSettled(q, i)
  <2>1. task'[q][i] = task[q][i]
    BY <1>0, <1>4 DEF Elsewhere
  <2>2. /\ Sending(q, i)' <=> Sending(q, i)
        /\ Working(q, i)' <=> Working(q, i)
        /\ Delivered(q, i)' <=> Delivered(q, i)
    BY <2>1 DEF Sending, Working, Delivered
  <2>3. Holds(q, i)' <=> Holds(q, i)
    BY <2>1, RecordTypes DEF GoesOn, Holds
  <2>4. QED BY <2>2, <2>3 DEF TaskCalm, StaysSettled, Settles
<1>5. \A j \in RowsOf(r) : RowCalm(j)
  BY <1>0, <1>1, ElsewhereCalm
<1>6. \A q \in Processes, j \in RowsOf(r) : TaskCalm(q, j)
  BY <1>0, <1>3, <1>4, ElsewhereCalm
<1>7. \A q \in Processes, j \in RowsOf(r) : q # p \/ j # i => StaysSettled(q, j)
  BY <1>0, <1>4, ElsewhereCalm
<1>8. Holds(p, i) => Holds(p, i)'
  BY DEF GoesOn, Holds
<1>9. Settles(p, i) => Working(p, i) \/ Settles(p, i)'
  BY <1>8 DEF GoesOn, Settles
<1>10. Delivered(p, i)' \/ ~Holds(p, i) => StaysSettled(p, i)
  BY <1>8 DEF StaysSettled, Settles
<1>11. /\ Moved(r)
       /\ StaysSettled(p, i) => (Again(r)' => Again(r))
       /\ Holds(p, i) /\ ~Settles(p, i)' /\ ~Working(p, i)' => ~Ahead(r)'
  BY <1>5, <1>6, <1>7, <1>9, HolderMoves
<1>12. ASSUME Holds(p, i), ~Working(p, i)'
       PROVE  ~Ahead(r)'
  BY <1>0, <1>2, <1>6, <1>12, HolderUnique DEF Ahead, RowsOf, TaskCalm
<1>13. ASSUME ~Sending(p, i)'
       PROVE  <<p, i>> \notin Late(r)'
  BY <1>13 DEF Late
<1>14. QED BY <1>10, <1>11, <1>12, <1>13 DEF Moved

(* The holder ends: its row is deleted, or given back without having been   *)
(* delivered.                                                               *)
Ends(p, i) ==
  /\ Elsewhere(p, i)
  /\ Holds(p, i) /\ ~Working(p, i)
  /\ task'[p][i] = NoTask
  /\ \/ outbox'[i] = NoRow
     \/ outbox'[i].claim = None /\ ~outbox'[i].stale /\ ~Delivered(p, i)

LEMMA EndsMoves ==
  ASSUME ConstantsAssumption, OneRow, ClaimHeldOnce,
         NEW p \in Processes, NEW i \in RowIds, NEW r \in Requests, r = RequestOf[i],
         Ends(p, i)
  PROVE  Moved(r)
<1>0. Elsewhere(p, i) /\ \A j \in RowsOf(r) : j \in RowIds
  BY DEF Ends, RowsOf
<1>1. RowCalm(i)
  BY RecordTypes DEF Ends, RowCalm, Holds, NoRow
<1>2. outbox'[i].claim = None
  BY RecordTypes DEF Ends
<1>3. ASSUME NEW q \in Processes
      PROVE  TaskCalm(q, i) /\ (q # p => StaysSettled(q, i))
  <2>1. ~Holds(q, i)'
    BY <1>2 DEF Holds
  <2>2. CASE q = p
    BY <2>1, <2>2, RecordTypes DEF Ends, TaskCalm, Sending, Working
  <2>3. CASE q # p
    <3>1. task'[q][i] = task[q][i]
      BY <1>0, <2>3 DEF Elsewhere
    <3>2. ~Holds(q, i)
      BY <2>3, HolderUnique DEF Ends
    <3>3. QED BY <2>1, <3>1, <3>2 DEF TaskCalm, StaysSettled, Settles, Sending, Working
  <2>4. QED BY <2>2, <2>3
<1>4. \A j \in RowsOf(r) : RowCalm(j)
  BY <1>0, <1>1, ElsewhereCalm
<1>5. \A q \in Processes, j \in RowsOf(r) : TaskCalm(q, j)
  BY <1>0, <1>3, ElsewhereCalm
<1>6. \A q \in Processes, j \in RowsOf(r) : q # p \/ j # i => StaysSettled(q, j)
  BY <1>0, <1>3, ElsewhereCalm
<1>7. outbox'[i].live => ~Settles(p, i)
  BY RecordTypes DEF Ends, Settles
<1>8. QED BY <1>4, <1>5, <1>6, <1>7, HolderMoves

-----------------------------------------------------------------------------
(* Locks and stages *)

Admitted(p, i) == task[p][i].pc = "admitted"

(* The task that is in the admission of a request holds its lock, alone.    *)
LocksExact ==
  \A p \in Processes, i \in RowIds :
    Admitted(p, i) =>
      /\ admission[RequestOf[i]] = [proc |-> p, step |-> "dispatch"]
      /\ \A q \in Processes, j \in RowIds :
           Admitted(q, j) /\ RequestOf[j] = RequestOf[i] => q = p /\ j = i

(* Nobody is at work on a removed request, and between the two enqueueings  *)
(* of a retry nothing is sent.                                              *)
Staged(r) ==
  /\ admission[r].step # "free" => status[r] # "removed"
  /\ admission[r].step = "saved" => sends[r] = 0

AllStaged == \A r \in Requests : Staged(r)

(* A step keeps the stages, and what unsettled books owe.                   *)
Stages == AllStaged' /\ \A r \in Requests : Owing(r)

DuplicateInv ==
  /\ OneRow /\ LocksExact /\ AllStaged
  /\ \A r \in Requests :
       /\ sends[r] <= 1 + faults
       /\ status[r] # "removed" => Bounded(r)

(* What every step does to the count of every request.                      *)
Counted(r) ==
  \/ status'[r] = "removed" /\ sends'[r] = sends[r]
  \/ /\ status[r] # "removed"
     /\ \/ Still(r) \/ Sent(r) \/ Faulted(r) \/ Broken(r) \/ Fresh(r) \/ Overtaken(r)

LEMMA CountedStill ==
  ASSUME NEW r, Still(r), status[r] # "removed" \/ status'[r] = status[r]
  PROVE  Counted(r)
BY DEF Counted, Still

(* Only request r is written to.                                            *)
Alone(r) ==
  \A s \in Requests : s # r =>
    status'[s] = status[s] /\ sends'[s] = sends[s] /\ admission'[s] = admission[s]

LEMMA StagedAlone ==
  ASSUME AllStaged, NEW r \in Requests, Alone(r), Staged(r)', Owing(r)
  PROVE  Stages
BY DEF AllStaged, Staged, Alone, Stages, Owing, Unsettled

LEMMA LocksKept ==
  ASSUME ConstantsAssumption, LocksExact,
         \A p \in Processes, i \in RowIds : Admitted(p, i)' => Admitted(p, i),
         \A p \in Processes, i \in RowIds :
           Admitted(p, i)' => admission'[RequestOf[i]] = admission[RequestOf[i]]
  PROVE  LocksExact'
BY DEF LocksExact

LEMMA LockFree ==
  ASSUME LocksExact, NEW p \in Processes, NEW i \in RowIds, Admitted(p, i)
  PROVE  admission[RequestOf[i]].step = "dispatch" /\ admission[RequestOf[i]].proc = p
<1>1. admission[RequestOf[i]] = [proc |-> p, step |-> "dispatch"]
  BY DEF LocksExact
<1>2. QED BY <1>1

LEMMA OneRowKept ==
  ASSUME OneRow, \A i \in RowIds : outbox'[i].live => outbox[i].live
  PROVE  OneRow'
BY DEF OneRow

-----------------------------------------------------------------------------
(* Enqueueing *)

LEMMA EnqueueOneRow ==
  ASSUME TypeOK, OneRow, NEW p \in Processes, NEW r \in Requests, Enqueue(p, r)
  PROVE  OneRow'
<1>1. CASE UNCHANGED outbox
  BY <1>1 DEF OneRow
<1>2. ASSUME ~Queued(r), NEW i \in RowsOf(r), outbox' = [outbox EXCEPT ![i] = NewRow]
      PROVE  OneRow'
  <2>1. \A j \in RowIds : outbox'[j] = IF j = i THEN NewRow ELSE outbox[j]
    BY <1>2 DEF TypeOK
  <2>2. \A j \in RowIds : RequestOf[j] = r => ~outbox[j].live
    BY <1>2 DEF Queued, RowsOf
  <2>3. RequestOf[i] = r
    BY DEF RowsOf
  <2>4. QED BY <2>1, <2>2, <2>3 DEF OneRow
<1>3. QED BY <1>1, <1>2 DEF Enqueue

LEMMA EnqueueCalm ==
  ASSUME ConstantsAssumption, TypeOK, NEW p \in Processes, NEW r \in Requests, Enqueue(p, r)
  PROVE  /\ \A q \in Processes, i \in RowIds : SameTask(q, i) /\ TaskCalm(q, i)
         /\ \A i \in RowIds : RequestOf[i] # r => SameRow(i)
         /\ \A i \in RowIds : outbox'[i] = outbox[i] \/ ~outbox'[i].stale
<1>1. /\ \A q \in Processes, i \in RowIds :
           \/ task'[q][i] = task[q][i]
           \/ task[q][i].pc = "none" /\ task'[q][i].pc = "queued" /\ task'[q][i].token = None
      /\ \A i \in RowIds :
           \/ outbox'[i] = outbox[i]
           \/ RequestOf[i] = r /\ ~outbox[i].live /\ outbox'[i] = NewRow
  BY EnqueueEffect
<1>2. \A q \in Processes, i \in RowIds : SameTask(q, i)
  BY <1>1 DEF SameTask
<1>3. ~NewRow.stale /\ NewRow.claim = None
  BY DEF NewRow, NoRow
<1>4. ASSUME NEW q \in Processes, NEW i \in RowIds, outbox'[i] = NewRow, ~outbox[i].live
      PROVE  TaskCalm(q, i)
  <2>1. ~Holds(q, i) /\ ~Holds(q, i)'
    BY <1>3, <1>4 DEF Holds
  <2>2. (Sending(q, i)' <=> Sending(q, i)) /\ (Working(q, i)' <=> Working(q, i))
    BY <1>2 DEF SameTask, Sending, Working
  <2>3. QED BY <2>1, <2>2 DEF TaskCalm
<1>5. ASSUME NEW q \in Processes, NEW i \in RowIds, outbox'[i] = outbox[i]
      PROVE  TaskCalm(q, i)
  BY <1>2, <1>5, KeptTask DEF KeepsRow, SameRow
<1>6. \A i \in RowIds : RequestOf[i] # r => SameRow(i)
  BY <1>1 DEF SameRow
<1>7. QED BY <1>1, <1>2, <1>3, <1>4, <1>5, <1>6

(* A request that was not sent, or owes nothing, gets a row or has one.     *)
LEMMA EnqueueCounts ==
  ASSUME ConstantsAssumption, TypeOK, OneRow, NEW p \in Processes, NEW r \in Requests,
         Enqueue(p, r), sends'[r] = 0 \/ (Unsettled(r) /\ sends'[r] = sends[r]),
         status[r] # "removed", Alone(r)
  PROVE  \A s \in Requests : Counted(s)
<1>1. OneRow'
  BY EnqueueOneRow
<1>2. Fresh(r)
  <2>1. \A i \in RowsOf(r) : i \in RowIds
    BY DEF RowsOf
  <2>2. Late(r)' \subseteq Late(r)
    BY <2>1, EnqueueCalm, TasksCalm
  <2>3. Ahead(r)' /\ Again(r)' => Lost(r)'
    BY <1>1, AheadAgain
  <2>4. ASSUME NEW q \in Processes, NEW i \in RowsOf(r), Holds(q, i)', outbox'[i].stale
        PROVE  Holds(q, i) /\ outbox[i].stale
    BY <2>1, <2>4, EnqueueCalm DEF TaskCalm
  <2>5. Lost(r)' => Lost(r)
    BY <2>4 DEF Lost, RowsOf
  <2>6. QED BY <2>2, <2>3, <2>5 DEF Fresh
<1>3. ASSUME NEW s \in Requests, s # r
      PROVE  Counted(s)
  <2>1. \A i \in RowsOf(s) : KeepsRow(i) /\ i \in RowIds
    BY <1>3, EnqueueCalm DEF RowsOf, KeepsRow
  <2>2. Still(s)
    BY <1>3, <2>1, EnqueueCalm, StillKept DEF Alone
  <2>3. QED BY <1>3, <2>2, CountedStill DEF Alone
<1>4. QED BY <1>2, <1>3 DEF Counted

(* Cancellation and removal delete rows of the request.                     *)
LEMMA CancelCounts ==
  ASSUME ConstantsAssumption, TypeOK, OneRow, NEW r \in Requests, UNCHANGED <<task, sends>>,
         \/ UNCHANGED outbox
         \/ outbox' = WithoutUnclaimed(r)
         \/ outbox' = WithoutRowsOf(r) /\ status'[r] = "removed",
         Alone(r), status[r] # "removed" \/ status'[r] = status[r]
  PROVE  OneRow' /\ \A s \in Requests : Counted(s)
<1>1. \A i \in RowIds : \/ outbox'[i] = outbox[i]
                        \/ outbox'[i] = NoRow /\ outbox[i].claim = None
                        \/ outbox'[i] = NoRow /\ RequestOf[i] = r /\ status'[r] = "removed"
  BY CancelEffect
<1>2. OneRow'
  BY <1>1, OneRowKept, RecordTypes
<1>3. ASSUME NEW s \in Requests, s # r \/ status'[r] # "removed"
      PROVE  Counted(s)
  <2>1. \A i \in RowsOf(s) : KeepsRow(i) /\ i \in RowIds
    BY <1>1, <1>3 DEF RowsOf, KeepsRow, SameRow
  <2>2. \A q \in Processes, i \in RowIds : SameTask(q, i)
    BY DEF SameTask
  <2>3. Still(s)
    BY <2>1, <2>2, StillKept
  <2>4. QED BY <2>3, CountedStill DEF Alone
<1>4. QED BY <1>2, <1>3 DEF Counted

(* The admission of a request that no task is in may be given to anybody.   *)
LEMMA OperatorLocks ==
  ASSUME ConstantsAssumption, TypeOK, LocksExact, NEW r \in Requests,
         \A q \in Processes, i \in RowIds : Admitted(q, i)' => Admitted(q, i),
         admission[r].step # "dispatch" \/ UNCHANGED admission, Alone(r)
  PROVE  LocksExact'
<1>1. ASSUME NEW q \in Processes, NEW i \in RowIds, Admitted(q, i)'
      PROVE  admission'[RequestOf[i]] = admission[RequestOf[i]]
  <2>1. admission[RequestOf[i]].step = "dispatch"
    BY <1>1, LockFree
  <2>2. RequestOf[i] \in Requests
    BY DEF ConstantsAssumption
  <2>3. QED BY <2>1, <2>2 DEF Alone
<1>2. QED BY <1>1, LocksKept

LEMMA EnqueueLocks ==
  ASSUME ConstantsAssumption, TypeOK, NEW p \in Processes, NEW r \in Requests, Enqueue(p, r)
  PROVE  \A q \in Processes, i \in RowIds : Admitted(q, i)' => Admitted(q, i)
<1>1. \A q \in Processes, i \in RowIds : SameTask(q, i)
  BY EnqueueCalm
<1>2. QED BY <1>1 DEF SameTask, Admitted

LEMMA OperatorCounts ==
  ASSUME ConstantsAssumption, TypeOK, OneRow, LocksExact, AllStaged,
         NEW r \in Requests, CompleteFromLibrary(r) \/ \E p \in Processes : Operator(p, r)
  PROVE  /\ OneRow' /\ LocksExact' /\ Stages
         /\ \A s \in Requests : Counted(s)
<1>1. Staged(r) /\ Free.step = "free"
  BY RecordTypes DEF AllStaged
<1>2. ASSUME NEW p \in Processes, NEW step \in Steps, Holding(p, r, step)
      PROVE  admission[r].step = step
  BY <1>2 DEF Holding
<1>3. Idle(r) => admission[r].step = "free"
  BY <1>1 DEF Idle
<1>4. \A p \in Processes, step \in Steps : Take(p, r, step) =>
        admission'[r].step = step /\ \A s \in Requests : s # r => admission'[s] = admission[s]
  BY DEF Take, TypeOK
<1>5. Release(r) =>
        admission'[r].step = "free" /\ \A s \in Requests : s # r => admission'[s] = admission[s]
  BY <1>1 DEF Release, TypeOK
<1>6. {"cancelled", "saved", "clearing"} \subseteq Steps
  BY DEF Steps
<1>a. ASSUME NEW p \in Processes, Enqueue(p, r), sends'[r] = 0, status[r] # "removed", Alone(r),
             admission[r].step # "dispatch", Staged(r)', Owing(r)
      PROVE  /\ OneRow' /\ LocksExact' /\ Stages
             /\ \A s \in Requests : Counted(s)
  <2>1. OneRow' /\ \A s \in Requests : Counted(s)
    BY <1>a, EnqueueOneRow, EnqueueCounts
  <2>2. \A q \in Processes, i \in RowIds : Admitted(q, i)' => Admitted(q, i)
    BY <1>a, EnqueueLocks
  <2>3. LocksExact'
    BY <1>a, <2>2, OperatorLocks
  <2>4. Stages
    BY <1>a, StagedAlone
  <2>5. QED BY <2>1, <2>3, <2>4
<1>b. ASSUME UNCHANGED <<task, sends>>,
             \/ UNCHANGED outbox
             \/ outbox' = WithoutUnclaimed(r)
             \/ outbox' = WithoutRowsOf(r) /\ status'[r] = "removed",
             Alone(r), status[r] # "removed" \/ status'[r] = status[r],
             admission[r].step # "dispatch" \/ UNCHANGED admission, Staged(r)', Owing(r)
      PROVE  /\ OneRow' /\ LocksExact' /\ Stages
             /\ \A s \in Requests : Counted(s)
  <2>1. OneRow' /\ \A s \in Requests : Counted(s)
    BY <1>b, CancelCounts
  <2>2. LocksExact'
    BY <1>b, OperatorLocks DEF Admitted
  <2>3. Stages
    BY <1>b, StagedAlone
  <2>4. QED BY <2>1, <2>2, <2>3
<1>c. ASSUME NEW p \in Processes,
             CreateApproved(p, r) \/ Approve(p, r) \/ Repair(p, r) \/ RetrySave(p, r)
      PROVE  /\ Enqueue(p, r) /\ sends'[r] = 0 /\ status[r] # "removed" /\ Alone(r)
             /\ admission[r].step # "dispatch" /\ Staged(r)' /\ Owing(r)
  <2>1. Enqueue(p, r) /\ BecomeApproved(r)
    BY <1>c DEF CreateApproved, Approve, Repair, RetrySave
  <2>2. /\ status'[r] = "approved" /\ sends'[r] = 0
        /\ \A s \in Requests : s # r => status'[s] = status[s] /\ sends'[s] = sends[s]
    BY <2>1 DEF BecomeApproved, TypeOK
  <2>3. CASE RetrySave(p, r)
    <3>1. admission[r].step = "cancelled" /\ Take(p, r, "saved")
      BY <1>2, <1>6, <2>3 DEF RetrySave
    <3>2. QED BY <1>1, <1>4, <1>6, <2>1, <2>2, <3>1 DEF Staged, Owing, Unsettled, Alone
  <2>4. CASE ~RetrySave(p, r)
    <3>1. /\ admission[r].step = "free" /\ UNCHANGED admission
          /\ status[r] \in {"none", "pending", "failed"}
      BY <1>3, <1>c, <2>4 DEF CreateApproved, Approve, Repair
    <3>2. QED BY <2>1, <2>2, <3>1 DEF Staged, Owing, Unsettled, Alone
  <2>5. QED BY <2>3, <2>4
<1>d. ASSUME NEW p \in Processes, RetryEnqueue(p, r) \/ Reconcile(p, r)
      PROVE  \/ Enqueue(p, r) /\ sends'[r] = 0 /\ status[r] # "removed" /\ Alone(r)
                /\ admission[r].step # "dispatch" /\ Staged(r)' /\ Owing(r)
             \/ /\ Reconcile(p, r) /\ Unsettled(r) /\ sends'[r] = sends[r] /\ status[r] # "removed" /\ Alone(r)
                /\ UNCHANGED admission /\ Staged(r)' /\ Owing(r)
  <2>1. CASE RetryEnqueue(p, r)
    <3>1. admission[r].step = "saved"
      BY <1>2, <1>6, <2>1 DEF RetryEnqueue
    <3>2. UNCHANGED <<status, sends>> /\ Enqueue(p, r) /\ Release(r)
      BY <2>1 DEF RetryEnqueue
    <3>3. QED BY <1>1, <1>5, <3>1, <3>2 DEF Staged, Owing, Unsettled, Alone
  <2>2. CASE Reconcile(p, r)
    <3>1. UNCHANGED <<status, sends, admission>> /\ r \in Books /\ status[r] = "approved"
      BY <2>2 DEF Reconcile
    <3>2. QED BY <1>1, <2>2, <3>1 DEF Staged, Owing, Unsettled, Alone
  <2>3. QED BY <1>d, <2>1, <2>2
<1>e. ASSUME NEW p \in Processes, Reconcile(p, r), Unsettled(r), sends'[r] = sends[r], status[r] # "removed", Alone(r),
             UNCHANGED admission, Staged(r)', Owing(r)
      PROVE  /\ OneRow' /\ LocksExact' /\ Stages
             /\ \A s \in Requests : Counted(s)
  <2>0. Enqueue(p, r)
    BY <1>e DEF Reconcile
  <2>1. OneRow' /\ \A s \in Requests : Counted(s)
    BY <1>e, <2>0, EnqueueOneRow, EnqueueCounts
  <2>2. LocksExact'
    BY <1>e, <2>0, EnqueueLocks, OperatorLocks
  <2>3. QED BY <1>e, <2>1, <2>2, StagedAlone
<1>f. CASE CompleteFromLibrary(r)
  <2>1. /\ status[r] # "removed" /\ status'[r] = "completed"
        /\ \A s \in Requests : s # r => status'[s] = status[s]
        /\ UNCHANGED <<task, sends, admission>> /\ outbox' = WithoutUnclaimed(r)
    BY <1>f DEF CompleteFromLibrary, TypeOK
  <2>2. Staged(r)' /\ Owing(r) /\ Alone(r)
    BY <1>1, <2>1 DEF Staged, Owing, Unsettled, Alone
  <2>3. QED BY <1>b, <2>1, <2>2
<1>g. ASSUME NEW p \in Processes, CreatePending(p, r) \/ Decline(p, r)
      PROVE  /\ UNCHANGED <<task, sends>> /\ (UNCHANGED outbox \/ outbox' = WithoutUnclaimed(r))
             /\ Alone(r) /\ status[r] # "removed" /\ UNCHANGED admission /\ Staged(r)' /\ Owing(r)
  <2>1. /\ status[r] \in {"none", "pending"} /\ status'[r] \in {"pending", "declined"}
        /\ \A s \in Requests : s # r => status'[s] = status[s]
        /\ UNCHANGED <<task, sends, admission>>
        /\ UNCHANGED outbox \/ outbox' = WithoutUnclaimed(r)
    BY <1>g DEF CreatePending, Decline, TypeOK
  <2>2. QED BY <1>1, <1>3, <1>g, <2>1 DEF Staged, Owing, Unsettled, Alone, CreatePending, Decline
<1>h. ASSUME NEW p \in Processes, RetryCancel(p, r) \/ ClearCancel(p, r)
      PROVE  /\ UNCHANGED <<task, sends>> /\ outbox' = WithoutUnclaimed(r)
             /\ Alone(r) /\ status[r] # "removed" /\ admission[r].step # "dispatch" /\ Staged(r)' /\ Owing(r)
  <2>1. /\ status[r] # "removed" /\ UNCHANGED <<task, sends, status>>
        /\ outbox' = WithoutUnclaimed(r) /\ admission[r].step = "free"
        /\ Take(p, r, "cancelled") \/ Take(p, r, "clearing")
    BY <1>3, <1>h DEF RetryCancel, ClearCancel, Retryable
  <2>2. /\ admission'[r].step \in {"cancelled", "clearing"}
        /\ \A s \in Requests : s # r => admission'[s] = admission[s]
    BY <1>4, <1>6, <2>1
  <2>3. QED BY <1>1, <2>1, <2>2 DEF Staged, Owing, Unsettled, Alone
<1>i. ASSUME NEW p \in Processes, RetryRefused(p, r) \/ ClearRefused(p, r)
      PROVE  /\ UNCHANGED <<task, sends, outbox, status>>
             /\ Alone(r) /\ admission[r].step # "dispatch" /\ Staged(r)' /\ Owing(r)
  <2>1. /\ UNCHANGED <<task, sends, status, outbox>> /\ Release(r)
        /\ admission[r].step \in {"cancelled", "clearing"}
    BY <1>2, <1>6, <1>i DEF RetryRefused, ClearRefused
  <2>2. QED BY <1>1, <1>5, <2>1 DEF Staged, Owing, Unsettled, Alone
<1>j. ASSUME NEW p \in Processes, Remove(p, r) \/ ClearRemove(p, r)
      PROVE  /\ UNCHANGED <<task, sends>> /\ outbox' = WithoutRowsOf(r) /\ status'[r] = "removed"
             /\ Alone(r) /\ status[r] # "removed" /\ admission[r].step # "dispatch" /\ Staged(r)' /\ Owing(r)
  <2>1. /\ UNCHANGED <<task, sends>> /\ RemoveRequest(r)
        /\ \/ UNCHANGED admission /\ admission[r].step = "free" /\ status[r] # "removed"
           \/ Release(r) /\ admission[r].step = "clearing"
    BY <1>2, <1>3, <1>6, <1>j DEF Remove, ClearRemove
  <2>2. /\ outbox' = WithoutRowsOf(r) /\ status'[r] = "removed"
        /\ \A s \in Requests : s # r => status'[s] = status[s]
    BY <2>1 DEF RemoveRequest, TypeOK
  <2>3. /\ admission'[r].step = "free" /\ admission[r].step # "dispatch"
        /\ \A s \in Requests : s # r => admission'[s] = admission[s]
    BY <1>5, <2>1
  <2>4. status[r] # "removed"
    BY <1>1, <2>1 DEF Staged
  <2>5. QED BY <2>1, <2>2, <2>3, <2>4 DEF Staged, Owing, Unsettled, Alone
<1>z. CASE \E p \in Processes : Operator(p, r)
  <2>1. PICK p \in Processes : Operator(p, r)
    BY <1>z
  <2>2. CASE CreateApproved(p, r) \/ Approve(p, r) \/ Repair(p, r) \/ RetrySave(p, r)
    BY <1>a, <1>c, <2>2
  <2>3. CASE RetryEnqueue(p, r) \/ Reconcile(p, r)
    BY <1>a, <1>d, <1>e, <2>3
  <2>4. CASE CreatePending(p, r) \/ Decline(p, r)
    BY <1>b, <1>g, <2>4
  <2>5. CASE RetryCancel(p, r) \/ ClearCancel(p, r)
    BY <1>b, <1>h, <2>5
  <2>6. CASE RetryRefused(p, r) \/ ClearRefused(p, r)
    BY <1>b, <1>i, <2>6
  <2>7. CASE Remove(p, r) \/ ClearRemove(p, r)
    BY <1>b, <1>j, <2>7
  <2>8. QED BY <2>1, <2>2, <2>3, <2>4, <2>5, <2>6, <2>7 DEF Operator
<1>zz. QED BY <1>f, <1>z

-----------------------------------------------------------------------------
(* Claiming *)

LEMMA CountedUnless ==
  ASSUME NEW r, status'[r] = status[r], sends'[r] = sends[r],
         Still(r) \/ Faulted(r) \/ Overtaken(r)
  PROVE  Counted(r)
BY DEF Counted

(* Whoever claims the row of a request is the only one to come after the    *)
(* task that holds it, and comes while that is at work only if it is lost.  *)
LEMMA ClaimCounts ==
  ASSUME ConstantsAssumption, ClaimInv, OneRow,
         NEW p \in Processes, NEW i \in RowIds, Claim(p, i)
  PROVE  OneRow' /\ \A s \in Requests : Counted(s)
<1> DEFINE r == RequestOf[i]
<1>0. TypeOK /\ ClaimHeldOnce /\ UNCHANGED <<status, sends>>
  BY DEF ClaimInv, Claim
<1>1. PICK t \in UnusedTokens :
        /\ outbox' = [outbox EXCEPT ![i] = [@ EXCEPT !.claim = t, !.stale = FALSE]]
        /\ Own(p, i, t)
  BY DEF Claim
<1>2. /\ t \in Tokens /\ t # None
      /\ \A j \in RowIds : outbox[j].claim # t
      /\ \A q \in Processes, j \in RowIds : task[q][j].token # t
  BY DEF UnusedTokens, ConstantsAssumption
<1>3. /\ outbox'[i].claim = t /\ ~outbox'[i].stale /\ outbox'[i].live /\ outbox[i].live
      /\ outbox[i].claim = None \/ outbox[i].stale
      /\ \A j \in RowIds : j # i => outbox'[j] = outbox[j]
  <2>1. outbox \in [RowIds -> Row] /\ outbox[i] \in Row
    BY <1>0 DEF TypeOK
  <2>2. LET new == [outbox[i] EXCEPT !.claim = t, !.stale = FALSE]
        IN  new.claim = t /\ ~new.stale /\ new.live = outbox[i].live
    BY <2>1 DEF Row
  <2>3. outbox'[i] = [outbox[i] EXCEPT !.claim = t, !.stale = FALSE]
    BY <1>1, <2>1
  <2>4. \A j \in RowIds : j # i => outbox'[j] = outbox[j]
    BY <1>1, <2>1
  <2>5. outbox[i].live /\ (outbox[i].claim = None \/ outbox[i].stale)
    BY DEF Claim, Claimable
  <2>6. QED BY <2>2, <2>3, <2>4, <2>5
<1>4. /\ task'[p][i].pc = "claimed" /\ task'[p][i].token = t
      /\ \A q \in Processes, j \in RowIds : q # p \/ j # i => task'[q][j] = task[q][j]
  BY <1>0, <1>1, <1>2, ClaimEffect
<1>5. OneRow'
  BY <1>3, OneRowKept
<1>6. Elsewhere(p, i)
  BY <1>3, <1>4 DEF Elsewhere, KeepsRow, SameRow
<1>7. Holds(p, i)' /\ Working(p, i)' /\ ~Sending(p, i)' /\ r \in Requests
  BY <1>2, <1>3, <1>4 DEF Holds, Working, Sending, ConstantsAssumption
<1>8. \A q \in Processes : q # p => ~Holds(q, i)'
  BY <1>2, <1>3, <1>4 DEF Holds
<1>9. ASSUME NEW s \in Requests, s # r
      PROVE  Counted(s)
  BY <1>0, <1>6, <1>9, OthersStill, CountedUnless
<1>10. \A j \in RowsOf(r) : outbox'[j].live => j = i
  BY <1>3, <1>5 DEF OneRow, RowsOf
<1>11. ~Lost(r)'
  BY <1>3, <1>10 DEF Lost, Holds, RowsOf
<1>12. ~Again(r)'
  BY <1>3, <1>7, <1>10 DEF Again, Settles, RowsOf
<1>13. i \in RowsOf(r)
  BY DEF RowsOf
<1>14. Again(r)
  <2>1. outbox[i].claim = None => \A q \in Processes : ~Settles(q, i)
    BY DEF Settles, Holds
  <2>2. QED BY <1>3, <1>13, <2>1 DEF Again
<1>15. ASSUME NEW q \in Processes, NEW j \in RowIds, RequestOf[j] = r,
              Sending(q, j)', ~Holds(q, j)'
       PROVE  Sending(q, j) /\ (Holds(q, j) => j = i)
  <2>1. q # p \/ j # i
    BY <1>7, <1>15
  <2>2. task'[q][j] = task[q][j]
    BY <1>4, <2>1
  <2>3. Sending(q, j)
    BY <1>15, <2>2 DEF Sending
  <2>4. j # i => (Holds(q, j)' <=> Holds(q, j))
    BY <1>3, <2>2 DEF Holds
  <2>5. QED BY <1>15, <2>3, <2>4
<1>16. CASE \E q \in Processes : Holds(q, i) /\ Working(q, i)
  <2>1. PICK q \in Processes : Holds(q, i) /\ Working(q, i)
    BY <1>16
  <2>2. Ahead(r) /\ Lost(r)
    BY <1>3, <1>13, <2>1 DEF Ahead, Lost, Holds
  <2>3. Late(r)' \subseteq Late(r) \cup {<<q, i>>}
    <3>1. ASSUME NEW x \in Late(r)'
          PROVE  x \in Late(r) \cup {<<q, i>>}
      <4>1. /\ x \in Processes \X RowIds /\ RequestOf[x[2]] = r
            /\ Sending(x[1], x[2])' /\ ~Holds(x[1], x[2])'
        BY <3>1 DEF Late
      <4>2. x[1] \in Processes /\ x[2] \in RowIds /\ x = <<x[1], x[2]>>
        BY <4>1
      <4>3. Sending(x[1], x[2]) /\ (Holds(x[1], x[2]) => x[2] = i)
        BY <1>15, <4>1, <4>2
      <4>4. CASE Holds(x[1], x[2])
        <5>1. x[1] = q /\ x[2] = i
          BY <1>0, <2>1, <4>2, <4>3, <4>4, HolderUnique
        <5>2. QED BY <4>2, <5>1
      <4>5. CASE ~Holds(x[1], x[2])
        BY <4>1, <4>3, <4>5 DEF Late
      <4>6. QED BY <4>4, <4>5
    <3>2. QED BY <3>1
  <2>4. Overtaken(r)
    BY <1>0, <1>11, <1>12, <1>14, <2>2, <2>3 DEF Overtaken
  <2>5. QED BY <1>0, <1>5, <1>7, <1>9, <2>4, CountedUnless
<1>17. CASE \A q \in Processes : Holds(q, i) => ~Working(q, i)
  <2>1. Late(r)' \subseteq Late(r)
    <3>1. ASSUME NEW x \in Late(r)'
          PROVE  x \in Late(r)
      <4>1. /\ x \in Processes \X RowIds /\ RequestOf[x[2]] = r
            /\ Sending(x[1], x[2])' /\ ~Holds(x[1], x[2])'
        BY <3>1 DEF Late
      <4>2. x[1] \in Processes /\ x[2] \in RowIds
        BY <4>1
      <4>3. Sending(x[1], x[2]) /\ (Holds(x[1], x[2]) => x[2] = i)
        BY <1>15, <4>1, <4>2
      <4>4. Working(x[1], x[2])
        BY <4>3 DEF Sending, Working
      <4>5. QED BY <1>17, <4>1, <4>2, <4>3, <4>4 DEF Late
    <3>2. QED BY <3>1
  <2>2. Still(r)
    BY <1>0, <1>11, <1>12, <1>14, <2>1 DEF Still
  <2>3. QED BY <1>0, <1>5, <1>7, <1>9, <2>2, CountedUnless
<1>18. QED BY <1>16, <1>17

-----------------------------------------------------------------------------
(* The steps of a task *)

(* What a step of a task other than a claim does to its row and its task.   *)
LEMMA TaskGoesOn ==
  ASSUME TypeOK, NEW p \in Processes, NEW i \in RowIds,
         \/ UNCHANGED outbox
         \/ \E r \in Requests : outbox' = WithoutUnclaimed(r)
         \/ outbox' = [outbox EXCEPT ![i].stale = FALSE]
  PROVE  /\ UNCHANGED task => GoesOn(p, i)
         /\ Finish(p, i) /\ ~Holds(p, i) => GoesOn(p, i)
         /\ \A d \in BOOLEAN : Sending(p, i) /\ Yield(p, i, d) => GoesOn(p, i)
         /\ \A pc \in TaskStates :
              /\ Goto(p, i, pc)
              /\ pc \in {"started", "admitted"} =>
                   Working(p, i) /\ (Sending(p, i) \/ Holds(p, i))
              /\ pc # "claimed"
              /\ Delivered(p, i) /\ Holds(p, i) => pc = "finalizing"
              => GoesOn(p, i)
<1> DEFINE Row2 == \/ outbox[i].claim = None /\ outbox'[i] = NoRow
                   \/ /\ (outbox'[i].live <=> outbox[i].live)
                      /\ outbox'[i].claim = outbox[i].claim
                      /\ outbox'[i].stale => outbox[i].stale
           Others == \A q \in Processes, j \in RowIds :
                       q # p \/ j # i => task'[q][j] = task[q][j]
<1>1. (\A j \in RowIds : j # i => KeepsRow(j)) /\ Row2
  <2>1. CASE UNCHANGED outbox
    BY <2>1 DEF KeepsRow, SameRow
  <2>2. ASSUME NEW r \in Requests, outbox' = WithoutUnclaimed(r)
        PROVE  (\A j \in RowIds : KeepsRow(j)) /\ Row2
    <3>1. \A j \in RowIds : \/ outbox'[j] = outbox[j]
                            \/ outbox'[j] = NoRow /\ outbox[j].claim = None
      BY <2>2, CancelEffect
    <3>2. QED BY <3>1 DEF KeepsRow, SameRow
  <2>3. CASE outbox' = [outbox EXCEPT ![i].stale = FALSE]
    <3>1. outbox \in [RowIds -> Row] /\ outbox[i] \in Row
      BY DEF TypeOK
    <3>2. /\ \A j \in RowIds : j # i => outbox'[j] = outbox[j]
          /\ outbox'[i] = [outbox[i] EXCEPT !.stale = FALSE]
      BY <2>3, <3>1
    <3>3. LET new == [outbox[i] EXCEPT !.stale = FALSE]
          IN  new.claim = outbox[i].claim /\ ~new.stale /\ new.live = outbox[i].live
      BY <3>1 DEF Row
    <3>4. QED BY <3>2, <3>3 DEF KeepsRow, SameRow
  <2>4. QED BY <2>1, <2>2, <2>3
<1>2. Others => Elsewhere(p, i)
  BY <1>1 DEF Elsewhere
<1>3. UNCHANGED task => GoesOn(p, i)
  BY <1>1, <1>2 DEF GoesOn, Sending, Working, Delivered
<1>4. ASSUME Finish(p, i), ~Holds(p, i)
      PROVE  GoesOn(p, i)
  <2>1. Others /\ task'[p][i] = NoTask
    BY <1>4, FinishEffect
  <2>2. ~Sending(p, i)' /\ ~Working(p, i)' /\ task'[p][i].token = None
    BY <2>1, RecordTypes DEF Sending, Working
  <2>3. QED BY <1>1, <1>2, <1>4, <2>1, <2>2 DEF GoesOn
<1>5. ASSUME NEW d \in BOOLEAN, Sending(p, i), Yield(p, i, d)
      PROVE  GoesOn(p, i)
  <2>1. Others /\ task'[p][i].token = task[p][i].token /\ task'[p][i].pc = "returned"
    BY <1>5, ReturnEffect
  <2>2. ~Sending(p, i)' /\ ~Working(p, i)' /\ ~Delivered(p, i)
    BY <1>5, <2>1 DEF Sending, Working, Delivered
  <2>3. QED BY <1>1, <1>2, <2>1, <2>2 DEF GoesOn
<1>6. ASSUME NEW pc \in TaskStates, Goto(p, i, pc), pc # "claimed",
             pc \in {"started", "admitted"} => Working(p, i) /\ (Sending(p, i) \/ Holds(p, i)),
             Delivered(p, i) /\ Holds(p, i) => pc = "finalizing"
      PROVE  GoesOn(p, i)
  <2>1. Others
    BY <1>6 DEF Goto, TypeOK
  <2>2. /\ task'[p][i].token = task[p][i].token /\ task'[p][i].pc = pc
        /\ task'[p][i].delivered = task[p][i].delivered
    BY <1>6, GotoEffect
  <2>3. Sending(p, i)' => Sending(p, i) \/ Holds(p, i)
    BY <1>6, <2>2 DEF Sending
  <2>4. Working(p, i)' => Working(p, i)
    BY <1>6, <2>2 DEF Working
  <2>5. Delivered(p, i) /\ Holds(p, i) => Delivered(p, i)'
    BY <1>6, <2>2 DEF Delivered
  <2>6. QED BY <1>1, <1>2, <2>1, <2>2, <2>3, <2>4, <2>5 DEF GoesOn
<1>7. QED BY <1>3, <1>4, <1>5, <1>6

(* A task that neither claims nor sends leaves every count as it is.        *)
LEMMA MovesCount ==
  ASSUME ConstantsAssumption, ClaimInv, OneRow, NEW p \in Processes, NEW i \in RowIds,
         GoesOn(p, i) \/ Ends(p, i), UNCHANGED sends,
         \A s \in Requests : s # RequestOf[i] => status'[s] = status[s],
         LET r == RequestOf[i] IN status[r] # "removed" \/ status'[r] = status[r]
  PROVE  OneRow' /\ \A s \in Requests : Counted(s)
<1> DEFINE r == RequestOf[i]
<1>0. ClaimHeldOnce /\ r \in Requests /\ Elsewhere(p, i)
  BY DEF ClaimInv, ConstantsAssumption, GoesOn, Ends
<1>1. OneRow'
  <2>1. \A j \in RowIds : j # i => RowCalm(j)
    BY <1>0, ElsewhereCalm
  <2>2. outbox'[i].live => outbox[i].live
    BY RecordTypes DEF GoesOn, Ends, Holds
  <2>3. \A j \in RowIds : outbox'[j].live => outbox[j].live
    BY <2>1, <2>2 DEF RowCalm
  <2>4. QED BY <2>3, OneRowKept
<1>2. Moved(r)
  <2>1. CASE GoesOn(p, i)
    BY <1>0, <2>1, GoesOnMoves
  <2>2. CASE Ends(p, i)
    BY <1>0, <2>2, EndsMoves
  <2>3. QED BY <2>1, <2>2
<1>3. Still(r)
  BY <1>2, MovedStill
<1>4. \A s \in Requests : s # r => Still(s)
  BY <1>0, OthersStill
<1>5. QED BY <1>1, <1>3, <1>4, CountedStill

(* The steps of a task before and after the delivery.                       *)
LEMMA StepsCount ==
  ASSUME ConstantsAssumption, ClaimInv, OneRow, NEW p \in Processes, NEW i \in RowIds,
         \/ ClaimRefused(p, i) \/ Renew(p, i) \/ RenewLost(p, i) \/ Heartbeat(p, i)
         \/ DeleteDelivered(p, i) \/ Reschedule(p, i) \/ Exhaust(p, i)
         \/ ClaimWasLost(p, i)
  PROVE  /\ OneRow' /\ \A s \in Requests : Counted(s)
         /\ UNCHANGED <<admission, sends>>
         /\ \A q \in Processes, j \in RowIds : Admitted(q, j)' => Admitted(q, j)
         /\ \A s \in Requests : \/ status'[s] = status[s]
                                \/ status[s] = "approved" /\ status'[s] = "failed"
<1> DEFINE r == RequestOf[i]
<1>0. TypeOK /\ {"started", "finalizing", "failing"} \subseteq TaskStates /\ r \in Requests
  BY DEF ClaimInv, TaskStates, ConstantsAssumption
<1>1. UNCHANGED <<admission, sends>>
  BY DEF ClaimRefused, Renew, RenewLost, Heartbeat, DeleteDelivered, Reschedule, Exhaust,
         ClaimWasLost
<1>2. \A s \in Requests : \/ status'[s] = status[s]
                          \/ s = r /\ status[s] = "approved" /\ status'[s] = "failed"
  <2>1. CASE Exhaust(p, i)
    BY <1>0, <2>1 DEF Exhaust, TypeOK
  <2>2. CASE ~Exhaust(p, i)
    BY <2>2 DEF ClaimRefused, Renew, RenewLost, Heartbeat, DeleteDelivered, Reschedule,
                ClaimWasLost
  <2>3. QED BY <2>1, <2>2
<1> SUFFICES /\ OneRow' /\ \A s \in Requests : Counted(s)
             /\ \A q \in Processes, j \in RowIds : Admitted(q, j)' => Admitted(q, j)
  BY <1>1, <1>2
<1> DEFINE Few == \A q \in Processes, j \in RowIds : Admitted(q, j)' => Admitted(q, j)
<1>3. ASSUME Finish(p, i)
      PROVE  Few
  <2>1. \A q \in Processes, j \in RowIds :
          task'[q][j] = IF q = p /\ j = i THEN NoTask ELSE task[q][j]
    BY <1>0, <1>3, FinishEffect
  <2>2. QED BY <2>1, RecordTypes DEF Admitted
<1>4. ASSUME NEW pc \in TaskStates \ {"admitted"}, Goto(p, i, pc)
      PROVE  Few
  <2>1. \A q \in Processes, j \in RowIds :
          task'[q][j].pc = IF q = p /\ j = i THEN pc ELSE task[q][j].pc
    BY <1>0, <1>4, GotoEffect
  <2>2. QED BY <2>1 DEF Admitted
<1>5. ASSUME GoesOn(p, i) \/ Ends(p, i)
      PROVE  OneRow' /\ \A s \in Requests : Counted(s)
  BY <1>1, <1>2, <1>5, MovesCount
<1>a. CASE ClaimRefused(p, i)
  <2>1. UNCHANGED <<outbox, status>> /\ Finish(p, i) /\ task[p][i].pc = "queued"
    BY <1>a DEF ClaimRefused, At
  <2>2. \A q \in Processes, j \in RowIds :
          task'[q][j] = IF q = p /\ j = i THEN NoTask ELSE task[q][j]
    BY <1>0, <2>1, FinishEffect
  <2>3. \A q \in Processes, j \in RowIds : SameTask(q, j)
    BY <2>1, <2>2, RecordTypes DEF SameTask
  <2>4. \A s \in Requests : Still(s)
    BY <1>1, <2>1, <2>3, StillKept DEF KeepsRow, SameRow, RowsOf
  <2>5. OneRow'
    BY <2>1 DEF OneRow
  <2>6. \A s \in Requests : Counted(s)
    BY <2>1, <2>4, CountedStill
  <2>7. QED BY <1>3, <2>1, <2>5, <2>6
<1>b. CASE Renew(p, i)
  <2> DEFINE pc == IF At(p, i, "claimed") THEN "started" ELSE "finalizing"
  <2>1. /\ Goto(p, i, pc) /\ outbox' = [outbox EXCEPT ![i].stale = FALSE]
        /\ pc \in TaskStates \ {"admitted"} /\ pc # "claimed"
    BY <1>0, <1>b DEF Renew
  <2>2. pc \in {"started", "admitted"} => Working(p, i) /\ Holds(p, i)
    BY <1>b DEF Renew, At, Working
  <2>3. Delivered(p, i) => pc = "finalizing"
    BY DEF Delivered, At
  <2> HIDE DEF pc
  <2>4. GoesOn(p, i)
    BY <1>0, <2>1, <2>2, <2>3, TaskGoesOn
  <2>5. Few
    BY <1>4, <2>1
  <2>6. QED BY <1>5, <2>4, <2>5
<1>c. CASE RenewLost(p, i)
  <2>1. Goto(p, i, "failing") /\ UNCHANGED outbox /\ ~Holds(p, i)
    BY <1>c DEF RenewLost
  <2>2. GoesOn(p, i)
    BY <1>0, <2>1, TaskGoesOn
  <2>3. Few
    BY <1>0, <1>4, <2>1
  <2>4. QED BY <1>5, <2>2, <2>3
<1>d. CASE Heartbeat(p, i)
  <2>1. UNCHANGED task /\ outbox' = [outbox EXCEPT ![i].stale = FALSE]
    BY <1>d DEF Heartbeat
  <2>2. GoesOn(p, i)
    BY <1>0, <2>1, TaskGoesOn
  <2>3. Few
    BY <2>1 DEF Admitted
  <2>4. QED BY <1>5, <2>2, <2>3
<1>e. CASE DeleteDelivered(p, i) \/ Reschedule(p, i) \/ Exhaust(p, i)
  <2> DEFINE row == [NewRow EXCEPT !.attempts = AttemptsMade(p, i), !.due = FALSE]
  <2>1. Finish(p, i) /\ Holds(p, i)
    BY <1>e DEF DeleteDelivered, Reschedule, Exhaust
  <2>2. ~Working(p, i)
    BY <1>e DEF DeleteDelivered, Reschedule, Exhaust, Failing, At, Working
  <2>3. Reschedule(p, i) => ~Delivered(p, i) /\ outbox' = [outbox EXCEPT ![i] = row]
    BY DEF Reschedule, Failing, At, Delivered
  <2>4. ~Reschedule(p, i) => outbox' = [outbox EXCEPT ![i] = NoRow]
    BY <1>e DEF DeleteDelivered, Exhaust
  <2>5. row.claim = None /\ ~row.stale
    BY DEF NewRow, NoRow
  <2> HIDE DEF row
  <2>6. /\ \A j \in RowIds : j # i => outbox'[j] = outbox[j]
        /\ \/ outbox'[i] = NoRow
           \/ outbox'[i].claim = None /\ ~outbox'[i].stale /\ ~Delivered(p, i)
    BY <1>0, <2>3, <2>4, <2>5 DEF TypeOK
  <2>7. \A q \in Processes, j \in RowIds :
          task'[q][j] = IF q = p /\ j = i THEN NoTask ELSE task[q][j]
    BY <1>0, <2>1, FinishEffect
  <2>8. Elsewhere(p, i)
    BY <2>6, <2>7 DEF Elsewhere, KeepsRow, SameRow
  <2>9. Ends(p, i)
    BY <2>1, <2>2, <2>6, <2>7, <2>8 DEF Ends
  <2>10. Few
    BY <1>3, <2>1
  <2>11. QED BY <1>5, <2>9, <2>10
<1>f. CASE ClaimWasLost(p, i)
  <2>1. UNCHANGED outbox /\ ~Holds(p, i) /\ (Goto(p, i, "failing") \/ Finish(p, i))
    BY <1>f DEF ClaimWasLost
  <2>2. GoesOn(p, i)
    BY <1>0, <2>1, TaskGoesOn
  <2>3. Few
    BY <1>0, <1>3, <1>4, <2>1
  <2>4. QED BY <1>5, <2>2, <2>3
<1>z. QED BY <1>a, <1>b, <1>c, <1>d, <1>e, <1>f

(* The steps of a task with the admission of its request.                   *)
LEMMA AdmissionCounts ==
  ASSUME ConstantsAssumption, ClaimInv, OneRow, LocksExact, AllStaged,
         NEW p \in Processes, NEW i \in RowIds,
         Admit(p, i) \/ NothingToDo(p, i)
  PROVE  /\ OneRow' /\ LocksExact' /\ Stages
         /\ \A s \in Requests : Counted(s)
<1> DEFINE r == RequestOf[i]
<1>0. /\ TypeOK /\ r \in Requests /\ Staged(r) /\ {"admitted"} \subseteq TaskStates
      /\ task[p][i].pc = "started" /\ Sending(p, i) /\ Idle(r)
      /\ UNCHANGED <<status, outbox, sends>>
  BY DEF ClaimInv, ConstantsAssumption, AllStaged, TaskStates, Admit, NothingToDo, At, Sending
<1>1. Working(p, i) /\ ~Delivered(p, i)
  BY <1>0 DEF Working, Delivered
<1>2. ASSUME GoesOn(p, i)
      PROVE  OneRow' /\ \A s \in Requests : Counted(s)
  BY <1>0, <1>2, MovesCount
<1>3. admission[r].step = "free"
  BY <1>0, RecordTypes DEF Idle
<1>4. \A q \in Processes, j \in RowIds : Admitted(q, j) => RequestOf[j] # r
  BY <1>3, LockFree
<1>a. CASE Admit(p, i)
  <2>1. Goto(p, i, "admitted") /\ Take(p, r, "dispatch") /\ Dispatchable(r)
    BY <1>a DEF Admit
  <2>2. GoesOn(p, i)
    BY <1>0, <1>1, <2>1, TaskGoesOn
  <2>3. /\ admission'[r] = [proc |-> p, step |-> "dispatch"]
        /\ \A s \in Requests : s # r => admission'[s] = admission[s]
    BY <1>0, <2>1 DEF Take, TypeOK
  <2>4. \A q \in Processes, j \in RowIds :
          task'[q][j].pc = IF q = p /\ j = i THEN "admitted" ELSE task[q][j].pc
    BY <1>0, <2>1, GotoEffect
  <2>5. LocksExact'
    <3>1. \A q \in Processes, j \in RowIds :
            Admitted(q, j)' => \/ q = p /\ j = i
                               \/ Admitted(q, j) /\ RequestOf[j] # r
      BY <1>4, <2>4 DEF Admitted
    <3>2. \A j \in RowIds : RequestOf[j] # r => admission'[RequestOf[j]] = admission[RequestOf[j]]
      BY <2>3 DEF ConstantsAssumption
    <3>3. ASSUME NEW q \in Processes, NEW j \in RowIds, Admitted(q, j)'
          PROVE  admission'[RequestOf[j]] = [proc |-> q, step |-> "dispatch"]
      BY <2>3, <3>1, <3>2, <3>3 DEF LocksExact
    <3>4. ASSUME NEW q \in Processes, NEW j \in RowIds, Admitted(q, j)',
                 NEW u \in Processes, NEW k \in RowIds, Admitted(u, k)',
                 RequestOf[k] = RequestOf[j]
          PROVE  u = q /\ k = j
      <4>1. CASE q = p /\ j = i
        BY <3>1, <3>4, <4>1
      <4>2. CASE u = p /\ k = i
        BY <3>1, <3>4, <4>2
      <4>3. CASE ~(q = p /\ j = i) /\ ~(u = p /\ k = i)
        <5>1. Admitted(q, j) /\ Admitted(u, k)
          BY <3>1, <3>4, <4>3
        <5>2. QED BY <3>4, <5>1 DEF LocksExact
      <4>4. QED BY <4>1, <4>2, <4>3
    <3>5. QED BY <3>3, <3>4 DEF LocksExact
  <2>6. Staged(r)' /\ Owing(r) /\ Alone(r)
    BY <1>0, <2>1, <2>3 DEF Staged, Owing, Unsettled, Alone, Dispatchable
  <2>7. QED BY <1>0, <1>2, <2>2, <2>5, <2>6, StagedAlone
<1>b. CASE NothingToDo(p, i)
  <2>1. Yield(p, i, TRUE) /\ UNCHANGED admission
    BY <1>b DEF NothingToDo
  <2>2. GoesOn(p, i)
    BY <1>0, <2>1, TaskGoesOn
  <2>3. ASSUME NEW d \in BOOLEAN, Yield(p, i, d)
        PROVE  \A q \in Processes, j \in RowIds : Admitted(q, j)' => Admitted(q, j)
    <3>1. /\ task'[p][i].pc = "returned"
          /\ \A q \in Processes, j \in RowIds : q # p \/ j # i => task'[q][j] = task[q][j]
      BY <1>0, <2>3, ReturnEffect
    <3>2. QED BY <3>1 DEF Admitted
  <2>4. LocksExact'
    BY <2>1, <2>3, LocksKept
  <2>5. Stages
    BY <1>0, <2>1 DEF Stages, AllStaged, Staged, Owing, Unsettled
  <2>6. QED BY <1>2, <2>2, <2>4, <2>5
<1>z. QED BY <1>a, <1>b

(* The service accepts a request from its holder or from a task that has    *)
(* lost its claim, and the task knows it or not.                            *)
LEMMA AcceptanceSends ==
  ASSUME ConstantsAssumption, ClaimInv, OneRow, NEW p \in Processes, NEW i \in RowIds,
         Admitted(p, i), GoesOn(p, i), task'[p][i].pc \in {"returned", "failing"},
         sends' = [sends EXCEPT ![RequestOf[i]] = @ + 1],
         \/ task'[p][i].pc = "returned" /\ task'[p][i].delivered
         \/ faults' = faults + 1
  PROVE  Sent(RequestOf[i]) \/ Broken(RequestOf[i])
<1> DEFINE r == RequestOf[i]
<1>0. TypeOK /\ ClaimHeldOnce /\ r \in Requests /\ i \in RowsOf(r)
  BY DEF ClaimInv, ConstantsAssumption, RowsOf
<1>1. Sending(p, i) /\ Working(p, i)
  BY DEF Admitted, Sending, Working
<1>3. /\ ~Sending(p, i)' /\ ~Working(p, i)'
      /\ Delivered(p, i)' \/ faults' = faults + 1
  BY DEF Sending, Working, Delivered
<1>4. /\ Moved(r) /\ ((Again(r)' => Again(r)) \/ faults' = faults + 1)
      /\ Holds(p, i) => ~Ahead(r)'
      /\ Late(r)' \subseteq Late(r) \ {<<p, i>>}
  BY <1>0, <1>3, GoesOnMoves
<1>5. sends'[r] = sends[r] + 1
  BY <1>0 DEF TypeOK
<1>6. CASE Holds(p, i)
  <2>1. Ahead(r)
    BY <1>0, <1>1, <1>6 DEF Ahead
  <2>2. QED BY <1>4, <1>5, <1>6, <2>1 DEF Sent, Broken, Moved
<1>7. CASE ~Holds(p, i)
  <2>1. <<p, i>> \in Late(r)
    BY <1>0, <1>1, <1>7 DEF Late
  <2>2. QED BY <1>4, <1>5, <2>1 DEF Sent, Broken, Moved
<1>8. QED BY <1>6, <1>7

LEMMA DeliveryCounts ==
  ASSUME ConstantsAssumption, ClaimInv, OneRow, LocksExact, AllStaged,
         NEW p \in Processes, NEW i \in RowIds, Deliver(p, i)
  PROVE  /\ OneRow' /\ LocksExact' /\ Stages
         /\ \A s \in Requests : Counted(s)
<1> DEFINE r == RequestOf[i]
<1>0. TypeOK /\ r \in Requests /\ Staged(r) /\ "failing" \in TaskStates
  BY DEF ClaimInv, ConstantsAssumption, AllStaged, TaskStates
<1>1. task[p][i].pc = "admitted" /\ Admitted(p, i) /\ Sending(p, i) /\ Working(p, i)
  BY DEF Deliver, SendAccepted, AlreadyAvailable, NoRelease, SendFailed, SendDeferred,
         SendThrows, Return, At, Admitted, Sending, Working
<1>2. ~Delivered(p, i) /\ admission[r].step = "dispatch"
  BY <1>1, LockFree DEF Delivered
<1>3. status[r] # "removed" /\ (r \in Books => Unsettled(r))
  BY <1>0, <1>2 DEF Staged, Unsettled
<1>4. Release(r) /\ (Goto(p, i, "failing") \/ \E d \in BOOLEAN : Yield(p, i, d))
  BY DEF Deliver, SendAccepted, AlreadyAvailable, NoRelease, SendFailed, SendDeferred,
         SendThrows, Return
<1>5. UNCHANGED outbox \/ outbox' = WithoutUnclaimed(r)
  BY DEF Deliver, SendAccepted, AlreadyAvailable, NoRelease, SendFailed, SendDeferred,
         SendThrows
<1>6. GoesOn(p, i)
  BY <1>0, <1>1, <1>2, <1>4, <1>5, TaskGoesOn
<1>7. admission'[r].step = "free" /\ \A s \in Requests : s # r => admission'[s] = admission[s]
  BY <1>0, <1>4, RecordTypes DEF Release, TypeOK
<1>8. \A q \in Processes, j \in RowIds :
        Admitted(q, j)' => Admitted(q, j) /\ ~(q = p /\ j = i)
  <2>1. CASE Goto(p, i, "failing")
    <3>1. \A q \in Processes, j \in RowIds :
            task'[q][j].pc = IF q = p /\ j = i THEN "failing" ELSE task[q][j].pc
      BY <1>0, <2>1, GotoEffect
    <3>2. QED BY <3>1 DEF Admitted
  <2>2. ASSUME NEW d \in BOOLEAN, Yield(p, i, d)
        PROVE  \A q \in Processes, j \in RowIds :
                 Admitted(q, j)' => Admitted(q, j) /\ ~(q = p /\ j = i)
    <3>1. /\ task'[p][i].pc = "returned"
          /\ \A q \in Processes, j \in RowIds : q # p \/ j # i => task'[q][j] = task[q][j]
      BY <1>0, <2>2, ReturnEffect
    <3>2. QED BY <3>1 DEF Admitted
  <2>3. QED BY <1>4, <2>1, <2>2
<1>9. LocksExact'
  <2>1. \A q \in Processes, j \in RowIds : Admitted(q, j)' => RequestOf[j] # r
    BY <1>1, <1>8 DEF LocksExact
  <2>2. \A j \in RowIds : RequestOf[j] # r => admission'[RequestOf[j]] = admission[RequestOf[j]]
    BY <1>7 DEF ConstantsAssumption
  <2>3. QED BY <1>8, <2>1, <2>2, LocksKept
<1>10. /\ \A s \in Requests : s # r => status'[s] = status[s] /\ sends'[s] = sends[s]
       /\ status'[r] = status[r] \/ status'[r] \in {"completed", "failed"}
       /\ \/ UNCHANGED sends
          \/ /\ sends' = [sends EXCEPT ![r] = @ + 1]
             /\ \/ Yield(p, i, TRUE) /\ (r \in Books => status'[r] = "completed")
                \/ faults' = faults + 1
  <2>1. CASE SendAccepted(p, i)
    BY <1>0, <2>1 DEF SendAccepted, Return, TypeOK
  <2>2. CASE AlreadyAvailable(p, i) \/ NoRelease(p, i)
    BY <1>0, <2>2 DEF AlreadyAvailable, NoRelease, TypeOK
  <2>3. CASE SendFailed(p, i) \/ SendDeferred(p, i) \/ SendThrows(p, i)
    <3>1. PerhapsAccepted(r)
      BY <2>3 DEF SendFailed, SendDeferred, SendThrows
    <3>2. /\ \A s \in Requests : s # r => sends'[s] = sends[s]
          /\ \/ UNCHANGED sends
             \/ faults' = faults + 1 /\ sends' = [sends EXCEPT ![r] = @ + 1]
      BY <1>0, <3>1, AcceptanceBilled
    <3>3. status' = status \/ status' = [status EXCEPT ![r] = "failed"]
      BY <2>3 DEF SendFailed, SendDeferred, SendThrows
    <3>4. QED BY <1>0, <3>2, <3>3 DEF TypeOK
  <2>4. QED BY <2>1, <2>2, <2>3 DEF Deliver
<1>11. Stages
  <2>1. Alone(r)
    BY <1>7, <1>10 DEF Alone
  <2>2. Staged(r)'
    BY <1>3, <1>7, <1>10 DEF Staged
  <2>3. Owing(r)
    BY <1>3, <1>7, <1>10 DEF Owing, Unsettled
  <2>4. QED BY <1>0, <2>1, <2>2, <2>3, StagedAlone
<1>12. CASE UNCHANGED sends
  BY <1>3, <1>6, <1>9, <1>10, <1>11, <1>12, MovesCount
<1>13. CASE /\ sends' = [sends EXCEPT ![r] = @ + 1]
            /\ Yield(p, i, TRUE) \/ faults' = faults + 1
  <2>1. /\ task'[p][i].pc \in {"returned", "failing"}
        /\ \/ task'[p][i].pc = "returned" /\ task'[p][i].delivered
           \/ faults' = faults + 1
    <3>1. Yield(p, i, TRUE) => task'[p][i].pc = "returned" /\ task'[p][i].delivered
      BY <1>0, ReturnEffect
    <3>2. Goto(p, i, "failing") => task'[p][i].pc = "failing"
      BY <1>0, GotoEffect
    <3>3. (\E d \in BOOLEAN : Yield(p, i, d)) => task'[p][i].pc = "returned"
      BY <1>0, ReturnEffect
    <3>4. QED BY <1>4, <1>13, <3>1, <3>2, <3>3
  <2>2. Sent(r) \/ Broken(r)
    BY <1>1, <1>6, <1>13, <2>1, AcceptanceSends
  <2>3. \A s \in Requests : s # r => Still(s)
    BY <1>6, <1>10, OthersStill DEF GoesOn
  <2>4. \A j \in RowIds : outbox'[j].live => outbox[j].live
    <3>1. \A j \in RowIds : outbox'[j] = outbox[j] \/ outbox'[j] = NoRow
      BY <1>0, <1>5, CancelEffect
    <3>2. QED BY <3>1, RecordTypes
  <2>5. OneRow'
    BY <2>4, OneRowKept
  <2>6. \A s \in Requests : Counted(s)
    BY <1>3, <1>10, <2>2, <2>3, CountedStill DEF Counted
  <2>7. QED BY <1>9, <1>11, <2>5, <2>6
<1>14. QED BY <1>10, <1>12, <1>13

LEMMA WorkerCounts ==
  ASSUME ConstantsAssumption, ClaimInv, OneRow, LocksExact, AllStaged,
         NEW p \in Processes, NEW i \in RowIds, Worker(p, i)
  PROVE  /\ OneRow' /\ LocksExact' /\ Stages
         /\ \A s \in Requests : Counted(s)
<1>1. CASE Claim(p, i)
  <2>1. UNCHANGED <<status, sends, admission>> /\ TypeOK
    BY <1>1 DEF Claim, ClaimInv
  <2>2. OneRow' /\ \A s \in Requests : Counted(s)
    BY <1>1, ClaimCounts
  <2>3. \A q \in Processes, j \in RowIds : Admitted(q, j)' => Admitted(q, j)
    <3>1. PICK t \in Tokens : Own(p, i, t)
      BY <1>1 DEF Claim, UnusedTokens
    <3>2. /\ task'[p][i].pc = "claimed"
          /\ \A q \in Processes, j \in RowIds : q # p \/ j # i => task'[q][j] = task[q][j]
      BY <2>1, <3>1, ClaimEffect
    <3>3. QED BY <3>2 DEF Admitted
  <2>4. LocksExact'
    BY <2>1, <2>3, LocksKept
  <2>5. Stages
    BY <2>1 DEF Stages, AllStaged, Staged, Owing, Unsettled
  <2>6. QED BY <2>2, <2>4, <2>5
<1>2. CASE \/ ClaimRefused(p, i) \/ Renew(p, i) \/ RenewLost(p, i) \/ Heartbeat(p, i)
           \/ DeleteDelivered(p, i) \/ Reschedule(p, i) \/ Exhaust(p, i)
           \/ ClaimWasLost(p, i)
  <2>1. /\ OneRow' /\ \A s \in Requests : Counted(s)
        /\ UNCHANGED <<admission, sends>>
        /\ \A q \in Processes, j \in RowIds : Admitted(q, j)' => Admitted(q, j)
        /\ \A s \in Requests : \/ status'[s] = status[s]
                               \/ status[s] = "approved" /\ status'[s] = "failed"
    BY <1>2, StepsCount
  <2>2. LocksExact'
    BY <2>1, LocksKept
  <2>3. Stages
    BY <2>1 DEF Stages, AllStaged, Staged, Owing, Unsettled
  <2>4. QED BY <2>1, <2>2, <2>3
<1>3. CASE Admit(p, i) \/ NothingToDo(p, i)
  BY <1>3, AdmissionCounts
<1>4. CASE Deliver(p, i)
  BY <1>4, DeliveryCounts
<1>5. QED BY <1>1, <1>2, <1>3, <1>4 DEF Worker, Proceed

-----------------------------------------------------------------------------
(* Scans, time and faults *)

LEMMA ScansCount ==
  ASSUME ConstantsAssumption, ClaimInv, OneRow, LocksExact, AllStaged,
         \/ \E p \in Processes : ScanRead(p) \/ ScanDispatch(p)
         \/ \E i \in RowIds : BackoffElapses(i)
         \/ UNCHANGED vars
  PROVE  /\ OneRow' /\ LocksExact' /\ Stages
         /\ \A s \in Requests : Counted(s)
<1>0. TypeOK /\ UNCHANGED <<status, sends, admission>>
  BY DEF ClaimInv, ScanRead, ScanDispatch, BackoffElapses, vars
<1>1. \A j \in RowIds : SameRow(j)
  <2>1. CASE UNCHANGED outbox
    BY <2>1 DEF SameRow
  <2>2. ASSUME NEW i \in RowIds, BackoffElapses(i)
        PROVE  \A j \in RowIds : SameRow(j)
    <3>1. outbox \in [RowIds -> Row] /\ outbox' = [outbox EXCEPT ![i].due = TRUE]
      BY <1>0, <2>2 DEF TypeOK, BackoffElapses
    <3>2. \A j \in RowIds : outbox'[j] = IF j = i THEN [outbox[j] EXCEPT !.due = TRUE]
                                                  ELSE outbox[j]
      BY <3>1
    <3>3. LET new == [outbox[i] EXCEPT !.due = TRUE]
          IN  /\ new.claim = outbox[i].claim /\ new.stale = outbox[i].stale
              /\ new.live = outbox[i].live
      BY <3>1 DEF Row
    <3>4. QED BY <3>2, <3>3 DEF SameRow
  <2>3. QED BY <2>1, <2>2 DEF ScanRead, ScanDispatch, vars
<1>2. \A q \in Processes, j \in RowIds : SameTask(q, j)
  <2>1. CASE UNCHANGED task
    BY <2>1 DEF SameTask
  <2>2. ASSUME NEW p \in Processes, ScanDispatch(p)
        PROVE  \A q \in Processes, j \in RowIds : SameTask(q, j)
    <3>1. Dispatch(p, scan[p]) /\ scan[p] \in [RowIds -> Snapshot]
      BY <1>0, <2>2 DEF ScanDispatch, TypeOK
    <3>2. \A q \in Processes, j \in RowIds :
            \/ task'[q][j] = task[q][j]
            \/ task[q][j].pc = "none" /\ task'[q][j].pc = "queued" /\ task'[q][j].token = None
      BY <1>0, <3>1, DispatchEffect
    <3>3. QED BY <3>2 DEF SameTask
  <2>3. QED BY <2>1, <2>2 DEF ScanRead, BackoffElapses, vars
<1>3. \A s \in Requests : Counted(s)
  <2>1. \A s \in Requests : Still(s)
    BY <1>0, <1>1, <1>2, StillKept DEF KeepsRow, RowsOf
  <2>2. QED BY <1>0, <2>1, CountedStill
<1>4. OneRow'
  BY <1>1, OneRowKept DEF SameRow
<1>5. LocksExact'
  <2>1. \A q \in Processes, j \in RowIds : Admitted(q, j)' => Admitted(q, j)
    BY <1>2 DEF SameTask, Admitted
  <2>2. QED BY <1>0, <2>1, LocksKept
<1>6. Stages
  BY <1>0 DEF Stages, AllStaged, Staged, Owing, Unsettled
<1>7. QED BY <1>3, <1>4, <1>5, <1>6

(* A lease that runs out leaves the row to another: it was left already if  *)
(* nobody held it, and is the work of a fault otherwise.                    *)
LEMMA LeasesCount ==
  ASSUME ConstantsAssumption, ClaimInv, OneRow, LocksExact, AllStaged,
         NEW i \in RowIds, LeaseExpires(i) \/ LeaseLost(i)
  PROVE  /\ OneRow' /\ LocksExact' /\ Stages
         /\ \A s \in Requests : Counted(s)
<1>0. /\ TypeOK /\ AbsentRowsEmpty /\ UNCHANGED <<status, sends, admission, task>>
      /\ outbox[i].claim # None /\ outbox' = [outbox EXCEPT ![i].stale = TRUE]
  BY DEF ClaimInv, LeaseExpires, LeaseLost, Lapse
<1>1. /\ \A j \in RowIds : j # i => outbox'[j] = outbox[j]
      /\ outbox'[i].claim = outbox[i].claim /\ outbox'[i].live = outbox[i].live
  <2>1. outbox \in [RowIds -> Row] /\ outbox[i] \in Row
    BY <1>0 DEF TypeOK
  <2>2. LET new == [outbox[i] EXCEPT !.stale = TRUE]
        IN  new.claim = outbox[i].claim /\ new.live = outbox[i].live
    BY <2>1 DEF Row
  <2>3. QED BY <1>0, <2>1, <2>2
<1>2. OneRow'
  BY <1>1, OneRowKept
<1>3. LocksExact' /\ Stages
  BY <1>0, LocksKept DEF Admitted, Stages, AllStaged, Staged, Owing, Unsettled
<1>4. ASSUME NEW q \in Processes, NEW j \in RowIds
      PROVE  TaskCalm(q, j)
  <2>1. Holds(q, j)' <=> Holds(q, j)
    BY <1>0, <1>1 DEF Holds
  <2>2. (Sending(q, j)' <=> Sending(q, j)) /\ (Working(q, j)' <=> Working(q, j))
    BY <1>0 DEF Sending, Working
  <2>3. QED BY <2>1, <2>2 DEF TaskCalm
<1>5. \A s \in Requests : Late(s)' \subseteq Late(s) /\ (Ahead(s)' => Ahead(s))
  BY <1>4, TasksCalm DEF RowsOf
<1>6. CASE LeaseLost(i)
  <2>1. faults' = faults + 1
    BY <1>6 DEF LeaseLost, Fault
  <2>2. \A s \in Requests : Faulted(s)
    BY <1>0, <1>5, <2>1 DEF Faulted
  <2>3. QED BY <1>0, <1>2, <1>3, <2>2, CountedUnless
<1>7. CASE LeaseExpires(i)
  <2>1. \A q \in Processes : ~Holds(q, i)
    BY <1>7 DEF LeaseExpires, Orphaned
  <2>2. ASSUME NEW s \in Requests
        PROVE  Still(s)
    <3>1. Lost(s)' => Lost(s)
      <4>1. ASSUME NEW q \in Processes, NEW j \in RowsOf(s), Holds(q, j)', outbox'[j].stale
            PROVE  Holds(q, j) /\ outbox[j].stale
        <5>1. j \in RowIds
          BY DEF RowsOf
        <5>2. Holds(q, j)
          BY <1>4, <4>1, <5>1 DEF TaskCalm
        <5>3. j # i
          BY <2>1, <5>2
        <5>4. QED BY <1>1, <4>1, <5>1, <5>2, <5>3
      <4>2. QED BY <4>1 DEF Lost, RowsOf
    <3>2. Again(s)' => Again(s)
      <4>1. CASE RequestOf[i] = s
        <5>1. outbox[i].live
          BY <1>0, RecordTypes DEF AbsentRowsEmpty
        <5>2. i \in RowsOf(s) /\ \A q \in Processes : ~Settles(q, i)
          BY <2>1, <4>1 DEF RowsOf, Settles
        <5>3. QED BY <5>1, <5>2 DEF Again
      <4>2. CASE RequestOf[i] # s
        <5>1. \A j \in RowsOf(s) : outbox'[j] = outbox[j]
          BY <1>1, <4>2 DEF RowsOf
        <5>2. \A q \in Processes, j \in RowsOf(s) : Settles(q, j)' <=> Settles(q, j)
          BY <1>0, <5>1 DEF Settles, Holds, Working, Delivered
        <5>3. QED BY <5>1, <5>2 DEF Again, RowsOf
      <4>3. QED BY <4>1, <4>2
    <3>3. QED BY <1>0, <1>5, <3>1, <3>2 DEF Still
  <2>3. QED BY <1>0, <1>2, <1>3, <2>2, CountedUnless
<1>8. QED BY <1>6, <1>7

LEMMA FaultsCount ==
  ASSUME ConstantsAssumption, ClaimInv, OneRow, LocksExact, AllStaged,
         \/ \E p \in Processes : Crash(p)
         \/ \E p \in Processes, i \in RowIds : DatabaseError(p, i)
  PROVE  /\ OneRow' /\ LocksExact' /\ Stages
         /\ \A s \in Requests : Counted(s)
<1>0. /\ TypeOK /\ "failing" \in TaskStates /\ UNCHANGED <<status, outbox>>
      /\ faults' = faults + 1
  BY DEF ClaimInv, TaskStates, Crash, DatabaseError, Fault
<1>1. ASSUME NEW q \in Processes, NEW j \in RowIds,
             \/ task'[q][j] = task[q][j]
             \/ /\ task'[q][j].pc \in {"none", "failing"}
                /\ task'[q][j].token \in {None, task[q][j].token}
      PROVE  TaskCalm(q, j) /\ (Admitted(q, j)' => Admitted(q, j))
  <2>1. Holds(q, j)' => Holds(q, j)
    BY <1>0, <1>1 DEF Holds
  <2>2. CASE task'[q][j] = task[q][j]
    BY <1>0, <2>1, <2>2 DEF TaskCalm, Holds, Sending, Working, Admitted
  <2>3. CASE task'[q][j].pc \in {"none", "failing"}
    BY <2>1, <2>3 DEF TaskCalm, Sending, Working, Admitted
  <2>4. QED BY <1>1, <2>2, <2>3
<1>2. OneRow'
  BY <1>0 DEF OneRow
<1>3. ASSUME \A q \in Processes, j \in RowIds : TaskCalm(q, j)
      PROVE  \A s \in Requests : sends'[s] = sends[s] => Counted(s)
  <2>1. \A s \in Requests : Late(s)' \subseteq Late(s) /\ (Ahead(s)' => Ahead(s))
    BY <1>3, TasksCalm DEF RowsOf
  <2>2. \A s \in Requests : sends'[s] = sends[s] => Faulted(s)
    BY <1>0, <2>1 DEF Faulted
  <2>3. QED BY <1>0, <2>2, CountedUnless
<1>4. ASSUME NEW p \in Processes, Crash(p)
      PROVE  LocksExact' /\ Stages /\ \A s \in Requests : Counted(s)
  <2>1. /\ \A q \in Processes, j \in RowIds :
             task'[q][j] = IF q = p THEN NoTask ELSE task[q][j]
        /\ \A s \in Requests :
             admission'[s] = IF admission[s].proc = p THEN Free ELSE admission[s]
    BY <1>0, <1>4 DEF Crash, TypeOK
  <2>2. \A q \in Processes, j \in RowIds : TaskCalm(q, j) /\ (Admitted(q, j)' => Admitted(q, j))
    BY <1>1, <2>1, RecordTypes
  <2>3. ASSUME NEW q \in Processes, NEW j \in RowIds, Admitted(q, j)'
        PROVE  admission'[RequestOf[j]] = admission[RequestOf[j]]
    <3>1. q # p /\ Admitted(q, j)
      BY <2>1, <2>2, <2>3, RecordTypes DEF Admitted
    <3>2. admission[RequestOf[j]].proc = q
      BY <3>1, LockFree
    <3>3. QED BY <2>1, <3>1, <3>2 DEF ConstantsAssumption
  <2>4. LocksExact'
    BY <2>2, <2>3, LocksKept
  <2>6. ASSUME NEW s \in Requests, sends'[s] # sends[s]
        PROVE  /\ sends'[s] = sends[s] + 1 /\ admission[s].step = "dispatch"
               /\ \E i \in RowIds : RequestOf[i] = s /\ Admitted(p, i)
    <3>1. \E i \in RowIds : RequestOf[i] = s /\ At(p, i, "admitted")
      BY <1>4, <2>6 DEF Crash
    <3>2. sends'[s] = sends[s] + 1
      BY <1>4, <2>6 DEF Crash
    <3>3. QED BY <3>1, <3>2, LockFree DEF At, Admitted
  <2>7. ASSUME NEW s \in Requests, sends'[s] # sends[s]
        PROVE  Broken(s) /\ status[s] # "removed"
    <3>1. PICK i \in RowIds : RequestOf[i] = s /\ Admitted(p, i)
      BY <2>6, <2>7
    <3>2. status[s] # "removed"
      BY <2>6, <2>7 DEF AllStaged, Staged
    <3>3. /\ Late(s)' \subseteq Late(s) /\ (Ahead(s)' => Ahead(s))
      BY <2>2, TasksCalm DEF RowsOf
    <3>4. Lost(s)' => Lost(s)
      <4>1. ASSUME NEW q \in Processes, NEW j \in RowIds, Holds(q, j)'
            PROVE  Holds(q, j)
        BY <2>2, <4>1 DEF TaskCalm
      <4>2. QED BY <1>0, <4>1 DEF Lost, RowsOf
    <3>5. Sending(p, i) /\ Working(p, i) /\ i \in RowsOf(s)
      BY <3>1 DEF Admitted, Sending, Working, RowsOf
    <3>6. CASE Holds(p, i)
      <4>1. Ahead(s)
        BY <3>5, <3>6 DEF Ahead
      <4>2. ASSUME NEW q \in Processes, NEW j \in RowsOf(s), Holds(q, j)', Working(q, j)'
            PROVE  FALSE
        <5>1. j \in RowIds /\ RequestOf[j] = s
          BY DEF RowsOf
        <5>2. Holds(q, j) /\ outbox[j].live /\ outbox[i].live
          BY <2>2, <3>6, <4>2, <5>1 DEF TaskCalm, Holds
        <5>3. j = i
          BY <3>1, <5>1, <5>2 DEF OneRow
        <5>4. q = p
          BY <3>6, <5>2, <5>3, HolderUnique DEF ClaimInv
        <5>5. QED BY <2>1, <4>2, <5>1, <5>4, RecordTypes DEF Working
      <4>3. ~Ahead(s)'
        BY <4>2 DEF Ahead, RowsOf
      <4>4. QED BY <1>0, <2>6, <2>7, <3>2, <3>3, <3>4, <4>1, <4>3 DEF Broken
    <3>7. CASE ~Holds(p, i)
      <4>1. <<p, i>> \in Late(s)
        BY <3>1, <3>5, <3>7 DEF Late
      <4>2. ~Sending(p, i)'
        BY <2>1, RecordTypes DEF Sending
      <4>3. <<p, i>> \notin Late(s)'
        BY <4>2 DEF Late
      <4>4. QED BY <1>0, <2>6, <2>7, <3>2, <3>3, <3>4, <4>1, <4>3 DEF Broken
    <3>8. QED BY <3>6, <3>7
  <2>5. Stages
    <3>1. \A s \in Requests : admission'[s] = admission[s] \/ admission'[s].step = "free"
      BY <2>1, RecordTypes
    <3>2. \A s \in Requests : admission[s].step = "saved" => sends'[s] = sends[s]
      BY <2>6
    <3>3. AllStaged'
      BY <1>0, <3>1, <3>2 DEF AllStaged, Staged
    <3>4. \A s \in Requests : Owing(s)
      BY <1>0, <3>1 DEF Owing, Unsettled
    <3>5. QED BY <3>3, <3>4 DEF Stages
  <2>8. \A s \in Requests : Counted(s)
    BY <1>0, <1>3, <2>2, <2>7 DEF Counted
  <2>9. QED BY <2>4, <2>5, <2>8
<1>5. ASSUME NEW p \in Processes, NEW i \in RowIds, DatabaseError(p, i)
      PROVE  LocksExact' /\ Stages /\ \A s \in Requests : Counted(s)
  <2>1. UNCHANGED <<admission, sends>> /\ (Finish(p, i) \/ Goto(p, i, "failing"))
    BY <1>5 DEF DatabaseError
  <2>2. ASSUME NEW q \in Processes, NEW j \in RowIds
        PROVE  \/ task'[q][j] = task[q][j]
               \/ /\ task'[q][j].pc \in {"none", "failing"}
                  /\ task'[q][j].token \in {None, task[q][j].token}
    <3>1. CASE Finish(p, i)
      <4>1. task'[q][j] = IF q = p /\ j = i THEN NoTask ELSE task[q][j]
        BY <1>0, <3>1, FinishEffect
      <4>2. QED BY <4>1, RecordTypes
    <3>2. CASE Goto(p, i, "failing")
      <4>1. /\ task'[q][j].token = task[q][j].token
            /\ task'[q][j].pc = IF q = p /\ j = i THEN "failing" ELSE task[q][j].pc
        BY <1>0, <3>2, GotoEffect
      <4>2. q # p \/ j # i => task'[q][j] = task[q][j]
        BY <1>0, <3>2 DEF Goto, TypeOK
      <4>3. QED BY <4>1, <4>2
    <3>3. QED BY <2>1, <3>1, <3>2
  <2>3. \A q \in Processes, j \in RowIds : TaskCalm(q, j) /\ (Admitted(q, j)' => Admitted(q, j))
    BY <1>1, <2>2
  <2>4. LocksExact'
    BY <2>1, <2>3, LocksKept
  <2>5. Stages
    BY <1>0, <2>1 DEF Stages, AllStaged, Staged, Owing, Unsettled
  <2>6. QED BY <1>3, <2>1, <2>3, <2>4, <2>5
<1>6. QED BY <1>2, <1>4, <1>5

-----------------------------------------------------------------------------
(* Every step counts, so the bound is invariant.                            *)
LEMMA DuplicateStep ==
  ASSUME ConstantsAssumption, ClaimInv, DuplicateInv, [Next]_vars
  PROVE  DuplicateInv'
<1>1. TypeOK /\ OneRow /\ LocksExact /\ AllStaged
  BY DEF ClaimInv, DuplicateInv
<1>2. /\ OneRow' /\ LocksExact' /\ Stages
      /\ \A s \in Requests : Counted(s)
  <2>1. CASE \E p \in Processes, r \in Requests : Operator(p, r)
    BY <1>1, <2>1, OperatorCounts
  <2>2. CASE \E r \in Requests : CompleteFromLibrary(r)
    BY <1>1, <2>2, OperatorCounts
  <2>3. CASE \/ \E p \in Processes : ScanRead(p) \/ ScanDispatch(p)
             \/ \E i \in RowIds : BackoffElapses(i)
             \/ UNCHANGED vars
    BY <1>1, <2>3, ScansCount
  <2>4. CASE \E p \in Processes, i \in RowIds : Worker(p, i)
    BY <1>1, <2>4, WorkerCounts
  <2>5. CASE \E i \in RowIds : LeaseExpires(i) \/ LeaseLost(i)
    BY <1>1, <2>5, LeasesCount
  <2>6. CASE \/ \E p \in Processes : Crash(p)
             \/ \E p \in Processes, i \in RowIds : DatabaseError(p, i)
    BY <1>1, <2>6, FaultsCount
  <2>7. QED BY <2>1, <2>2, <2>3, <2>4, <2>5, <2>6 DEF Next
<1>3. /\ faults \in Nat /\ faults' \in Nat /\ sends \in [Requests -> Nat]
      /\ sends' \in [Requests -> Nat]
  BY <1>1, TypeStep DEF TypeOK
<1>4. faults' \in {faults, faults + 1}
  <2>1. CASE \E p \in Processes, r \in Requests : Operator(p, r)
    BY <2>1 DEF Operator, CreatePending, CreateApproved, Approve, Decline, Repair,
                RetryCancel, RetryRefused, RetrySave, RetryEnqueue, ClearCancel,
                ClearRefused, ClearRemove, Remove, Reconcile
  <2>2. CASE \E p \in Processes, i \in RowIds : Worker(p, i)
    <3>1. PICK p \in Processes, i \in RowIds : Worker(p, i)
      BY <2>2
    <3>2. CASE Deliver(p, i)
      <4>1. UNCHANGED faults \/ PerhapsAccepted(RequestOf[i])
        BY <3>2 DEF Deliver, SendAccepted, AlreadyAvailable, NoRelease, SendFailed,
                    SendDeferred, SendThrows
      <4>2. QED BY <4>1 DEF PerhapsAccepted, Fault
    <3>3. CASE ~Deliver(p, i)
      BY <3>1, <3>3 DEF Worker, Claim, ClaimRefused, Admit, NothingToDo, Heartbeat, Proceed,
                Renew, RenewLost, DeleteDelivered, Reschedule, Exhaust, ClaimWasLost
    <3>4. QED BY <3>2, <3>3
  <2>3. CASE \/ \E p \in Processes : Crash(p)
             \/ \E p \in Processes, i \in RowIds : DatabaseError(p, i)
             \/ \E i \in RowIds : LeaseLost(i)
    BY <2>3 DEF Crash, DatabaseError, LeaseLost, Fault
  <2>4. CASE \/ \E r \in Requests : CompleteFromLibrary(r)
             \/ \E p \in Processes : ScanRead(p) \/ ScanDispatch(p)
             \/ \E i \in RowIds : BackoffElapses(i) \/ LeaseExpires(i)
             \/ UNCHANGED vars
    BY <2>4 DEF CompleteFromLibrary, ScanRead, ScanDispatch, BackoffElapses,
                LeaseExpires, vars
  <2>5. QED BY <2>1, <2>2, <2>3, <2>4 DEF Next
<1>5. ASSUME NEW r \in Requests
      PROVE  sends'[r] <= 1 + faults' /\ (status'[r] # "removed" => Bounded(r)')
  <2>1. /\ sends[r] \in Nat /\ sends'[r] \in Nat /\ faults' >= faults
        /\ sends[r] <= 1 + faults /\ (status[r] # "removed" => Bounded(r))
    BY <1>3, <1>4 DEF DuplicateInv
  <2>2. CASE status'[r] = "removed" /\ sends'[r] = sends[r]
    BY <1>3, <2>1, <2>2
  <2>3. CASE /\ status[r] # "removed"
             /\ \/ Still(r) \/ Sent(r) \/ Faulted(r) \/ Broken(r) \/ Fresh(r)
                \/ Overtaken(r)
    BY <1>2, <1>3, <2>1, <2>3, BoundKept DEF Stages
  <2>4. QED BY <1>2, <2>2, <2>3 DEF Counted
<1>6. QED BY <1>2, <1>5 DEF DuplicateInv, Stages

LEMMA DuplicateInit ==
  ASSUME ConstantsAssumption, Init
  PROVE  DuplicateInv
<1>1. /\ \A p \in Processes, i \in RowIds : task[p][i] = NoTask
      /\ \A i \in RowIds : outbox[i] = NoRow
      /\ \A r \in Requests : sends[r] = 0 /\ admission[r] = Free
      /\ faults = 0
  BY DEF Init
<1>2. /\ \A p \in Processes, i \in RowIds :
           ~Holds(p, i) /\ ~Sending(p, i) /\ ~Admitted(p, i)
      /\ \A i \in RowIds : ~outbox[i].live /\ ~outbox[i].stale
  BY <1>1, RecordTypes DEF Holds, Sending, Admitted, NoRow
<1>3. OneRow /\ LocksExact
  BY <1>2 DEF OneRow, LocksExact
<1>4. AllStaged
  BY <1>1, RecordTypes DEF AllStaged, Staged
<1>5. ASSUME NEW r \in Requests
      PROVE  Bounded(r) /\ sends[r] <= 1 + faults
  <2>1. Late(r) = {}
    BY <1>2 DEF Late
  <2>2. IsFiniteSet(Late(r)) /\ Cardinality(Late(r)) = 0
    BY <2>1, FS_EmptySet
  <2>3. ~Ahead(r) /\ ~Again(r) /\ ~Lost(r)
    BY <1>2 DEF Ahead, Again, Lost, RowsOf
  <2>4. Num(Ahead(r)) = 0 /\ Num(Again(r)) = 0 /\ Num(Lost(r)) = 0
    BY <2>3, Numbers
  <2>5. QED BY <1>1, <2>2, <2>4 DEF Bounded
<1>6. QED BY <1>3, <1>4, <1>5 DEF DuplicateInv

(* The service is asked once for each approval, and once more at most for   *)
(* each crash, database error, lost lease or error after an acceptance:     *)
(* however many processes scan and claim, however often a failed book is    *)
(* retried from the queue, and whatever operators do meanwhile.             *)
THEOREM NoSendRepeated == Spec => []NoDuplicateSend
<1>1. Init => DuplicateInv
  BY DuplicateInit, ConstantsAssumption
<1>2. ClaimInv /\ DuplicateInv /\ [Next]_vars => DuplicateInv'
  BY DuplicateStep, ConstantsAssumption
<1>3. DuplicateInv => NoDuplicateSend
  BY DEF DuplicateInv, NoDuplicateSend
<1>4. QED BY <1>1, <1>2, <1>3, ClaimInvariant, PTL DEF Spec
=============================================================================
