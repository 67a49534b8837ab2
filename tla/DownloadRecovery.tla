--------------------------- MODULE DownloadRecovery ---------------------------
(***************************************************************************)
(* The recovery of failed and stalled downloads of one media service.      *)
(*                                                                         *)
(* A timer of every process runs the recovery, without a lease.  A run     *)
(* reads the queue of the service and handles its items grouped by media,  *)
(* several media at once, the items of one media one after the other.  It  *)
(* keeps a row per download in the table download_recovery_state, removes  *)
(* the items that have failed, lets the service search for others, and     *)
(* limits both by what the table says.                                     *)
(*                                                                         *)
(* The first worker of a run that fails ends the run, but not the other    *)
(* workers: they go on while the process may start its next run.           *)
(***************************************************************************)
EXTENDS Naturals, FiniteSets

CONSTANTS
  Processes,       \* server processes sharing the table
  Runs,            \* room for the runs that have a worker left
  Downloads,       \* ids of downloads
  Media,           \* media of the service
  MediaOf,         \* the media each download is for
  None,            \* no process
  MaxRetries,      \* MAX_RETRIES_PER_DOWNLOAD
  MaxMediaRetries, \* MAX_RETRIES_PER_MEDIA
  Concurrency,     \* DOWNLOAD_RECOVERY_MEDIA_CONCURRENCY
  Instances        \* per instance its processes, downloads and conditions, and
                   \* bounds on arrivals, weeks and faults

(* What decide() distinguishes.  moving: its size changed since the row was *)
(* saved; still: it did not; unusable: its import fails for a reason that a *)
(* retry does not cure.                                                     *)
Conditions == {"gone", "moving", "still", "unusable", "failed"}

Instance == [processes: SUBSET Processes, downloads: SUBSET Downloads,
             conditions: SUBSET Conditions, arrivals: Nat, ages: Nat, faults: Nat]

ASSUME ConstantsAssumption ==
  /\ IsFiniteSet(Runs) /\ IsFiniteSet(Downloads) /\ IsFiniteSet(Media)
  /\ MediaOf \in [Downloads -> Media]
  /\ None \notin Processes /\ None \notin Downloads
  /\ MaxRetries \in Nat \ {0} /\ MaxMediaRetries \in Nat \ {0} /\ Concurrency \in Nat \ {0}
  /\ Instances \subseteq Instance

VARIABLES
  instance,  \* the instance chosen at the start; its bounds are used up
  queue,     \* the queue of the service
  row,       \* the table, by download id
  running,   \* the processes whose flag "running" is set
  run,       \* the runs
  worker,    \* per run and media, the worker that handles its items
  retries,   \* times each download was removed since its row was created, by a
             \* worker that had it to itself until it had recorded the removal
  met,       \* media that two workers were at together
  shared,    \* workers whose item another one has handled meanwhile
  aged       \* media one of whose rows was left alone for a week

vars == <<instance, queue, row, running, run, worker, retries, met, shared, aged>>

ghosts == <<retries, met, shared, aged>>

-----------------------------------------------------------------------------
(* Types *)

(* A download that comes back to the queue has another queue id.            *)
Item == [cond: Conditions, id: {0, 1}]

Actions == {"none", "retried", "ignored", "retry-limit", "media-retry-limit"}

(* idle: no progress for STALLED_AFTER_MS; old: not updated for             *)
(* STALE_STATE_AFTER_MS.  id tells a row from its predecessor.              *)
Row == [there: BOOLEAN, id: {0, 1}, retryCount: Nat, lastAction: Actions,
        idle: BOOLEAN, old: BOOLEAN]

NoRow == [there |-> FALSE, id |-> 0, retryCount |-> 0, lastAction |-> "none",
          idle |-> FALSE, old |-> FALSE]

Unseen == [cond |-> "gone", id |-> 0]

(* workers: those that have not failed; todo: the media none has taken.     *)
Run == [by: Processes \cup {None}, awaited: BOOLEAN, seen: [Downloads -> Item],
        todo: SUBSET Media, workers: Nat]

Steps == {"idle", "next", "save", "ignore", "limit", "count", "mediaLimit",
          "delete", "search", "record"}

Worker == [pc: Steps, left: SUBSET Downloads, item: Downloads \cup {None}, state: Row]

NoRun == [by |-> None, awaited |-> FALSE, seen |-> [d \in Downloads |-> Unseen],
          todo |-> {}, workers |-> 0]

NoWorker == [pc |-> "idle", left |-> {}, item |-> None, state |-> NoRow]

TypeOK ==
  /\ instance \in Instance
  /\ queue \in [Downloads -> Item]
  /\ row \in [Downloads -> Row]
  /\ running \in SUBSET Processes
  /\ run \in [Runs -> Run]
  /\ worker \in [Runs -> [Media -> Worker]]
  /\ retries \in [Downloads -> Nat]
  /\ met \in SUBSET Media /\ shared \in SUBSET (Runs \X Media) /\ aged \in SUBSET Media

Init ==
  /\ instance \in Instances
  /\ queue \in [Downloads -> Item]
  /\ \A d \in Downloads :
       /\ queue[d].id = 0
       /\ queue[d].cond \in (IF d \in instance.downloads THEN instance.conditions ELSE {"gone"})
  /\ row = [d \in Downloads |-> NoRow]
  /\ running = {}
  /\ run = [r \in Runs |-> NoRun]
  /\ worker = [r \in Runs |-> [m \in Media |-> NoWorker]]
  /\ retries = [d \in Downloads |-> 0]
  /\ met = {} /\ shared = {} /\ aged = {}

-----------------------------------------------------------------------------
(* Runs *)

Busy(r) == {m \in Media : worker[r][m].pc # "idle"}

InQueue(q, m) == {d \in Downloads : MediaOf[d] = m /\ q[d].cond # "gone"}

MayStart(p) == p \notin running

(* run() and getQueue(): at most one worker per media.                      *)
Start(r, p) ==
  LET todo == {m \in Media : InQueue(queue, m) # {}} IN
  /\ p \in instance.processes /\ MayStart(p)
  /\ run[r].by = None /\ r = CHOOSE s \in Runs : run[s].by = None
  /\ todo # {} \/ \E d \in Downloads : row[d].old
  /\ running' = running \cup {p}
  /\ run' = [run EXCEPT ![r] =
       [by |-> p, awaited |-> TRUE, seen |-> queue, todo |-> todo,
        workers |-> IF Cardinality(todo) < Concurrency THEN Cardinality(todo)
                                                       ELSE Concurrency]]
  /\ UNCHANGED <<instance, queue, row, worker, ghosts>>

(* A worker takes the next media, whether or not another one has failed.    *)
Take(r, m) ==
  /\ m \in run[r].todo /\ Cardinality(Busy(r)) < run[r].workers
  /\ run' = [run EXCEPT ![r].todo = @ \ {m}]
  /\ worker' = [worker EXCEPT ![r][m] =
       [NoWorker EXCEPT !.pc = "next", !.left = InQueue(run[r].seen, m)]]
  /\ met' = IF \E s \in Runs : m \in Busy(s) THEN met \cup {m} ELSE met
  /\ UNCHANGED <<instance, queue, row, running, retries, shared, aged>>

ReleasedNever(r) == running  \* mutant: the flag is not reset

Released(r) == IF run[r].awaited THEN running \ {run[r].by} ELSE running

(* The first failure of a worker ends the awaited run; the items left of    *)
(* its media wait for another run.                                          *)
Fail(r, m) ==
  /\ worker' = [worker EXCEPT ![r][m] = NoWorker]
  /\ run' = [run EXCEPT ![r].awaited = FALSE, ![r].workers = @ - 1]
  /\ running' = Released(r)
  /\ shared' = shared \ {<<r, m>>}

(* The last worker of a run that failed is done.                            *)
Abandon(r) ==
  /\ run[r].by # None /\ ~run[r].awaited /\ Busy(r) = {}
  /\ run[r].todo = {} \/ run[r].workers = 0
  /\ run' = [run EXCEPT ![r] = NoRun]
  /\ UNCHANGED <<instance, queue, row, running, worker, ghosts>>

(* A run without failures deletes the rows nobody has updated for a week,   *)
(* those of downloads in the queue included.                                *)
Cleanup(r) ==
  /\ run[r].awaited /\ Busy(r) = {} /\ run[r].todo = {}
  /\ row' = [d \in Downloads |-> IF row[d].old THEN [NoRow EXCEPT !.id = row[d].id]
                                               ELSE row[d]]
  /\ retries' = [d \in Downloads |-> IF row[d].old THEN 0 ELSE retries[d]]
  /\ running' = Released(r)
  /\ run' = [run EXCEPT ![r] = NoRun]
  /\ UNCHANGED <<instance, queue, worker, met, shared, aged>>

-----------------------------------------------------------------------------
(* processQueueItem *)

At(r, m, pc) == worker[r][m].pc = pc

Goto(r, m, pc, state) ==
  /\ worker' = [worker EXCEPT ![r][m].pc = pc, ![r][m].state = state]
  /\ UNCHANGED <<run, shared>>

(* The item is done; its entry of the queue is not looked at again.         *)
Done(r, m) ==
  LET w == worker[r][m] IN
  /\ worker' = [worker EXCEPT ![r][m] =
       IF w.left = {} THEN NoWorker ELSE [NoWorker EXCEPT !.pc = "next", !.left = w.left]]
  /\ run' = [run EXCEPT ![r].seen[w.item] = Unseen]
  /\ shared' = shared \ {<<r, m>>}

Others(r, m, d) == {s \in Runs \ {r} : worker[s][m].item = d}

(* The row of the next item is read.                                        *)
Find(r, m) ==
  /\ At(r, m, "next")
  /\ \E d \in worker[r][m].left :
       /\ worker' = [worker EXCEPT ![r][m] =
            [pc |-> "save", left |-> @.left \ {d}, item |-> d, state |-> row[d]]]
       /\ shared' = IF Others(r, m, d) = {} THEN shared
                    ELSE shared \cup ((Others(r, m, d) \cup {r}) \X {m})
  /\ UNCHANGED <<instance, queue, row, running, run, retries, met, aged>>

(* save() writes every column that differs from the table, so the state     *)
(* that was read replaces what others have written since.  A save that      *)
(* changes nothing does not touch the row's time; columns that are not      *)
(* modelled may have changed.  A row that was deleted is inserted again.    *)
Saves(d, state) ==
  LET new == [state EXCEPT !.old = row[d].old] IN
  \E touched \in BOOLEAN :
    row' = [row EXCEPT ![d] =
      IF touched \/ ~row[d].there \/ new # row[d] THEN [new EXCEPT !.old = FALSE] ELSE @]

(* Another row has taken its unique key.                                    *)
Conflict(d, state) == row[d].there /\ (~state.there \/ row[d].id # state.id)

Retryable(cond, state) == cond = "failed" \/ (cond = "still" /\ state.idle)

CreatedTracked(d) ==  \* mutant: an action that only decide() knows
  [NoRow EXCEPT !.there = TRUE, !.lastAction = "track"]

Created(d) == [NoRow EXCEPT !.there = TRUE, !.id = 1 - row[d].id]

Progressed(cond, state) == [state EXCEPT !.idle = @ /\ cond # "moving"]

(* The row is created or updated, and the item judged.                      *)
Save(r, m) ==
  LET d     == worker[r][m].item
      cond  == run[r].seen[d].cond
      found == worker[r][m].state
      state == IF found.there THEN Progressed(cond, found) ELSE Created(d)
  IN
  /\ At(r, m, "save")
  /\ IF Conflict(d, found)
     THEN Fail(r, m) /\ UNCHANGED row
     ELSE /\ Saves(d, state)
          /\ \/ cond = "unusable" /\ Goto(r, m, "ignore", state)
             \/ /\ Retryable(cond, state)
                /\ Goto(r, m, IF state.retryCount >= MaxRetries THEN "limit" ELSE "count", state)
             \/ cond # "unusable" /\ ~Retryable(cond, state) /\ Done(r, m)
          /\ UNCHANGED running
  /\ UNCHANGED <<instance, queue, retries, met, aged>>

(* An action that ends the handling is saved with the state that was read.  *)
Mark(r, m, pc, action) ==
  LET d == worker[r][m].item  state == worker[r][m].state IN
  /\ At(r, m, pc)
  /\ IF Conflict(d, state)
     THEN Fail(r, m) /\ UNCHANGED row
     ELSE /\ Saves(d, [state EXCEPT !.lastAction = action]) /\ Done(r, m)
          /\ UNCHANGED running
  /\ UNCHANGED <<instance, queue, retries, met, aged>>

Ignore(r, m) == Mark(r, m, "ignore", "ignored")

RetryLimit(r, m) == Mark(r, m, "limit", "retry-limit")

MediaRetryLimit(r, m) == Mark(r, m, "mediaLimit", "media-retry-limit")

(* The rows of the media whose last action was a retry of this week.        *)
Retried(m) ==
  {d \in Downloads : MediaOf[d] = m /\ row[d].there /\ row[d].lastAction = "retried"
                     /\ ~row[d].old}

Count(r, m) ==
  /\ At(r, m, "count")
  /\ Goto(r, m, IF Cardinality(Retried(m)) >= MaxMediaRetries THEN "mediaLimit" ELSE "delete",
          worker[r][m].state)
  /\ UNCHANGED <<instance, queue, row, running, retries, met, aged>>

(* deleteQueueItem: removed by its queue id, or not found.                  *)
Delete(r, m) ==
  LET d == worker[r][m].item IN
  /\ At(r, m, "delete")
  /\ IF queue[d].cond # "gone" /\ queue[d].id = run[r].seen[d].id
     THEN /\ queue' = [queue EXCEPT ![d].cond = "gone"]
          /\ Goto(r, m, "search", worker[r][m].state)
          /\ UNCHANGED running
     ELSE Fail(r, m) /\ UNCHANGED queue
  /\ UNCHANGED <<instance, row, retries, met, aged>>

Search(r, m) ==
  /\ At(r, m, "search")
  /\ Goto(r, m, "record", worker[r][m].state)
  /\ UNCHANGED <<instance, queue, row, running, retries, met, aged>>

Uncounted(state) == [state EXCEPT !.lastAction = "retried"]  \* mutant

Counted(state) == [state EXCEPT !.retryCount = @ + 1, !.lastAction = "retried"]

(* The retry is recorded, after the fact and from the state that was read.  *)
Record(r, m) ==
  LET d == worker[r][m].item  state == worker[r][m].state IN
  /\ At(r, m, "record")
  /\ IF Conflict(d, state)
     THEN Fail(r, m) /\ UNCHANGED <<row, retries>>
     ELSE /\ Saves(d, Counted(state)) /\ Done(r, m)
          /\ retries' = IF <<r, m>> \in shared THEN retries ELSE [retries EXCEPT ![d] = @ + 1]
          /\ UNCHANGED running
  /\ UNCHANGED <<instance, queue, met, aged>>

-----------------------------------------------------------------------------
(* The environment *)

Spend(bound) == instance[bound] > 0 /\ instance' = [instance EXCEPT ![bound] = @ - 1]

(* A download enters the queue, also one that was there before.             *)
Arrive(d) ==
  /\ Spend("arrivals") /\ d \in instance.downloads /\ queue[d].cond = "gone"
  /\ \E c \in instance.conditions : queue' = [queue EXCEPT ![d] = [cond |-> c, id |-> 1 - @.id]]
  /\ UNCHANGED <<row, running, run, worker, ghosts>>

(* It goes on, stops, fails, or is imported.                                *)
Change(d) ==
  /\ queue[d].cond \in {"moving", "still"}
  /\ \E c \in instance.conditions \cup {"gone"} : queue' = [queue EXCEPT ![d].cond = c]
  /\ UNCHANGED <<instance, row, running, run, worker, ghosts>>

(* Two hours pass without progress.                                         *)
Stall(d) ==
  /\ row[d].there /\ ~row[d].idle /\ "still" \in instance.conditions
  /\ row' = [row EXCEPT ![d].idle = TRUE]
  /\ UNCHANGED <<instance, queue, running, run, worker, ghosts>>

(* A week passes without an update: no worker takes that long.              *)
Age(d) ==
  /\ Spend("ages") /\ row[d].there /\ ~row[d].old
  /\ \A r \in Runs : MediaOf[d] \notin Busy(r)
  /\ row' = [row EXCEPT ![d].old = TRUE]
  /\ aged' = aged \cup {MediaOf[d]}
  /\ UNCHANGED <<queue, running, run, worker, retries, met, shared>>

(* A statement or a call of the service fails; a removal may have worked.   *)
Error(r, m) ==
  /\ worker[r][m].pc # "idle" /\ Spend("faults")
  /\ Fail(r, m)
  /\ UNCHANGED <<queue, row, retries, met, aged>>

(* A process dies and starts again.                                         *)
Crash(p) ==
  LET gone == {r \in Runs : run[r].by = p} IN
  /\ Spend("faults") /\ gone # {}
  /\ run' = [r \in Runs |-> IF r \in gone THEN NoRun ELSE run[r]]
  /\ worker' = [r \in Runs |-> IF r \in gone THEN [m \in Media |-> NoWorker] ELSE worker[r]]
  /\ running' = running \ {p}
  /\ shared' = shared \ (gone \X Media)
  /\ UNCHANGED <<queue, row, retries, met, aged>>

-----------------------------------------------------------------------------
(* Specification *)

Handle(r, m) ==
  \/ Take(r, m) \/ Find(r, m) \/ Save(r, m) \/ Ignore(r, m) \/ RetryLimit(r, m)
  \/ Count(r, m) \/ MediaRetryLimit(r, m) \/ Delete(r, m) \/ Search(r, m) \/ Record(r, m)

Next ==
  \/ \E r \in Runs, p \in Processes : Start(r, p)
  \/ \E r \in Runs : Abandon(r) \/ Cleanup(r)
  \/ \E r \in Runs, m \in Media : Handle(r, m) \/ Error(r, m)
  \/ \E d \in Downloads : Arrive(d) \/ Change(d) \/ Stall(d) \/ Age(d)
  \/ \E p \in Processes : Crash(p)

Spec == Init /\ [][Next]_vars

(* The timer of every process fires again and again, and the calls of a     *)
(* worker end.                                                              *)
Fairness ==
  /\ \A p \in Processes : WF_vars(\E r \in Runs : Start(r, p))
  /\ \A r \in Runs : WF_vars(Abandon(r) \/ Cleanup(r))
  /\ \A r \in Runs, m \in Media : WF_vars(Handle(r, m))

FairSpec == Spec /\ Fairness

-----------------------------------------------------------------------------
(* Properties *)

(* Of the removals of a download since its row was created at most          *)
(* MAX_RETRIES_PER_DOWNLOAD were made by workers that had it to themselves  *)
(* and could record them, whatever workers saved their states over each     *)
(* other before: only a removal that was itself cut short, or made while    *)
(* another worker was at the same download, is beyond the limit.            *)
RetriesCapped == \A d \in Downloads : retries[d] <= MaxRetries

(* Nor do more downloads of a media count as retried than its limit, if its *)
(* workers never met, whatever fails; and where they did one more for each  *)
(* further run at most.                                                     *)
MarksBounded ==
  \A m \in Media \ aged :
    Cardinality(Retried(m)) <=
      MaxMediaRetries + (IF m \in met THEN Cardinality(Runs) - 1 ELSE 0)

(* Both limits of the recovery, as far as the code keeps them.              *)
LimitsHeld == RetriesCapped /\ MarksBounded

(* The limit of a media is applied reliably when several of its downloads   *)
(* have failed: disproved, TLC refutes it where two workers meet.           *)
LimitReliable ==
  \A m \in Media \ aged : Cardinality(Retried(m)) <= MaxMediaRetries

(* A failed download is removed or marked in the end, whatever fails.       *)
Handled ==
  \A d \in Downloads :
    queue[d].cond = "failed"
      ~> (queue[d].cond # "failed" \/ row[d].lastAction \in {"retry-limit", "media-retry-limit"})
=============================================================================
