------------------------ MODULE DownloadRecoveryProofs ------------------------
(* Theorems about DownloadRecovery, for every set of runs, downloads, media *)
(* and instances:                                                           *)
(*                                                                          *)
(*   TypeCorrect  the variables keep their types, a worker's item is one of *)
(*                its media, and no count passes the limit (BaseInv);       *)
(*   LimitsKept   both limits hold as far as the code keeps them: a download *)
(*                is removed no more often than its row says by workers that *)
(*                had it to themselves (RemovalsInv), and the rows of a media *)
(*                marked as retried are bounded by the limit and, where its  *)
(*                workers met, by the runs at work (MarksInv).               *)
(*                                                                          *)
(* Every step of a worker is reduced to an outcome (WorkerOutcomes): it     *)
(* takes an item, finds its row, writes it, advances, or drops; the         *)
(* invariants are shown to survive each outcome rather than each action.    *)
EXTENDS DownloadRecovery, FiniteSetTheorems, TLAPS

-----------------------------------------------------------------------------
(* Records *)

(* Bookkeeping: what the fields of a row hold.                              *)
LEMMA RowFields ==
  ASSUME NEW x \in Row
  PROVE /\ x.there \in BOOLEAN /\ x.idle \in BOOLEAN /\ x.old \in BOOLEAN
        /\ x.id \in {0, 1} /\ x.retryCount \in Nat /\ x.lastAction \in Actions
  BY DEF Row

(* Bookkeeping: a row stays one when a field gets a value of its kind, and  *)
(* the fields that the limits are about are those it had.                   *)
SameCount(x, y) ==
  (x.there <=> y.there) /\ x.retryCount = y.retryCount /\ x.lastAction = y.lastAction

LEMMA RowAged ==
  ASSUME NEW x \in Row, NEW b \in BOOLEAN
  PROVE  LET y == [x EXCEPT !.old = b] IN
         y \in Row /\ SameCount(y, x) /\ (y.old <=> b) /\ y.id = x.id
BY DEF Row, SameCount

LEMMA RowStalled ==
  ASSUME NEW x \in Row, NEW b \in BOOLEAN
  PROVE  LET y == [x EXCEPT !.idle = b] IN
         y \in Row /\ SameCount(y, x) /\ (y.old <=> x.old) /\ y.id = x.id
BY DEF Row, SameCount

LEMMA RowMarked ==
  ASSUME NEW x \in Row, NEW a \in Actions
  PROVE  LET y == [x EXCEPT !.lastAction = a] IN
         /\ y \in Row /\ (y.there <=> x.there)
         /\ y.retryCount = x.retryCount /\ y.lastAction = a
BY DEF Row

LEMMA RowReplaced ==
  ASSUME NEW x \in Row, NEW i \in {0, 1}
  PROVE  LET y == [x EXCEPT !.id = i] IN
         y \in Row /\ SameCount(y, x) /\ (y.old <=> x.old)
BY DEF Row, SameCount

LEMMA NoRowIsRow ==
  /\ NoRow \in Row /\ ~NoRow.there /\ NoRow.retryCount = 0 /\ NoRow.lastAction = "none"
  /\ ~NoRow.old
BY DEF Row, NoRow, Actions

(* A retry that is recorded is counted.                                     *)
LEMMA CountedIsRow ==
  ASSUME NEW x \in Row
  PROVE  /\ Counted(x) \in Row /\ (Counted(x).there <=> x.there)
         /\ Counted(x).retryCount = x.retryCount + 1 /\ Counted(x).lastAction = "retried"
<1> DEFINE n == x.retryCount + 1
<1>1. n \in Nat /\ "retried" \in Actions
  BY RowFields DEF Actions
<1>2. Counted(x) = [x EXCEPT !.retryCount = n, !.lastAction = "retried"]
  BY DEF Counted
<1>3. n = x.retryCount + 1
  OBVIOUS
<1> HIDE DEF n
<1>4. QED
  BY <1>1, <1>2, <1>3 DEF Row

LEMMA ProgressedIsRow ==
  ASSUME NEW x \in Row, NEW cond \in Conditions
  PROVE  Progressed(cond, x) \in Row /\ SameCount(Progressed(cond, x), x)
<1>1. (x.idle /\ cond # "moving") \in BOOLEAN
  BY RowFields
<1>2. Progressed(cond, x) = [x EXCEPT !.idle = x.idle /\ cond # "moving"]
  BY DEF Progressed
<1>3. QED
  BY <1>1, <1>2, RowStalled, Zenon

LEMMA CreatedIsRow ==
  ASSUME row \in [Downloads -> Row], NEW d \in Downloads
  PROVE  /\ Created(d) \in Row /\ Created(d).there /\ Created(d).retryCount = 0
         /\ Created(d).lastAction = "none" /\ ~Created(d).old
<1> DEFINE i == 1 - row[d].id
<1>1. row[d] \in Row
  OBVIOUS
<1>2. i \in {0, 1}
  BY <1>1, RowFields
<1>3. Created(d) = [NoRow EXCEPT !.there = TRUE, !.id = i]
  BY DEF Created
<1> HIDE DEF i
<1>4. QED
  BY <1>2, <1>3, NoRowIsRow DEF Row

LEMMA ClearedIsRow ==
  ASSUME row \in [Downloads -> Row], NEW d \in Downloads
  PROVE  LET y == [NoRow EXCEPT !.id = row[d].id] IN
         y \in Row /\ SameCount(y, NoRow) /\ ~y.old
<1>1. row[d].id \in {0, 1}
  BY RowFields
<1>2. QED
  BY <1>1, RowReplaced, NoRowIsRow

LEMMA WorkerFields ==
  ASSUME NEW w \in Worker
  PROVE /\ w.pc \in Steps /\ w.left \in SUBSET Downloads
        /\ w.item \in Downloads \cup {None} /\ w.state \in Row
  BY DEF Worker

LEMMA NoWorkerIsWorker ==
  ASSUME NEW left \in SUBSET Downloads
  PROVE /\ NoWorker \in Worker /\ NoWorker.pc = "idle" /\ NoWorker.left = {}
        /\ [NoWorker EXCEPT !.pc = "next", !.left = left] \in Worker
        /\ [NoWorker EXCEPT !.pc = "next", !.left = left].pc = "next"
        /\ [NoWorker EXCEPT !.pc = "next", !.left = left].left = left
        /\ NoWorker.item = None /\ NoWorker.state = NoRow
  BY DEF Worker, NoWorker, Steps, NoRow, Row, Actions

(* A step that concerns one worker or one row changes no other.             *)
Own(r, m) ==
  /\ worker' \in [Runs -> [Media -> Worker]]
  /\ \A q \in Runs, k \in Media : (q = r /\ k = m) \/ worker'[q][k] = worker[q][k]

OwnRow(d) ==
  /\ row' \in [Downloads -> Row]
  /\ \A e \in Downloads : e = d \/ row'[e] = row[e]

LEMMA SetWorker ==
  ASSUME worker \in [Runs -> [Media -> Worker]],
         NEW r \in Runs, NEW m \in Media, NEW w \in Worker,
         worker' = [worker EXCEPT ![r][m] = w]
  PROVE  Own(r, m) /\ worker'[r][m] = w
BY DEF Own

(* What the steps of a worker do to it.                                     *)
LEMMA GoesTo ==
  ASSUME worker \in [Runs -> [Media -> Worker]],
         NEW r \in Runs, NEW m \in Media, NEW pc \in Steps, NEW state \in Row,
         Goto(r, m, pc, state)
  PROVE  /\ Own(r, m)
         /\ worker'[r][m].pc = pc /\ worker'[r][m].state = state
         /\ worker'[r][m].left = worker[r][m].left /\ worker'[r][m].item = worker[r][m].item
<1> DEFINE v == worker[r][m]
           w == [v EXCEPT !.pc = pc, !.state = state]
<1>1. worker' = [worker EXCEPT ![r][m] = w]
  BY DEF Goto
<1>2. v \in Worker /\ v = worker[r][m]
  OBVIOUS
<1> HIDE DEF v
<1>3. /\ w \in Worker /\ w.pc = pc /\ w.state = state
      /\ w.left = worker[r][m].left /\ w.item = worker[r][m].item
  BY <1>2 DEF Worker
<1> HIDE DEF w
<1>4. QED
  BY <1>1, <1>3, SetWorker

(* The runs keep their processes and their workers, and start no media.     *)
SameRuns ==
  /\ run' \in [Runs -> Run]
  /\ \A q \in Runs : /\ run'[q].by = run[q].by /\ run'[q].todo \subseteq run[q].todo
                      /\ run'[q].workers = run[q].workers

LEMMA SeenForgotten ==
  ASSUME NEW x \in Run, NEW d \in Downloads
  PROVE  LET y == [x EXCEPT !.seen[d] = Unseen] IN
         y \in Run /\ y.by = x.by /\ y.todo = x.todo /\ y.workers = x.workers
<1>1. Unseen \in Item
  BY DEF Unseen, Item, Conditions
<1>2. QED
  BY <1>1 DEF Run

LEMMA ItemDone ==
  ASSUME worker \in [Runs -> [Media -> Worker]], run \in [Runs -> Run],
         NEW r \in Runs, NEW m \in Media, worker[r][m].item \in Downloads, Done(r, m)
  PROVE  /\ Own(r, m) /\ SameRuns /\ shared' = shared \ {<<r, m>>}
         /\ worker'[r][m].pc \in {"idle", "next"}
         /\ worker'[r][m].left = worker[r][m].left
<1> DEFINE w == worker[r][m]
           v == IF w.left = {} THEN NoWorker ELSE [NoWorker EXCEPT !.pc = "next", !.left = w.left]
           d == w.item
           x == run[r]
           y == [x EXCEPT !.seen[d] = Unseen]
<1>1. /\ worker' = [worker EXCEPT ![r][m] = v] /\ run' = [run EXCEPT ![r] = y]
      /\ shared' = shared \ {<<r, m>>}
  BY DEF Done
<1>2. w \in Worker /\ w.left \in SUBSET Downloads
  BY WorkerFields
<1>3. v \in Worker /\ v.pc \in {"idle", "next"} /\ v.left = w.left
  BY <1>2, NoWorkerIsWorker
<1>4. x \in Run /\ d \in Downloads
  OBVIOUS
<1> HIDE DEF x, d
<1>5. y \in Run /\ y.by = x.by /\ y.todo = x.todo /\ y.workers = x.workers
  BY <1>4, SeenForgotten
<1> HIDE DEF y, v
<1>6. Own(r, m) /\ worker'[r][m] = v
  BY <1>1, <1>3, SetWorker
<1>7. SameRuns
  BY <1>1, <1>5 DEF SameRuns, x
<1>8. QED
  BY <1>1, <1>3, <1>6, <1>7

(* What a save writes: the state, but for the time of the row.              *)
LEMMA SaveWrites ==
  ASSUME row \in [Downloads -> Row], NEW d \in Downloads, NEW state \in Row, Saves(d, state)
  PROVE  OwnRow(d) /\ SameCount(row'[d], state) /\ (row'[d].old => row[d].old)
<1> DEFINE b == row[d].old
           new == [state EXCEPT !.old = b]
           fresh == [new EXCEPT !.old = FALSE]
<1>1. b \in BOOLEAN /\ b = row[d].old
  BY RowFields
<1>2. PICK touched \in BOOLEAN :
        row' = [row EXCEPT ![d] =
          IF touched \/ ~row[d].there \/ new # row[d] THEN fresh ELSE row[d]]
  BY DEF Saves
<1> HIDE DEF b
<1>3. new \in Row /\ SameCount(new, state)
  BY <1>1, RowAged
<1> HIDE DEF new
<1>4. fresh \in Row /\ SameCount(fresh, new) /\ ~fresh.old
  BY <1>3, RowAged
<1> HIDE DEF fresh
<1>5. CASE row'[d] = fresh
  BY <1>2, <1>3, <1>4, <1>5 DEF OwnRow, SameCount
<1>6. CASE row' = row /\ new = row[d]
  BY <1>3, <1>6 DEF OwnRow, SameCount
<1>7. row'[d] = fresh \/ (row' = row /\ new = row[d])
  BY <1>2
<1>8. QED
  BY <1>5, <1>6, <1>7

-----------------------------------------------------------------------------
(* What is always true of workers and counts *)

Handling(r, m) == worker[r][m].pc \notin {"idle", "next"}

(* A run has no more workers than it has not lost, and a run that has ended *)
(* has none.                                                                *)
Staffed ==
  \A r \in Runs :
    /\ Cardinality(Busy(r)) <= run[r].workers
    /\ run[r].by = None => Busy(r) = {} /\ run[r].todo = {}

(* A worker handles the items of its media.                                 *)
ItemsOwn ==
  \A r \in Runs, m \in Media :
    /\ \A d \in worker[r][m].left : MediaOf[d] = m
    /\ Handling(r, m) => worker[r][m].item \in Downloads /\ MediaOf[worker[r][m].item] = m

(* A count stays within the limit, and a row that is not there has none.    *)
Capped(x) ==
  /\ x.retryCount <= MaxRetries
  /\ ~x.there => x.retryCount = 0 /\ x.lastAction = "none"

(* The counts in the table and in the hands of workers: only an item that   *)
(* may still be retried comes near the removal.                             *)
CountsCapped ==
  /\ \A d \in Downloads : Capped(row[d])
  /\ \A r \in Runs, m \in Media :
       /\ Handling(r, m) => Capped(worker[r][m].state)
       /\ Handling(r, m) /\ worker[r][m].pc # "save" => worker[r][m].state.there
       /\ worker[r][m].pc \in {"count", "mediaLimit", "delete", "search", "record"}
            => worker[r][m].state.retryCount < MaxRetries

BaseInv == TypeOK /\ Staffed /\ ItemsOwn /\ CountsCapped

-----------------------------------------------------------------------------
(* What the steps of a worker come to *)

(* A worker fails, with a removal that was not recorded or without one.     *)
Drops(r, m) ==
  /\ Own(r, m) /\ worker[r][m].pc # "idle" /\ worker'[r][m] = NoWorker
  /\ UNCHANGED <<row, retries, met>> /\ shared' = shared \ {<<r, m>>}
  /\ run' \in [Runs -> Run]
  /\ \A q \in Runs : /\ run'[q].by = run[q].by /\ run'[q].todo = run[q].todo
                      /\ run'[q].workers = IF q = r THEN run[q].workers - 1 ELSE run[q].workers

Takes(r, m) ==
  /\ Own(r, m) /\ worker'[r][m].pc = "next"
  /\ \A d \in worker'[r][m].left : MediaOf[d] = m
  /\ m \in run[r].todo /\ Cardinality(Busy(r)) < run[r].workers
  /\ SameRuns /\ UNCHANGED <<row, retries, shared>>
  /\ met' = IF \E s \in Runs : m \in Busy(s) THEN met \cup {m} ELSE met

Finds(r, m) ==
  /\ Own(r, m) /\ worker[r][m].pc = "next" /\ worker'[r][m].pc = "save"
  /\ worker'[r][m].item \in worker[r][m].left
  /\ worker'[r][m].left \subseteq worker[r][m].left
  /\ worker'[r][m].state = row[worker'[r][m].item]
  /\ shared \subseteq shared'
  /\ \A s \in Runs \ {r} :
       worker[s][m].item = worker'[r][m].item => {<<s, m>>, <<r, m>>} \subseteq shared'
  /\ SameRuns /\ UNCHANGED <<row, retries, met>>

(* A worker saves the row of its item, and goes on with it or is done.      *)
Writes(r, m) ==
  LET w == worker[r][m]  new == worker'[r][m]  d == worker[r][m].item IN
  /\ Own(r, m) /\ OwnRow(d) /\ SameRuns /\ UNCHANGED met
  /\ retries' = IF w.pc = "record" /\ <<r, m>> \notin shared
                THEN [retries EXCEPT ![d] = @ + 1] ELSE retries
  /\ w.pc \in {"save", "ignore", "limit", "mediaLimit", "record"}
  /\ row'[d].there
  /\ row'[d].retryCount = w.state.retryCount + (IF w.pc = "record" THEN 1 ELSE 0)
  /\ row'[d].lastAction = "retried" => w.pc = "record" \/ w.state.lastAction = "retried"
  /\ row'[d].old => row[d].old
  /\ new.left = w.left
  /\ \/ new.pc \in {"idle", "next"} /\ shared' = shared \ {<<r, m>>}
     \/ /\ w.pc = "save" /\ shared' = shared /\ new.pc \in {"ignore", "limit", "count"}
        /\ new.item = d /\ SameCount(row'[d], new.state)
        /\ new.pc = "count" => new.state.retryCount < MaxRetries

(* A worker goes on with a retry, or finds that there may be no more.       *)
Advances(r, m) ==
  LET w == worker[r][m]  new == worker'[r][m] IN
  /\ Own(r, m) /\ SameRuns /\ UNCHANGED <<row, retries, met, shared>>
  /\ \/ w.pc = "count" /\ new.pc = "mediaLimit"
     \/ w.pc = "count" /\ new.pc = "delete" /\ Cardinality(Retried(m)) < MaxMediaRetries
     \/ w.pc = "delete" /\ new.pc = "search"
     \/ w.pc = "search" /\ new.pc = "record"
  /\ new.item = w.item /\ new.state = w.state /\ new.left = w.left

(* The types of what the outcomes do not name.                              *)
RestTyped ==
  /\ instance \in Instance /\ queue \in [Downloads -> Item] /\ running \in SUBSET Processes
  /\ retries \in [Downloads -> Nat] /\ met \in SUBSET Media /\ aged \in SUBSET Media
  /\ shared \in SUBSET (Runs \X Media)

LEMMA BusyFinite ==
  ASSUME NEW r \in Runs
  PROVE  /\ IsFiniteSet(Busy(r)) /\ Cardinality(Busy(r)) \in Nat
         /\ \A m \in Media : worker[r][m].pc # "idle" => Cardinality(Busy(r)) >= 1
<1>1. IsFiniteSet(Busy(r)) /\ Cardinality(Busy(r)) \in Nat
  BY ConstantsAssumption, FS_Subset, FS_CardinalityType DEF Busy
<1>2. ASSUME NEW m \in Media, worker[r][m].pc # "idle"  PROVE Cardinality(Busy(r)) >= 1
  <2>1. Busy(r) # {}
    BY <1>2 DEF Busy
  <2>2. QED
    BY <1>1, <2>1, FS_EmptySet
<1>3. QED
  BY <1>1, <1>2

LEMMA RunFails ==
  ASSUME NEW x \in Run, x.workers >= 1
  PROVE  LET y == [x EXCEPT !.awaited = FALSE, !.workers = x.workers - 1] IN
         y \in Run /\ y.by = x.by /\ y.todo = x.todo /\ y.workers = x.workers - 1
<1> DEFINE n == x.workers - 1
<1>1. n \in Nat /\ n = x.workers - 1
  BY DEF Run
<1> HIDE DEF n
<1>2. LET y == [x EXCEPT !.awaited = FALSE, !.workers = n] IN
      y \in Run /\ y.by = x.by /\ y.todo = x.todo /\ y.workers = n
  BY <1>1 DEF Run
<1>3. QED
  BY <1>1, <1>2

LEMMA WorkerFails ==
  ASSUME TypeOK, Staffed, NEW r \in Runs, NEW m \in Media, worker[r][m].pc # "idle",
         Fail(r, m), UNCHANGED <<row, retries, met>>
  PROVE  /\ Drops(r, m) /\ running' \in SUBSET Processes
         /\ shared' \in SUBSET (Runs \X Media)
<1> DEFINE x == run[r]
           y == [x EXCEPT !.awaited = FALSE, !.workers = x.workers - 1]
<1>1. x \in Run /\ x.workers >= 1
  <2>1. x \in Run /\ x.workers \in Nat
    BY DEF TypeOK, Run
  <2>2. Cardinality(Busy(r)) >= 1 /\ Cardinality(Busy(r)) \in Nat
    BY BusyFinite
  <2>3. QED
    BY <2>1, <2>2 DEF Staffed
<1>2. run' = [run EXCEPT ![r] = y] /\ worker' = [worker EXCEPT ![r][m] = NoWorker]
  BY DEF Fail
<1>3. y \in Run /\ y.by = x.by /\ y.todo = x.todo /\ y.workers = x.workers - 1
  <2> HIDE DEF x
  <2>1. QED
    BY <1>1, RunFails
<1>4. x = run[r]
  OBVIOUS
<1> HIDE DEF x, y
<1>5. Own(r, m) /\ worker'[r][m] = NoWorker
  BY <1>2, NoWorkerIsWorker, SetWorker DEF TypeOK
<1>6. /\ run' \in [Runs -> Run]
      /\ \A q \in Runs : /\ run'[q].by = run[q].by /\ run'[q].todo = run[q].todo
                          /\ run'[q].workers = IF q = r THEN run[q].workers - 1 ELSE run[q].workers
  BY <1>2, <1>3, <1>4 DEF TypeOK
<1>7. running' \in SUBSET Processes
  BY DEF Fail, Released, TypeOK
<1>8. shared' = shared \ {<<r, m>>}
  BY DEF Fail
<1>9. QED
  BY <1>5, <1>6, <1>7, <1>8 DEF Drops, TypeOK

LEMMA TakeOutcome ==
  ASSUME BaseInv, NEW r \in Runs, NEW m \in Media, Take(r, m)
  PROVE  Takes(r, m) /\ RestTyped'
<1> DEFINE left == InQueue(run[r].seen, m)
           w == [NoWorker EXCEPT !.pc = "next", !.left = left]
           x == run[r]
           todo == run[r].todo \ {m}
           y == [x EXCEPT !.todo = todo]
<1>1. left \in SUBSET Downloads /\ \A d \in left : MediaOf[d] = m
  BY DEF InQueue
<1>2. worker' = [worker EXCEPT ![r][m] = w] /\ run' = [run EXCEPT ![r] = y]
  BY DEF Take
<1>3. x \in Run /\ x = run[r] /\ todo \subseteq x.todo
  BY DEF BaseInv, TypeOK
<1> HIDE DEF left, x, todo
<1>4. w \in Worker /\ w.pc = "next" /\ w.left = left
  BY <1>1, NoWorkerIsWorker
<1>5. y \in Run /\ y.by = x.by /\ y.todo \subseteq x.todo /\ y.workers = x.workers
  BY <1>3 DEF Run
<1> HIDE DEF w, y
<1>6. Own(r, m) /\ worker'[r][m] = w
  BY <1>2, <1>4, SetWorker DEF BaseInv, TypeOK
<1>7. SameRuns
  BY <1>2, <1>3, <1>5 DEF SameRuns, BaseInv, TypeOK
<1>8. RestTyped'
  BY DEF RestTyped, Take, BaseInv, TypeOK
<1>9. QED
  BY <1>1, <1>4, <1>6, <1>7, <1>8 DEF Takes, Take

LEMMA FindOutcome ==
  ASSUME BaseInv, NEW r \in Runs, NEW m \in Media, Find(r, m)
  PROVE  Finds(r, m) /\ RestTyped'
<1>1. PICK d \in worker[r][m].left :
        /\ worker' = [worker EXCEPT ![r][m] =
             [pc |-> "save", left |-> worker[r][m].left \ {d}, item |-> d, state |-> row[d]]]
        /\ shared' = IF Others(r, m, d) = {} THEN shared
                     ELSE shared \cup ((Others(r, m, d) \cup {r}) \X {m})
  BY DEF Find
<1> DEFINE left == worker[r][m].left \ {d}
           state == row[d]
           w == [pc |-> "save", left |-> left, item |-> d, state |-> state]
<1>2. d \in Downloads /\ left \in SUBSET Downloads
  BY WorkerFields DEF BaseInv, TypeOK
<1>3. state \in Row
  BY <1>2 DEF BaseInv, TypeOK
<1>4. worker' = [worker EXCEPT ![r][m] = w]
  BY <1>1
<1>5. left \subseteq worker[r][m].left /\ state = row[d]
  OBVIOUS
<1> HIDE DEF left, state
<1>6. /\ w \in Worker /\ w.pc = "save" /\ w.left = left /\ w.item = d
      /\ w.state = state
  BY <1>2, <1>3 DEF Worker, Steps
<1> HIDE DEF w
<1>7. Own(r, m) /\ worker'[r][m] = w
  BY <1>4, <1>6, SetWorker DEF BaseInv, TypeOK
<1>8. /\ shared \subseteq shared' /\ shared' \subseteq Runs \X Media
      /\ \A s \in Runs \ {r} : worker[s][m].item = d => {<<s, m>>, <<r, m>>} \subseteq shared'
  BY <1>1 DEF Others, BaseInv, TypeOK
<1>9. SameRuns /\ RestTyped' /\ UNCHANGED <<row, retries, met>>
  BY <1>8 DEF SameRuns, RestTyped, Find, BaseInv, TypeOK
<1>10. QED
  BY <1>5, <1>6, <1>7, <1>8, <1>9 DEF Finds, Find, At

(* The state of a worker at an item, and the item.                          *)
LEMMA AtItem ==
  ASSUME BaseInv, NEW r \in Runs, NEW m \in Media, Handling(r, m)
  PROVE  /\ worker[r][m].item \in Downloads /\ MediaOf[worker[r][m].item] = m
         /\ worker[r][m].state \in Row /\ Capped(worker[r][m].state)
         /\ worker[r][m].pc # "save" => worker[r][m].state.there
         /\ row[worker[r][m].item] \in Row /\ worker[r][m] \in Worker
BY WorkerFields DEF BaseInv, TypeOK, ItemsOwn, CountsCapped

LEMMA SaveOutcome ==
  ASSUME BaseInv, NEW r \in Runs, NEW m \in Media, Save(r, m)
  PROVE  (Writes(r, m) \/ Drops(r, m)) /\ RestTyped'
<1> DEFINE d     == worker[r][m].item
           cond  == run[r].seen[d].cond
           found == worker[r][m].state
           state == IF found.there THEN Progressed(cond, found) ELSE Created(d)
<1>1. Handling(r, m) /\ worker[r][m].pc = "save"
  BY DEF Save, At, Handling
<1>2. d \in Downloads /\ found \in Row /\ Capped(found) /\ worker[r][m] \in Worker
  BY <1>1, AtItem
<1>3. cond \in Conditions
  <2>1. run[r] \in Run
    BY DEF BaseInv, TypeOK
  <2>2. run[r].seen[d] \in Item
    BY <1>2, <2>1 DEF Run
  <2>3. QED
    BY <2>2 DEF Item
<1>4. /\ state \in Row /\ state.there /\ state.retryCount = found.retryCount
      /\ state.lastAction = found.lastAction
  <2>1. CASE found.there
    BY <1>2, <1>3, <2>1, ProgressedIsRow DEF SameCount
  <2>2. CASE ~found.there
    BY <1>2, <2>2, CreatedIsRow DEF Capped, BaseInv, TypeOK
  <2>3. QED
    BY <2>1, <2>2
<1>5. CASE Conflict(d, found)
  <2>1. Fail(r, m) /\ UNCHANGED <<row, instance, queue, retries, met, aged>>
    BY <1>5 DEF Save
  <2>2. Drops(r, m) /\ running' \in SUBSET Processes /\ shared' \in SUBSET (Runs \X Media)
    BY <1>1, <2>1, WorkerFails DEF BaseInv
  <2>3. QED
    BY <2>1, <2>2 DEF RestTyped, BaseInv, TypeOK
<1>6. CASE ~Conflict(d, found)
  <2>1. /\ Saves(d, state) /\ UNCHANGED <<running, instance, queue, retries, met, aged>>
        /\ \/ Goto(r, m, "ignore", state)
           \/ Goto(r, m, IF state.retryCount >= MaxRetries THEN "limit" ELSE "count", state)
           \/ Done(r, m)
    BY <1>6 DEF Save
  <2> HIDE DEF state, cond
  <2>2. OwnRow(d) /\ SameCount(row'[d], state) /\ (row'[d].old => row[d].old)
    BY <1>2, <1>4, <2>1, SaveWrites DEF BaseInv, TypeOK
  <2>3. ASSUME NEW pc \in {"ignore", "limit", "count"}, Goto(r, m, pc, state),
               pc = "count" => state.retryCount < MaxRetries
        PROVE  Writes(r, m)
    <3>1. /\ Own(r, m) /\ worker'[r][m].pc = pc /\ worker'[r][m].state = state
          /\ worker'[r][m].left = worker[r][m].left /\ worker'[r][m].item = d
      BY <1>4, <2>3, GoesTo DEF BaseInv, TypeOK, Steps
    <3>2. SameRuns /\ shared' = shared
      BY <2>3 DEF Goto, SameRuns, BaseInv, TypeOK
    <3>3. QED
      BY <1>1, <1>2, <1>4, <2>1, <2>2, <2>3, <3>1, <3>2, RowFields DEF Writes, SameCount
  <2>4. ASSUME Done(r, m)
        PROVE  Writes(r, m)
    <3>1. /\ Own(r, m) /\ SameRuns /\ worker'[r][m].pc \in {"idle", "next"}
          /\ worker'[r][m].left = worker[r][m].left /\ shared' = shared \ {<<r, m>>}
      BY <1>2, <2>4, ItemDone DEF BaseInv, TypeOK
    <3>2. QED
      BY <1>1, <1>2, <1>4, <2>1, <2>2, <3>1, RowFields DEF Writes, SameCount
  <2>5. state.retryCount \in Nat /\ MaxRetries \in Nat
    BY <1>4, RowFields, ConstantsAssumption
  <2>6. RestTyped'
    BY <2>1 DEF RestTyped, BaseInv, TypeOK, Goto, Done
  <2>7. QED
    BY <2>1, <2>3, <2>4, <2>5, <2>6
<1>7. QED
  BY <1>5, <1>6

(* A worker that saves what it has decided and is done.                     *)
LEMMA LastSave ==
  ASSUME BaseInv, NEW r \in Runs, NEW m \in Media, NEW state \in Row,
         worker[r][m].pc \in {"ignore", "limit", "mediaLimit", "record"},
         Saves(worker[r][m].item, state), Done(r, m),
         UNCHANGED <<running, instance, queue, met, aged>>, retries' \in [Downloads -> Nat],
         retries' = IF worker[r][m].pc = "record" /\ <<r, m>> \notin shared
                    THEN [retries EXCEPT ![worker[r][m].item] = @ + 1] ELSE retries,
         state.there,
         state.retryCount = worker[r][m].state.retryCount
                              + (IF worker[r][m].pc = "record" THEN 1 ELSE 0),
         state.lastAction = "retried" => worker[r][m].pc = "record"
  PROVE  Writes(r, m) /\ RestTyped'
<1> DEFINE d == worker[r][m].item
<1>1. Handling(r, m) /\ worker[r][m].pc # "save"
  BY DEF Handling
<1>2. d \in Downloads
  BY <1>1, AtItem
<1>3. OwnRow(d) /\ SameCount(row'[d], state) /\ (row'[d].old => row[d].old)
  BY <1>2, SaveWrites DEF BaseInv, TypeOK
<1>4. /\ Own(r, m) /\ SameRuns /\ worker'[r][m].pc \in {"idle", "next"}
      /\ worker'[r][m].left = worker[r][m].left /\ shared' = shared \ {<<r, m>>}
  BY <1>2, ItemDone DEF BaseInv, TypeOK
<1>5. Writes(r, m)
  BY <1>1, <1>3, <1>4 DEF Writes, SameCount
<1>6. QED
  BY <1>4, <1>5 DEF RestTyped, BaseInv, TypeOK

LEMMA FailOutcome ==
  ASSUME BaseInv, NEW r \in Runs, NEW m \in Media, worker[r][m].pc # "idle", Fail(r, m),
         UNCHANGED <<row, queue, retries, met, aged>>, instance' \in Instance
  PROVE  Drops(r, m) /\ RestTyped'
BY WorkerFails DEF BaseInv, RestTyped, TypeOK

LEMMA MarkOutcome ==
  ASSUME BaseInv, NEW r \in Runs, NEW m \in Media,
         Ignore(r, m) \/ RetryLimit(r, m) \/ MediaRetryLimit(r, m)
  PROVE  (Writes(r, m) \/ Drops(r, m)) /\ RestTyped'
<1> DEFINE found == worker[r][m].state
           d == worker[r][m].item
<1>1. PICK action \in Actions \ {"retried"}, pc \in {"ignore", "limit", "mediaLimit"} :
        Mark(r, m, pc, action)
  BY DEF Ignore, RetryLimit, MediaRetryLimit, Actions
<1>2. worker[r][m].pc = pc /\ Handling(r, m) /\ worker[r][m].pc # "save"
      /\ UNCHANGED <<instance, queue, retries, met, aged>>
  BY <1>1 DEF Mark, At, Handling
<1>3. found \in Row /\ found.there /\ found.retryCount \in Nat
  BY <1>2, AtItem, RowFields
<1>4. CASE Conflict(d, found)
  <2>1. Fail(r, m) /\ UNCHANGED row
    BY <1>1, <1>4 DEF Mark
  <2>2. QED
    BY <1>2, <2>1, FailOutcome DEF BaseInv, TypeOK
<1>5. CASE ~Conflict(d, found)
  <2> DEFINE state == [found EXCEPT !.lastAction = action]
  <2>1. Saves(d, state) /\ Done(r, m) /\ UNCHANGED running
    BY <1>1, <1>5 DEF Mark
  <2>2. found = worker[r][m].state
    OBVIOUS
  <2> HIDE DEF found
  <2>3. /\ state \in Row /\ state.there /\ state.retryCount = found.retryCount
        /\ state.lastAction = action
    BY <1>3, RowMarked
  <2> HIDE DEF state
  <2>4. instance' \in Instance /\ retries' \in [Downloads -> Nat]
        /\ met' \in SUBSET Media /\ aged' \in SUBSET Media
    BY <1>2 DEF BaseInv, TypeOK
  <2>5. worker[r][m].pc \in {"ignore", "limit", "mediaLimit"}
    BY <1>1, <1>2
  <2>6. worker[r][m].pc # "record" /\ Saves(worker[r][m].item, state)
    BY <2>1, <2>5
  <2>7. retries' = (IF worker[r][m].pc = "record" /\ <<r, m>> \notin shared
                    THEN [retries EXCEPT ![worker[r][m].item] = @ + 1] ELSE retries)
    BY <1>2, <2>6
  <2>8. state.retryCount = worker[r][m].state.retryCount
                              + (IF worker[r][m].pc = "record" THEN 1 ELSE 0)
    BY <1>3, <2>2, <2>3, <2>6
  <2>9. Writes(r, m) /\ RestTyped'
    BY <1>2, <2>1, <2>3, <2>4, <2>5, <2>6, <2>7, <2>8, LastSave
  <2>10. QED
    BY <2>9
<1>6. QED
  BY <1>4, <1>5

LEMMA RecordOutcome ==
  ASSUME BaseInv, NEW r \in Runs, NEW m \in Media, Record(r, m)
  PROVE  (Writes(r, m) \/ Drops(r, m)) /\ RestTyped'
<1> DEFINE found == worker[r][m].state
           d == worker[r][m].item
<1>1. worker[r][m].pc = "record" /\ Handling(r, m)
      /\ UNCHANGED <<instance, queue, met, aged>>
  BY DEF Record, At, Handling
<1>2. found \in Row /\ found.there
  BY <1>1, AtItem
<1>3. CASE Conflict(d, found)
  <2>1. Fail(r, m) /\ UNCHANGED <<row, retries>>
    BY <1>3 DEF Record
  <2>2. QED
    BY <1>1, <2>1, FailOutcome DEF BaseInv, TypeOK
<1>4. CASE ~Conflict(d, found)
  <2> DEFINE state == Counted(found)
  <2>1. /\ Saves(d, state) /\ Done(r, m) /\ UNCHANGED running
        /\ retries' = IF <<r, m>> \in shared THEN retries ELSE [retries EXCEPT ![d] = @ + 1]
    BY <1>4 DEF Record
  <2>2. state \in Row /\ state.there /\ state.retryCount = found.retryCount + 1
    BY <1>2, CountedIsRow
  <2>3. retries' \in [Downloads -> Nat]
    BY <1>1, <2>1, AtItem DEF BaseInv, TypeOK
  <2> HIDE DEF state
  <2>4. QED
    BY <1>1, <2>1, <2>2, <2>3, LastSave
<1>5. QED
  BY <1>3, <1>4

(* A worker that goes on with the state that it has.                        *)
LEMMA GoesOn ==
  ASSUME BaseInv, NEW r \in Runs, NEW m \in Media, NEW pc \in Steps,
         Handling(r, m), Goto(r, m, pc, worker[r][m].state)
  PROVE  /\ Own(r, m) /\ SameRuns /\ worker'[r][m].pc = pc /\ shared' = shared
         /\ worker'[r][m].state = worker[r][m].state
         /\ worker'[r][m].left = worker[r][m].left /\ worker'[r][m].item = worker[r][m].item
<1>1. worker[r][m].state \in Row
  BY AtItem
<1>2. SameRuns /\ shared' = shared
  BY DEF Goto, SameRuns, BaseInv, TypeOK
<1>3. QED
  BY <1>1, <1>2, GoesTo DEF BaseInv, TypeOK

LEMMA CountOutcome ==
  ASSUME BaseInv, NEW r \in Runs, NEW m \in Media, Count(r, m)
  PROVE  Advances(r, m) /\ RestTyped'
<1> DEFINE pc == IF Cardinality(Retried(m)) >= MaxMediaRetries THEN "mediaLimit" ELSE "delete"
<1>1. /\ worker[r][m].pc = "count" /\ Handling(r, m) /\ pc \in Steps
      /\ Goto(r, m, pc, worker[r][m].state)
      /\ UNCHANGED <<instance, queue, row, running, retries, met, aged>>
  BY DEF Count, At, Handling, Steps, ghosts
<1>2. Cardinality(Retried(m)) \in Nat /\ MaxMediaRetries \in Nat
  <2>1. IsFiniteSet(Retried(m))
    BY ConstantsAssumption, FS_Subset DEF Retried
  <2>2. QED
    BY <2>1, FS_CardinalityType, ConstantsAssumption
<1>3. pc = "mediaLimit" \/ (pc = "delete" /\ Cardinality(Retried(m)) < MaxMediaRetries)
  BY <1>2
<1> HIDE DEF pc
<1>4. /\ Own(r, m) /\ SameRuns /\ worker'[r][m].pc = pc /\ shared' = shared
      /\ worker'[r][m].state = worker[r][m].state
      /\ worker'[r][m].left = worker[r][m].left /\ worker'[r][m].item = worker[r][m].item
  BY <1>1, GoesOn
<1>5. QED
  BY <1>1, <1>3, <1>4 DEF Advances, RestTyped, BaseInv, TypeOK

LEMMA SearchOutcome ==
  ASSUME BaseInv, NEW r \in Runs, NEW m \in Media, Search(r, m)
  PROVE  Advances(r, m) /\ RestTyped'
<1>1. /\ worker[r][m].pc = "search" /\ Handling(r, m) /\ "record" \in Steps
      /\ Goto(r, m, "record", worker[r][m].state)
      /\ UNCHANGED <<instance, queue, row, running, retries, met, aged>>
  BY DEF Search, At, Handling, Steps, ghosts
<1>2. /\ Own(r, m) /\ SameRuns /\ worker'[r][m].pc = "record" /\ shared' = shared
      /\ worker'[r][m].state = worker[r][m].state
      /\ worker'[r][m].left = worker[r][m].left /\ worker'[r][m].item = worker[r][m].item
  BY <1>1, GoesOn
<1>3. QED
  BY <1>1, <1>2 DEF Advances, RestTyped, BaseInv, TypeOK

LEMMA ItemFields ==
  ASSUME NEW x \in Item, NEW cond \in Conditions, NEW i \in {0, 1}
  PROVE  /\ x.id \in {0, 1} /\ x.cond \in Conditions
         /\ [x EXCEPT !.cond = cond] \in Item /\ [cond |-> cond, id |-> i] \in Item
BY DEF Item

LEMMA QueueChanges ==
  ASSUME queue \in [Downloads -> Item], NEW d \in Downloads, NEW cond \in Conditions,
         queue' = [queue EXCEPT ![d].cond = cond]
  PROVE  queue' \in [Downloads -> Item]
<1> DEFINE x == queue[d]
           y == [x EXCEPT !.cond = cond]
<1>1. x \in Item /\ queue' = [queue EXCEPT ![d] = y]
  OBVIOUS
<1> HIDE DEF x
<1>2. y \in Item
  BY <1>1, ItemFields
<1> HIDE DEF y
<1>3. QED
  BY <1>1, <1>2

LEMMA DeleteOutcome ==
  ASSUME BaseInv, NEW r \in Runs, NEW m \in Media, Delete(r, m)
  PROVE  (Advances(r, m) \/ Drops(r, m)) /\ RestTyped'
<1> DEFINE d == worker[r][m].item
<1>1. /\ worker[r][m].pc = "delete" /\ Handling(r, m) /\ "search" \in Steps
      /\ UNCHANGED <<instance, row, retries, met, aged>>
  BY DEF Delete, At, Handling, Steps
<1>2. d \in Downloads
  BY <1>1, AtItem
<1>3. CASE Fail(r, m) /\ UNCHANGED queue
  BY <1>1, <1>3, FailOutcome DEF BaseInv, TypeOK
<1>4. CASE /\ queue' = [queue EXCEPT ![d].cond = "gone"]
           /\ Goto(r, m, "search", worker[r][m].state) /\ UNCHANGED running
  <2>1. /\ Own(r, m) /\ SameRuns /\ worker'[r][m].pc = "search" /\ shared' = shared
        /\ worker'[r][m].state = worker[r][m].state
        /\ worker'[r][m].left = worker[r][m].left /\ worker'[r][m].item = worker[r][m].item
    BY <1>1, <1>4, GoesOn
  <2>2. "gone" \in Conditions
    BY DEF Conditions
  <2>3. queue' \in [Downloads -> Item]
    BY <1>2, <1>4, <2>2, QueueChanges DEF BaseInv, TypeOK
  <2>4. Advances(r, m)
    BY <1>1, <1>4, <2>1 DEF Advances
  <2>5. QED
    BY <1>1, <1>4, <2>1, <2>3, <2>4 DEF RestTyped, BaseInv, TypeOK
<1>5. QED
  BY <1>3, <1>4 DEF Delete

LEMMA InstanceSpent ==
  ASSUME instance \in Instance,
         Spend("arrivals") \/ Spend("ages") \/ Spend("faults")
  PROVE  instance' \in Instance
BY DEF Spend, Instance

(* Every step of a worker comes to one of these.                            *)
LEMMA WorkerOutcomes ==
  ASSUME BaseInv, NEW r \in Runs, NEW m \in Media, Handle(r, m) \/ Error(r, m)
  PROVE  /\ Takes(r, m) \/ Finds(r, m) \/ Writes(r, m) \/ Advances(r, m) \/ Drops(r, m)
         /\ RestTyped' /\ UNCHANGED aged
<1>1. CASE Handle(r, m)
  <2>1. UNCHANGED aged
    BY <1>1 DEF Handle, Take, Find, Save, Ignore, RetryLimit, MediaRetryLimit, Mark, Count,
                Delete, Search, Record, ghosts
  <2>2. QED
    BY <1>1, <2>1, TakeOutcome, FindOutcome, SaveOutcome, MarkOutcome, RecordOutcome,
       CountOutcome, SearchOutcome, DeleteOutcome DEF Handle
<1>2. CASE Error(r, m)
  <2>1. instance' \in Instance
    BY <1>2, InstanceSpent DEF Error, BaseInv, TypeOK
  <2>2. QED
    BY <1>2, <2>1, FailOutcome DEF Error
<1>3. QED
  BY <1>1, <1>2

-----------------------------------------------------------------------------
(* Type correctness *)

(* Each run keeps its workers, or loses some with all else unchanged.       *)
LEMMA StaffedKept ==
  ASSUME Staffed, TypeOK, SameRuns,
         \A q \in Runs, k \in Media : worker'[q][k].pc # "idle" => worker[q][k].pc # "idle"
  PROVE  Staffed'
<1> SUFFICES ASSUME NEW q \in Runs
             PROVE  /\ Cardinality(Busy(q)') <= run'[q].workers
                    /\ run'[q].by = None => Busy(q)' = {} /\ run'[q].todo = {}
  BY DEF Staffed
<1>1. Busy(q)' \subseteq Busy(q)
  BY DEF Busy
<1>2. /\ Cardinality(Busy(q)') <= Cardinality(Busy(q)) /\ Cardinality(Busy(q)) \in Nat
      /\ Cardinality(Busy(q)') \in Nat
  BY <1>1, BusyFinite, FS_Subset, FS_CardinalityType
<1>3. run[q].workers \in Nat
  BY DEF TypeOK, Run
<1>4. QED
  BY <1>1, <1>2, <1>3 DEF Staffed, SameRuns

LEMMA StaffedTakes ==
  ASSUME Staffed, TypeOK, NEW r \in Runs, NEW m \in Media, Takes(r, m)
  PROVE  Staffed'
<1> SUFFICES ASSUME NEW q \in Runs
             PROVE  /\ Cardinality(Busy(q)') <= run'[q].workers
                    /\ run'[q].by = None => Busy(q)' = {} /\ run'[q].todo = {}
  BY DEF Staffed
<1>1. run[q].workers \in Nat /\ Cardinality(Busy(q)) \in Nat /\ IsFiniteSet(Busy(q))
  BY BusyFinite DEF TypeOK, Run
<1>2. CASE q # r
  <2>1. Busy(q)' = Busy(q)
    BY <1>2 DEF Busy, Takes, Own
  <2>2. QED
    BY <2>1 DEF Staffed, Takes, SameRuns
<1>3. CASE q = r
  <2>1. Busy(q)' \subseteq Busy(q) \cup {m}
    BY <1>3 DEF Busy, Takes, Own
  <2>2. /\ IsFiniteSet(Busy(q) \cup {m})
        /\ Cardinality(Busy(q) \cup {m}) <= Cardinality(Busy(q)) + 1
        /\ Cardinality(Busy(q) \cup {m}) \in Nat
    <3> DEFINE S == Busy(q)
    <3>1. IsFiniteSet(S) /\ Cardinality(S) \in Nat
      BY <1>1
    <3> HIDE DEF S
    <3>2. /\ IsFiniteSet(S \cup {m})
          /\ Cardinality(S \cup {m}) = IF m \in S THEN Cardinality(S) ELSE Cardinality(S) + 1
      BY <3>1, FS_AddElement
    <3>3. /\ IsFiniteSet(S \cup {m}) /\ Cardinality(S \cup {m}) <= Cardinality(S) + 1
          /\ Cardinality(S \cup {m}) \in Nat
      BY <3>1, <3>2
    <3>4. QED
      BY <3>3 DEF S
  <2>3. Cardinality(Busy(q)') <= Cardinality(Busy(q) \cup {m}) /\ Cardinality(Busy(q)') \in Nat
    BY <2>1, <2>2, FS_Subset, FS_CardinalityType
  <2>4. run'[q].workers = run[q].workers /\ run'[q].by = run[q].by /\ run[q].by # None
        /\ Cardinality(Busy(q)) < run[q].workers
    BY <1>3 DEF Takes, SameRuns, Staffed
  <2>5. QED
    BY <1>1, <2>2, <2>3, <2>4
<1>4. QED
  BY <1>2, <1>3

LEMMA StaffedDrops ==
  ASSUME Staffed, TypeOK, NEW r \in Runs, NEW m \in Media, Drops(r, m)
  PROVE  Staffed'
<1> SUFFICES ASSUME NEW q \in Runs
             PROVE  /\ Cardinality(Busy(q)') <= run'[q].workers
                    /\ run'[q].by = None => Busy(q)' = {} /\ run'[q].todo = {}
  BY DEF Staffed
<1>1. run[q].workers \in Nat /\ Cardinality(Busy(q)) \in Nat /\ IsFiniteSet(Busy(q))
  BY BusyFinite DEF TypeOK, Run
<1>2. CASE q # r
  <2>1. Busy(q)' = Busy(q)
    BY <1>2 DEF Busy, Drops, Own
  <2>2. QED
    BY <1>2, <2>1 DEF Staffed, Drops
<1>3. CASE q = r
  <2>1. m \in Busy(q)
    BY <1>3 DEF Busy, Drops
  <2>2. Busy(q)' = Busy(q) \ {m}
    <3>1. worker'[r][m].pc = "idle"
      BY NoWorkerIsWorker DEF Drops
    <3>2. \A k \in Media : k = m \/ worker'[r][k] = worker[r][k]
      BY DEF Drops, Own
    <3>3. QED
      BY <1>3, <3>1, <3>2 DEF Busy
  <2>3. Cardinality(Busy(q)') = Cardinality(Busy(q)) - 1
    BY <1>1, <2>1, <2>2, FS_RemoveElement
  <2>4. run'[q].workers = run[q].workers - 1 /\ run'[q].by = run[q].by /\ run[q].by # None
        /\ Cardinality(Busy(q)) <= run[q].workers
    BY <1>3, <2>1 DEF Drops, Staffed
  <2>5. QED
    BY <1>1, <2>3, <2>4
<1>4. QED
  BY <1>2, <1>3

(* The steps of a worker keep the types and the items of the workers.       *)
LEMMA WorkerTypes ==
  ASSUME BaseInv, NEW r \in Runs, NEW m \in Media,
         Takes(r, m) \/ Finds(r, m) \/ Writes(r, m) \/ Advances(r, m) \/ Drops(r, m),
         RestTyped'
  PROVE  TypeOK' /\ Staffed' /\ ItemsOwn'
<1>1. TypeOK'
  BY DEF TypeOK, BaseInv, RestTyped, Takes, Finds, Writes, Advances, Drops, Own, OwnRow, SameRuns
<1>2. Staffed'
  <2>1. CASE Finds(r, m) \/ Writes(r, m) \/ Advances(r, m)
    <3>1. worker[r][m].pc # "idle" /\ SameRuns /\ Own(r, m)
      BY <2>1 DEF Finds, Writes, Advances
    <3>2. \A q \in Runs, k \in Media : worker'[q][k].pc # "idle" => worker[q][k].pc # "idle"
      BY <3>1 DEF Own
    <3>3. QED
      BY <3>1, <3>2, StaffedKept DEF BaseInv
  <2>2. QED
    BY <2>1, StaffedTakes, StaffedDrops DEF BaseInv
<1>3. ItemsOwn'
  <2>1. Own(r, m)
    BY DEF Takes, Finds, Writes, Advances, Drops
  <2>2. /\ \A d \in worker'[r][m].left : MediaOf[d] = m
        /\ Handling(r, m)' => worker'[r][m].item \in Downloads /\ MediaOf[worker'[r][m].item] = m
    <3>1. /\ \A d \in worker[r][m].left : MediaOf[d] = m
          /\ worker[r][m].left \subseteq Downloads
      BY WorkerFields DEF BaseInv, TypeOK, ItemsOwn
    <3>2. CASE Takes(r, m)
      BY <3>2 DEF Takes, Handling
    <3>3. CASE Finds(r, m)
      BY <3>1, <3>3 DEF Finds, Handling
    <3>4. CASE Writes(r, m)
      <4>1. worker[r][m].item \in Downloads /\ MediaOf[worker[r][m].item] = m
        BY <3>4, AtItem DEF Writes, Handling
      <4>2. QED
        BY <3>1, <3>4, <4>1 DEF Writes, Handling
    <3>5. CASE Advances(r, m)
      <4>1. worker[r][m].item \in Downloads /\ MediaOf[worker[r][m].item] = m
        BY <3>5, AtItem DEF Advances, Handling
      <4>2. QED
        BY <3>1, <3>5, <4>1 DEF Advances, Handling
    <3>6. CASE Drops(r, m)
      BY <3>6, NoWorkerIsWorker DEF Drops, Handling
    <3>7. QED
      BY <3>2, <3>3, <3>4, <3>5, <3>6
  <2>3. QED
    BY <2>1, <2>2 DEF ItemsOwn, BaseInv, Own, Handling
<1>4. QED
  BY <1>1, <1>2, <1>3

(* They keep the counts within the limit.                                   *)
LEMMA WorkerCounts ==
  ASSUME BaseInv, NEW r \in Runs, NEW m \in Media,
         Takes(r, m) \/ Finds(r, m) \/ Writes(r, m) \/ Advances(r, m) \/ Drops(r, m)
  PROVE  CountsCapped'
<1> DEFINE w == worker[r][m]  new == worker'[r][m]
           InHand(v) ==
             /\ v.pc \notin {"idle", "next"} => Capped(v.state)
             /\ v.pc \notin {"idle", "next"} /\ v.pc # "save" => v.state.there
             /\ v.pc \in {"count", "mediaLimit", "delete", "search", "record"}
                  => v.state.retryCount < MaxRetries
<1>1. Own(r, m) /\ InHand(w)
  BY DEF Takes, Finds, Writes, Advances, Drops, BaseInv, CountsCapped, Handling
<1>2. (\A d \in Downloads : Capped(row'[d])) /\ InHand(new)
  <2>1. \A d \in Downloads : Capped(row[d])
    BY DEF BaseInv, CountsCapped
  <2>2. CASE Takes(r, m)
    BY <2>1, <2>2 DEF Takes
  <2>3. CASE Drops(r, m)
    BY <2>1, <2>3, NoWorkerIsWorker DEF Drops
  <2>4. CASE Finds(r, m)
    <3>1. worker[r][m].left \subseteq Downloads
      BY WorkerFields DEF BaseInv, TypeOK
    <3>2. QED
      BY <2>1, <2>4, <3>1 DEF Finds
  <2>5. CASE Advances(r, m)
    BY <1>1, <2>1, <2>5 DEF Advances
  <2>6. CASE Writes(r, m)
    <3>1. /\ w.item \in Downloads /\ Capped(w.state) /\ w.state.retryCount \in Nat
          /\ MaxRetries \in Nat
      BY <2>6, AtItem, RowFields, ConstantsAssumption DEF Writes, Handling
    <3>2. Capped(row'[w.item])
      BY <1>1, <2>6, <3>1 DEF Writes, Capped
    <3>3. \A d \in Downloads : Capped(row'[d])
      BY <2>1, <2>6, <3>2 DEF Writes, OwnRow
    <3>4. InHand(new)
      BY <2>6, <3>2 DEF Writes, SameCount, Capped
    <3>5. QED
      BY <3>3, <3>4
  <2>7. QED
    BY <2>2, <2>3, <2>4, <2>5, <2>6
<1>3. \A q \in Runs, k \in Media : InHand(worker'[q][k])
  <2>1. \A q \in Runs, k \in Media : InHand(worker[q][k])
    BY DEF BaseInv, CountsCapped, Handling
  <2> HIDE DEF InHand
  <2>2. QED
    BY <1>1, <1>2, <2>1 DEF Own
<1>4. QED
  BY <1>2, <1>3 DEF CountsCapped, Handling

LEMMA InitBase == Init => BaseInv
<1> SUFFICES ASSUME Init  PROVE BaseInv
  OBVIOUS
<1>1. NoRow \in Row /\ Capped(NoRow)
  BY NoRowIsRow, ConstantsAssumption DEF Capped
<1>2. NoWorker \in Worker /\ NoWorker.pc = "idle" /\ NoWorker.left = {}
  BY NoWorkerIsWorker
<1>3. NoRun \in Run /\ NoRun.workers = 0 /\ NoRun.todo = {}
  BY DEF NoRun, Run, Unseen, Item, Conditions
<1>4. TypeOK
  BY <1>1, <1>2, <1>3, ConstantsAssumption DEF Init, TypeOK
<1>5. Staffed
  <2>1. \A r \in Runs : Busy(r) = {} /\ run[r].workers = 0 /\ run[r].todo = {}
    BY <1>2, <1>3 DEF Init, Busy
  <2>2. \A r \in Runs : Cardinality(Busy(r)) = 0
    BY <2>1, FS_EmptySet, Zenon
  <2>3. QED
    BY <2>1, <2>2 DEF Staffed
<1>6. ItemsOwn
  BY <1>2 DEF Init, ItemsOwn, Handling
<1>7. CountsCapped
  BY <1>1, <1>2 DEF Init, CountsCapped, Handling
<1>8. QED
  BY <1>4, <1>5, <1>6, <1>7 DEF BaseInv

(* Steps that change neither a row nor a worker.                            *)
LEMMA QuietBase ==
  ASSUME BaseInv, UNCHANGED <<row, worker>>, TypeOK', Staffed'
  PROVE  BaseInv'
BY DEF BaseInv, ItemsOwn, CountsCapped, Handling

LEMMA StartBase ==
  ASSUME BaseInv, NEW r \in Runs, NEW p \in Processes, Start(r, p)
  PROVE  BaseInv'
<1> DEFINE todo == {m \in Media : InQueue(queue, m) # {}}
           n == IF Cardinality(todo) < Concurrency THEN Cardinality(todo) ELSE Concurrency
           x == [by |-> p, awaited |-> TRUE, seen |-> queue, todo |-> todo, workers |-> n]
<1>1. /\ run[r].by = None /\ run' = [run EXCEPT ![r] = x] /\ running' = running \cup {p}
      /\ UNCHANGED <<instance, queue, row, worker, ghosts>>
  BY DEF Start, ghosts
<1>2. todo \in SUBSET Media /\ n \in Nat
  BY ConstantsAssumption, FS_Subset, FS_CardinalityType
<1> HIDE DEF todo, n
<1>3. x \in Run /\ x.workers = n /\ x.by # None
  BY <1>2, ConstantsAssumption DEF Run, BaseInv, TypeOK
<1> HIDE DEF x
<1>4. TypeOK'
  BY <1>1, <1>3 DEF BaseInv, TypeOK, ghosts
<1>5. \A q \in Runs : Busy(q)' = Busy(q)
  BY <1>1 DEF Busy
<1>6. Busy(r) = {} /\ Cardinality({}) = 0
  BY <1>1, FS_EmptySet DEF BaseInv, Staffed
<1>7. Staffed'
  <2> SUFFICES ASSUME NEW q \in Runs
               PROVE  /\ Cardinality(Busy(q)') <= run'[q].workers
                      /\ run'[q].by = None => Busy(q)' = {} /\ run'[q].todo = {}
    BY DEF Staffed
  <2>1. CASE q = r
    <3>1. run'[q] = x
      BY <1>1, <2>1 DEF BaseInv, TypeOK
    <3>2. Cardinality(Busy(q)') = 0
      BY <1>5, <1>6, <2>1
    <3>3. QED
      BY <1>2, <1>3, <3>1, <3>2
  <2>2. CASE q # r
    <3>1. run'[q] = run[q]
      BY <1>1, <2>2 DEF BaseInv, TypeOK
    <3>2. QED
      BY <1>5, <3>1 DEF BaseInv, Staffed
  <2>3. QED
    BY <2>1, <2>2
<1>8. QED
  BY <1>1, <1>4, <1>7, QuietBase

(* A run that has no worker left is over.                                   *)
LEMMA RunOver ==
  ASSUME BaseInv, NEW r \in Runs, Busy(r) = {}, run' = [run EXCEPT ![r] = NoRun],
         UNCHANGED worker
  PROVE  run' \in [Runs -> Run] /\ Staffed'
<1>1. NoRun \in Run /\ NoRun.workers = 0 /\ NoRun.todo = {}
  BY DEF NoRun, Run, Unseen, Item, Conditions
<1>2. \A q \in Runs : Busy(q)' = Busy(q)
  BY DEF Busy
<1>3. Cardinality({}) = 0
  BY FS_EmptySet
<1>4. \A q \in Runs : run'[q] = IF q = r THEN NoRun ELSE run[q]
  BY DEF BaseInv, TypeOK
<1>5. Staffed'
  BY <1>1, <1>2, <1>3, <1>4 DEF BaseInv, Staffed
<1>6. QED
  BY <1>1, <1>5 DEF BaseInv, TypeOK

(* What the rows become when the old ones are deleted.                      *)
LEMMA CleanupRows ==
  ASSUME BaseInv, NEW r \in Runs, Cleanup(r)
  PROVE  /\ row' \in [Downloads -> Row]
         /\ \A d \in Downloads :
              IF row[d].old THEN SameCount(row'[d], NoRow) /\ ~row'[d].old /\ retries'[d] = 0
                            ELSE row'[d] = row[d] /\ retries'[d] = retries[d]
         /\ retries' \in [Downloads -> Nat] /\ UNCHANGED <<worker, met, shared, aged>>
<1> DEFINE cleared == [d \in Downloads |-> [NoRow EXCEPT !.id = row[d].id]]
<1>1. row' = [d \in Downloads |-> IF row[d].old THEN cleared[d] ELSE row[d]]
  BY DEF Cleanup
<1>2. \A d \in Downloads : cleared[d] \in Row /\ SameCount(cleared[d], NoRow) /\ ~cleared[d].old
  BY ClearedIsRow DEF BaseInv, TypeOK
<1> HIDE DEF cleared
<1>3. /\ row' \in [Downloads -> Row]
      /\ \A d \in Downloads :
           IF row[d].old THEN SameCount(row'[d], NoRow) /\ ~row'[d].old ELSE row'[d] = row[d]
  BY <1>1, <1>2 DEF BaseInv, TypeOK
<1>4. /\ retries' \in [Downloads -> Nat]
      /\ \A d \in Downloads : retries'[d] = IF row[d].old THEN 0 ELSE retries[d]
  BY DEF Cleanup, BaseInv, TypeOK
<1>5. UNCHANGED <<worker, met, shared, aged>>
  BY DEF Cleanup
<1>6. QED
  BY <1>3, <1>4, <1>5

LEMMA CleanupBase ==
  ASSUME BaseInv, NEW r \in Runs, Cleanup(r)
  PROVE  BaseInv'
<1>1. Staffed' /\ run' \in [Runs -> Run]
  BY RunOver DEF Cleanup
<1>2. running' \in SUBSET Processes /\ UNCHANGED <<instance, queue, worker, met, shared, aged>>
  BY DEF Cleanup, Released, BaseInv, TypeOK
<1>3. TypeOK'
  BY <1>1, <1>2, CleanupRows DEF BaseInv, TypeOK
<1>4. \A d \in Downloads : Capped(row'[d])
  <2>1. Capped(NoRow)
    BY NoRowIsRow, ConstantsAssumption DEF Capped
  <2>2. QED
    BY <2>1, CleanupRows DEF BaseInv, CountsCapped, Capped, SameCount
<1>5. ItemsOwn' /\ CountsCapped'
  BY <1>2, <1>4 DEF BaseInv, ItemsOwn, CountsCapped, Handling
<1>6. QED
  BY <1>1, <1>3, <1>5 DEF BaseInv

(* What a row becomes when time passes.                                     *)
LEMMA TimePasses ==
  ASSUME BaseInv, NEW d \in Downloads, Stall(d) \/ Age(d)
  PROVE  /\ OwnRow(d) /\ SameCount(row'[d], row[d])
         /\ row'[d].old => row[d].old \/ Age(d)
         /\ UNCHANGED <<worker, retries, met, shared, run, queue, running>>
         /\ instance' \in Instance
<1> DEFINE x == row[d]
           i == [x EXCEPT !.idle = TRUE]
           o == [x EXCEPT !.old = TRUE]
<1>1. x \in Row /\ x = row[d]
  BY DEF BaseInv, TypeOK
<1>2. CASE Stall(d)
  <2>1. row' = [row EXCEPT ![d] = i] /\ UNCHANGED <<worker, retries, met, shared, run, queue, running, instance>>
    BY <1>2 DEF Stall, ghosts
  <2> HIDE DEF x
  <2>2. i \in Row /\ SameCount(i, x) /\ (i.old <=> x.old)
    BY <1>1, RowStalled
  <2> HIDE DEF i
  <2>3. QED
    BY <1>1, <2>1, <2>2 DEF OwnRow, BaseInv, TypeOK
<1>3. CASE Age(d)
  <2>1. row' = [row EXCEPT ![d] = o] /\ UNCHANGED <<worker, retries, met, shared, run, queue, running>>
        /\ instance' \in Instance
    BY <1>3, InstanceSpent DEF Age, BaseInv, TypeOK
  <2> HIDE DEF x
  <2>2. o \in Row /\ SameCount(o, x)
    BY <1>1, RowAged
  <2> HIDE DEF o
  <2>3. QED
    BY <1>1, <1>3, <2>1, <2>2 DEF OwnRow, BaseInv, TypeOK
<1>4. QED
  BY <1>2, <1>3

LEMMA TimeBase ==
  ASSUME BaseInv, NEW d \in Downloads, Stall(d) \/ Age(d)
  PROVE  BaseInv'
<1>1. aged' \in SUBSET Media
  BY ConstantsAssumption DEF Stall, Age, BaseInv, TypeOK, ghosts
<1>2. TypeOK'
  BY <1>1, TimePasses DEF BaseInv, TypeOK, OwnRow
<1>3. Staffed' /\ ItemsOwn'
  <2>1. \A q \in Runs : Busy(q)' = Busy(q)
    BY TimePasses DEF Busy
  <2>2. QED
    BY <2>1, TimePasses DEF BaseInv, Staffed, ItemsOwn, Handling
<1>4. CountsCapped'
  BY TimePasses DEF BaseInv, CountsCapped, Handling, OwnRow, SameCount, Capped
<1>5. QED
  BY <1>2, <1>3, <1>4 DEF BaseInv

(* What a crash leaves of the workers.                                      *)
LEMMA CrashWorkers ==
  ASSUME BaseInv, NEW p \in Processes, Crash(p)
  PROVE  /\ worker' \in [Runs -> [Media -> Worker]] /\ run' \in [Runs -> Run]
         /\ \E gone \in SUBSET Runs :
              /\ gone # {}
              /\ \A r \in Runs :
                   IF r \in gone
                     THEN run'[r] = NoRun /\ \A m \in Media : worker'[r][m] = NoWorker
                     ELSE run'[r] = run[r] /\ worker'[r] = worker[r]
              /\ shared' = shared \ (gone \X Media)
         /\ UNCHANGED <<queue, row, retries, met, aged>> /\ running' \subseteq running
         /\ instance' \in Instance
<1> DEFINE gone == {r \in Runs : run[r].by = p}
<1>1. NoWorker \in Worker
  BY NoWorkerIsWorker
<1>2. NoRun \in Run
  BY DEF NoRun, Run, Unseen, Item, Conditions
<1>3. /\ run' = [r \in Runs |-> IF r \in gone THEN NoRun ELSE run[r]]
      /\ worker' = [r \in Runs |-> IF r \in gone THEN [m \in Media |-> NoWorker] ELSE worker[r]]
      /\ shared' = shared \ (gone \X Media)
      /\ gone # {} /\ running' \subseteq running /\ UNCHANGED <<queue, row, retries, met, aged>>
  BY DEF Crash
<1>4. instance' \in Instance
  BY InstanceSpent DEF Crash, BaseInv, TypeOK
<1>5. gone \in SUBSET Runs
  OBVIOUS
<1> HIDE DEF gone
<1>6. worker' \in [Runs -> [Media -> Worker]] /\ run' \in [Runs -> Run]
  BY <1>1, <1>2, <1>3 DEF BaseInv, TypeOK
<1>7. \A r \in Runs :
        IF r \in gone
          THEN run'[r] = NoRun /\ \A m \in Media : worker'[r][m] = NoWorker
          ELSE run'[r] = run[r] /\ worker'[r] = worker[r]
  BY <1>3
<1>8. QED
  BY <1>3, <1>4, <1>5, <1>6, <1>7

LEMMA CrashBase ==
  ASSUME BaseInv, NEW p \in Processes, Crash(p)
  PROVE  BaseInv'
<1>1. NoWorker.pc = "idle" /\ NoWorker.left = {}
  BY NoWorkerIsWorker
<1>2. NoRun.workers = 0 /\ NoRun.todo = {}
  BY DEF NoRun
<1>3. PICK gone \in SUBSET Runs :
        /\ \A r \in Runs :
             IF r \in gone
               THEN run'[r] = NoRun /\ \A m \in Media : worker'[r][m] = NoWorker
               ELSE run'[r] = run[r] /\ worker'[r] = worker[r]
        /\ shared' = shared \ (gone \X Media)
  BY CrashWorkers
<1>4. TypeOK'
  BY <1>3, CrashWorkers DEF BaseInv, TypeOK
<1>5. Staffed'
  <2>1. \A r \in gone : Busy(r)' = {}
    BY <1>1, <1>3 DEF Busy
  <2>2. \A r \in Runs \ gone : Busy(r)' = Busy(r)
    BY <1>3 DEF Busy
  <2>3. Cardinality({}) = 0
    BY FS_EmptySet
  <2>4. ASSUME NEW r \in Runs
        PROVE  /\ Cardinality(Busy(r)') <= run'[r].workers
               /\ run'[r].by = None => Busy(r)' = {} /\ run'[r].todo = {}
    <3>1. CASE r \in gone
      <4>1. Busy(r)' = {} /\ Cardinality(Busy(r)') = 0
        BY <2>1, <2>3, <3>1, Zenon
      <4>2. run'[r].workers = 0 /\ run'[r].todo = {}
        BY <1>2, <1>3, <3>1
      <4>3. QED
        BY <4>1, <4>2
    <3>2. CASE r \notin gone
      BY <1>3, <2>2, <3>2 DEF BaseInv, Staffed
    <3>3. QED
      BY <3>1, <3>2
  <2>5. QED
    BY <2>4 DEF Staffed
<1>6. ItemsOwn'
  BY <1>1, <1>3 DEF BaseInv, ItemsOwn, Handling
<1>7. CountsCapped'
  BY <1>1, <1>3, CrashWorkers DEF BaseInv, CountsCapped, Handling
<1>8. QED
  BY <1>4, <1>5, <1>6, <1>7 DEF BaseInv

LEMMA QueueBase ==
  ASSUME BaseInv, NEW d \in Downloads, Arrive(d) \/ Change(d)
  PROVE  BaseInv'
<1>1. instance.conditions \subseteq Conditions /\ "gone" \in Conditions
  BY DEF BaseInv, TypeOK, Instance, Conditions
<1>2. queue' \in [Downloads -> Item]
  <2>1. CASE Arrive(d)
    <3>1. PICK c \in Conditions : queue' = [queue EXCEPT ![d] = [cond |-> c, id |-> 1 - queue[d].id]]
      BY <1>1, <2>1 DEF Arrive
    <3> DEFINE i == 1 - queue[d].id
               x == [cond |-> c, id |-> i]
    <3>2. i \in {0, 1}
      BY ItemFields DEF BaseInv, TypeOK, Item
    <3>3. queue' = [queue EXCEPT ![d] = x]
      BY <3>1
    <3> HIDE DEF i
    <3>4. x \in Item
      BY <3>2 DEF Item
    <3> HIDE DEF x
    <3>5. QED
      BY <3>3, <3>4 DEF BaseInv, TypeOK
  <2>2. CASE Change(d)
    <3>1. PICK c \in Conditions : queue' = [queue EXCEPT ![d].cond = c]
      BY <1>1, <2>2 DEF Change
    <3>2. QED
      BY <3>1, QueueChanges DEF BaseInv, TypeOK
  <2>3. QED
    BY <2>1, <2>2
<1>3. UNCHANGED <<row, worker, run, running, retries, met, shared, aged>> /\ instance' \in Instance
  BY InstanceSpent DEF Arrive, Change, ghosts, BaseInv, TypeOK
<1>4. TypeOK' /\ Staffed'
  BY <1>2, <1>3 DEF BaseInv, TypeOK, Staffed, Busy
<1>5. QED
  BY <1>3, <1>4, QuietBase

LEMMA NextBase == BaseInv /\ [Next]_vars => BaseInv'
<1> SUFFICES ASSUME BaseInv, [Next]_vars  PROVE BaseInv'
  OBVIOUS
<1>1. ASSUME NEW r \in Runs, NEW p \in Processes, Start(r, p)  PROVE BaseInv'
  BY <1>1, StartBase
<1>2. ASSUME NEW r \in Runs, Abandon(r)  PROVE BaseInv'
  <2>1. Staffed' /\ run' \in [Runs -> Run]
    BY <1>2, RunOver DEF Abandon
  <2>2. TypeOK' /\ UNCHANGED <<row, worker>>
    BY <1>2, <2>1 DEF Abandon, BaseInv, TypeOK, ghosts
  <2>3. QED
    BY <2>1, <2>2, QuietBase
<1>3. ASSUME NEW r \in Runs, Cleanup(r)  PROVE BaseInv'
  BY <1>3, CleanupBase
<1>4. ASSUME NEW r \in Runs, NEW m \in Media, Handle(r, m) \/ Error(r, m)  PROVE BaseInv'
  BY <1>4, WorkerOutcomes, WorkerTypes, WorkerCounts DEF BaseInv
<1>5. ASSUME NEW d \in Downloads, Arrive(d) \/ Change(d)  PROVE BaseInv'
  BY <1>5, QueueBase
<1>6. ASSUME NEW d \in Downloads, Stall(d) \/ Age(d)  PROVE BaseInv'
  BY <1>6, TimeBase
<1>7. ASSUME NEW p \in Processes, Crash(p)  PROVE BaseInv'
  BY <1>7, CrashBase
<1>8. ASSUME UNCHANGED vars  PROVE BaseInv'
  BY <1>8 DEF vars, BaseInv, TypeOK, Staffed, Busy, ItemsOwn, CountsCapped, Handling
<1>9. QED
  BY <1>1, <1>2, <1>3, <1>4, <1>5, <1>6, <1>7, <1>8 DEF Next

(* Every variable of the recovery always holds a value of its type, every   *)
(* worker handles items of its own media, and no retryCount passes          *)
(* MAX_RETRIES_PER_DOWNLOAD: neither one in the table nor one in the hands  *)
(* of a worker, however stale it is, and a worker on the way to a removal   *)
(* has one that still leaves room for it.                                   *)
THEOREM TypeCorrect == Spec => [](TypeOK /\ ItemsOwn /\ CountsCapped)
<1>1. BaseInv => TypeOK /\ ItemsOwn /\ CountsCapped
  BY DEF BaseInv
<1>2. QED
  BY <1>1, InitBase, NextBase, PTL DEF Spec

-----------------------------------------------------------------------------
(* Removals are counted *)

(* Two runs are at work on a media only where two workers have met.         *)
Alone ==
  \A m \in Media \ met : \A q, r \in Runs : m \in Busy(q) /\ m \in Busy(r) => q = r

(* Workers at one download are known to share it.                           *)
Known ==
  \A q, r \in Runs, m \in Media :
    q # r /\ Handling(q, m) /\ Handling(r, m) /\ worker[q][m].item = worker[r][m].item
      => <<q, m>> \in shared

(* The removals that count are in the table.                                *)
Recorded == \A d \in Downloads : retries[d] <= row[d].retryCount

(* What a worker has read of its item counts them too: as long as it is at  *)
(* the item, no other worker's removal counts.                              *)
Outstanding ==
  \A r \in Runs, m \in Media :
    Handling(r, m) => retries[worker[r][m].item] <= worker[r][m].state.retryCount

RemovalsInv == Alone /\ Known /\ Recorded /\ Outstanding

LEMMA Counters ==
  ASSUME BaseInv
  PROVE  /\ \A d \in Downloads : retries[d] \in Nat /\ row[d].retryCount \in Nat
         /\ \A r \in Runs, m \in Media :
              Handling(r, m) => /\ worker[r][m].state.retryCount \in Nat
                                /\ retries[worker[r][m].item] \in Nat
BY AtItem, RowFields DEF BaseInv, TypeOK

LEMMA AloneKept ==
  ASSUME Alone, met \subseteq met',
         \A q \in Runs, k \in Media : worker'[q][k].pc # "idle" => worker[q][k].pc # "idle"
  PROVE  Alone'
BY DEF Alone, Busy

LEMMA WorkerAlone ==
  ASSUME BaseInv, Alone, NEW r \in Runs, NEW m \in Media,
         Takes(r, m) \/ Finds(r, m) \/ Writes(r, m) \/ Advances(r, m) \/ Drops(r, m)
  PROVE  Alone'
<1>1. CASE Takes(r, m)
  <2>1. \A q \in Runs, k \in Media : (q = r /\ k = m) \/ worker'[q][k] = worker[q][k]
    BY <1>1 DEF Takes, Own
  <2>2. met' = IF \E s \in Runs : m \in Busy(s) THEN met \cup {m} ELSE met
    BY <1>1 DEF Takes
  <2> SUFFICES ASSUME NEW k \in Media \ met', NEW p \in Runs, NEW q \in Runs,
                      k \in Busy(p)', k \in Busy(q)'
               PROVE  p = q
    BY DEF Alone
  <2>3. CASE k = m
    <3>1. \A s \in Runs : m \notin Busy(s)
      BY <2>2, <2>3
    <3>2. p = r /\ q = r
      BY <2>1, <2>3, <3>1 DEF Busy
    <3>3. QED
      BY <3>2
  <2>4. CASE k # m
    <3>1. k \in Busy(p) /\ k \in Busy(q) /\ k \notin met
      BY <2>1, <2>2, <2>4 DEF Busy
    <3>2. QED
      BY <3>1 DEF Alone
  <2>5. QED
    BY <2>3, <2>4
<1>2. CASE Finds(r, m) \/ Writes(r, m) \/ Advances(r, m) \/ Drops(r, m)
  <2>1. worker[r][m].pc # "idle" /\ Own(r, m) /\ met \subseteq met'
    BY <1>2 DEF Finds, Writes, Advances, Drops
  <2>2. QED
    BY <2>1, AloneKept DEF Own
<1>3. QED
  BY <1>1, <1>2

(* A worker shares its item with those that are there when it reads the row, *)
(* and stays known for it until it is done.                                 *)
LEMMA WorkerKnown ==
  ASSUME BaseInv, Known, NEW r \in Runs, NEW m \in Media,
         Takes(r, m) \/ Finds(r, m) \/ Writes(r, m) \/ Advances(r, m) \/ Drops(r, m)
  PROVE  Known'
<1> SUFFICES ASSUME NEW p \in Runs, NEW q \in Runs, NEW k \in Media, p # q,
                    Handling(p, k)', Handling(q, k)', worker'[p][k].item = worker'[q][k].item
             PROVE  <<p, k>> \in shared'
  BY DEF Known
<1>1. Own(r, m)
  BY DEF Takes, Finds, Writes, Advances, Drops
<1>2. \A s \in Runs, h \in Media : (s = r /\ h = m) \/ worker'[s][h] = worker[s][h]
  BY <1>1 DEF Own
<1>3. CASE Finds(r, m)
  <2>1. CASE k = m /\ (p = r \/ q = r)
    BY <1>2, <1>3, <2>1 DEF Finds
  <2>2. CASE k # m \/ (p # r /\ q # r)
    <3>1. worker'[p][k] = worker[p][k] /\ worker'[q][k] = worker[q][k]
      BY <1>2, <2>2
    <3>2. <<p, k>> \in shared
      BY <3>1 DEF Known, Handling
    <3>3. QED
      BY <1>3, <3>2 DEF Finds
  <2>3. QED
    BY <2>1, <2>2
<1>4. CASE Takes(r, m) \/ Writes(r, m) \/ Advances(r, m) \/ Drops(r, m)
  <2>1. \A s \in Runs :
          Handling(s, k)' => Handling(s, k) /\ worker'[s][k].item = worker[s][k].item
    <3>1. Handling(r, m)' => Handling(r, m) /\ worker'[r][m].item = worker[r][m].item
      BY <1>4, NoWorkerIsWorker DEF Takes, Writes, Advances, Drops, Handling
    <3>2. QED
      BY <1>2, <3>1 DEF Handling
  <2>2. <<p, k>> \in shared
    BY <2>1 DEF Known
  <2>3. p = r /\ k = m => shared' = shared
    BY <1>4, NoWorkerIsWorker DEF Takes, Writes, Advances, Drops, Handling
  <2>4. (p = r /\ k = m) \/ shared' = shared \/ shared' = shared \ {<<r, m>>}
    BY <1>4 DEF Takes, Writes, Advances, Drops
  <2>5. QED
    BY <2>2, <2>3, <2>4
<1>5. QED
  BY <1>3, <1>4

(* A worker counts a removal of a download that no other one is at.         *)
LEMMA WorkerCounted ==
  ASSUME BaseInv, RemovalsInv, NEW r \in Runs, NEW m \in Media, Writes(r, m)
  PROVE  LET d == worker[r][m].item IN
         /\ Handling(r, m) /\ d \in Downloads /\ retries'[d] <= row'[d].retryCount
         /\ \A e \in Downloads : e # d => retries'[e] = retries[e]
         /\ \A q \in Runs, k \in Media :
              (q # r \/ k # m) /\ Handling(q, k) => retries'[worker[q][k].item] = retries[worker[q][k].item]
<1> DEFINE d == worker[r][m].item
           n == worker[r][m].state.retryCount
<1>1. Handling(r, m)
  BY DEF Writes, Handling
<1>2. d \in Downloads /\ MediaOf[d] = m /\ n \in Nat /\ retries[d] \in Nat /\ retries[d] <= n
  BY <1>1, AtItem, Counters DEF RemovalsInv, Outstanding
<1>3. /\ row'[d].retryCount = n + (IF worker[r][m].pc = "record" THEN 1 ELSE 0)
      /\ retries' = IF worker[r][m].pc = "record" /\ <<r, m>> \notin shared
                    THEN [retries EXCEPT ![d] = retries[d] + 1] ELSE retries
  BY DEF Writes
<1>4. /\ retries'[d] = IF worker[r][m].pc = "record" /\ <<r, m>> \notin shared
                       THEN retries[d] + 1 ELSE retries[d]
      /\ \A e \in Downloads : e # d => retries'[e] = retries[e]
  BY <1>2, <1>3 DEF BaseInv, TypeOK
<1>5. retries'[d] <= row'[d].retryCount
  BY <1>2, <1>3, <1>4
<1>6. ASSUME NEW q \in Runs, NEW k \in Media, q # r \/ k # m, Handling(q, k)
      PROVE  retries'[worker[q][k].item] = retries[worker[q][k].item]
  <2>1. worker[q][k].item \in Downloads /\ MediaOf[worker[q][k].item] = k
    BY <1>6, AtItem
  <2>2. CASE worker[q][k].item = d
    <3>1. <<r, m>> \in shared
      BY <1>1, <1>2, <1>6, <2>1, <2>2 DEF RemovalsInv, Known
    <3>2. QED
      BY <1>4, <2>2, <3>1
  <2>3. CASE worker[q][k].item # d
    BY <1>4, <2>1, <2>3
  <2>4. QED
    BY <2>2, <2>3
<1>7. QED
  BY <1>1, <1>2, <1>4, <1>5, <1>6

LEMMA WorkerRecorded ==
  ASSUME BaseInv, RemovalsInv, NEW r \in Runs, NEW m \in Media,
         Takes(r, m) \/ Finds(r, m) \/ Writes(r, m) \/ Advances(r, m) \/ Drops(r, m)
  PROVE  Recorded' /\ Outstanding'
<1>1. CASE Writes(r, m)
  <2> DEFINE d == worker[r][m].item
  <2>1. Recorded'
    BY <1>1, WorkerCounted DEF Recorded, RemovalsInv, Writes, OwnRow
  <2>2. ASSUME NEW q \in Runs, NEW k \in Media, Handling(q, k)'
        PROVE  retries'[worker'[q][k].item] <= worker'[q][k].state.retryCount
    <3>1. CASE q = r /\ k = m
      <4>1. worker'[r][m].item = d /\ row'[d].retryCount = worker'[r][m].state.retryCount
        BY <1>1, <2>2, <3>1 DEF Writes, Handling, SameCount
      <4>2. QED
        BY <1>1, <3>1, <4>1, WorkerCounted
    <3>2. CASE q # r \/ k # m
      <4>1. worker'[q][k] = worker[q][k] /\ Handling(q, k)
        BY <1>1, <2>2, <3>2 DEF Writes, Own, Handling
      <4>2. QED
        BY <1>1, <3>2, <4>1, WorkerCounted DEF RemovalsInv, Outstanding
    <3>3. QED
      BY <3>1, <3>2
  <2>3. QED
    BY <2>1, <2>2 DEF Outstanding
<1>2. CASE Takes(r, m) \/ Finds(r, m) \/ Advances(r, m) \/ Drops(r, m)
  <2>1. UNCHANGED <<row, retries>> /\ Own(r, m)
    BY <1>2 DEF Takes, Finds, Advances, Drops
  <2>2. Recorded'
    BY <2>1 DEF Recorded, RemovalsInv
  <2>3. Handling(r, m)' => retries[worker'[r][m].item] <= worker'[r][m].state.retryCount
    <3>1. CASE Finds(r, m)
      BY <3>1, WorkerFields DEF Finds, BaseInv, TypeOK, RemovalsInv, Recorded
    <3>2. CASE Takes(r, m) \/ Advances(r, m) \/ Drops(r, m)
      BY <3>2, NoWorkerIsWorker
         DEF Takes, Advances, Drops, Handling, RemovalsInv, Outstanding
    <3>3. QED
      BY <1>2, <3>1, <3>2
  <2>4. QED
    BY <2>1, <2>2, <2>3 DEF Outstanding, RemovalsInv, Own, Handling
<1>3. QED
  BY <1>1, <1>2

LEMMA InitRemovals == Init => RemovalsInv
<1> SUFFICES ASSUME Init  PROVE RemovalsInv
  OBVIOUS
<1>1. NoWorker.pc = "idle" /\ NoRow.retryCount = 0
  BY NoWorkerIsWorker, NoRowIsRow
<1>2. QED
  BY <1>1 DEF Init, RemovalsInv, Alone, Busy, Known, Recorded, Outstanding, Handling

(* Steps that change no worker and no count.                                *)
LEMMA QuietRemovals ==
  ASSUME RemovalsInv, UNCHANGED <<worker, retries, met, shared>>,
         \A d \in Downloads : row'[d].retryCount = row[d].retryCount
  PROVE  RemovalsInv'
BY DEF RemovalsInv, Alone, Busy, Known, Recorded, Outstanding, Handling

LEMMA CleanupRemovals ==
  ASSUME BaseInv, RemovalsInv, NEW r \in Runs, Cleanup(r)
  PROVE  RemovalsInv'
<1>1. UNCHANGED <<worker, met, shared>>
  BY CleanupRows
<1>2. \A d \in Downloads : \/ retries'[d] = 0 /\ row'[d].retryCount = 0
                           \/ retries'[d] = retries[d] /\ row'[d] = row[d]
  BY CleanupRows, NoRowIsRow DEF SameCount
<1>3. Alone' /\ Known' /\ Recorded'
  BY <1>1, <1>2 DEF RemovalsInv, Alone, Busy, Known, Recorded, Handling
<1>4. Outstanding'
  <2>1. SUFFICES ASSUME NEW q \in Runs, NEW k \in Media, Handling(q, k)
                 PROVE  retries'[worker[q][k].item] <= worker[q][k].state.retryCount
    BY <1>1 DEF Outstanding, Handling
  <2>2. worker[q][k].item \in Downloads /\ worker[q][k].state.retryCount \in Nat
    BY <2>1, AtItem, Counters
  <2>3. QED
    BY <1>2, <2>1, <2>2 DEF RemovalsInv, Outstanding
<1>5. QED
  BY <1>3, <1>4 DEF RemovalsInv

LEMMA CrashRemovals ==
  ASSUME BaseInv, RemovalsInv, NEW p \in Processes, Crash(p)
  PROVE  RemovalsInv'
<1>1. NoWorker.pc = "idle"
  BY NoWorkerIsWorker
<1>2. PICK gone \in SUBSET Runs :
        /\ \A r \in Runs :
             IF r \in gone
               THEN run'[r] = NoRun /\ \A m \in Media : worker'[r][m] = NoWorker
               ELSE run'[r] = run[r] /\ worker'[r] = worker[r]
        /\ shared' = shared \ (gone \X Media)
  BY CrashWorkers
<1>3. UNCHANGED <<row, retries, met>>
  BY CrashWorkers
<1>4. Alone'
  BY <1>1, <1>2, <1>3, AloneKept DEF RemovalsInv
<1>5. \A q \in Runs, m \in Media : Handling(q, m)' => q \notin gone /\ worker'[q][m] = worker[q][m]
  BY <1>1, <1>2 DEF Handling
<1>6. Known'
  BY <1>2, <1>5 DEF RemovalsInv, Known, Handling
<1>7. Recorded' /\ Outstanding'
  BY <1>3, <1>5 DEF RemovalsInv, Recorded, Outstanding, Handling
<1>8. QED
  BY <1>4, <1>6, <1>7 DEF RemovalsInv

LEMMA NextRemovals == BaseInv /\ RemovalsInv /\ [Next]_vars => RemovalsInv'
<1> SUFFICES ASSUME BaseInv, RemovalsInv, [Next]_vars  PROVE RemovalsInv'
  OBVIOUS
<1>1. ASSUME NEW r \in Runs, NEW p \in Processes, Start(r, p)  PROVE RemovalsInv'
  BY <1>1, QuietRemovals DEF Start, ghosts
<1>2. ASSUME NEW r \in Runs, Abandon(r)  PROVE RemovalsInv'
  BY <1>2, QuietRemovals DEF Abandon, ghosts
<1>3. ASSUME NEW r \in Runs, Cleanup(r)  PROVE RemovalsInv'
  BY <1>3, CleanupRemovals
<1>4. ASSUME NEW r \in Runs, NEW m \in Media, Handle(r, m) \/ Error(r, m)  PROVE RemovalsInv'
  BY <1>4, WorkerOutcomes, WorkerAlone, WorkerKnown, WorkerRecorded DEF RemovalsInv
<1>5. ASSUME NEW d \in Downloads, Arrive(d) \/ Change(d)  PROVE RemovalsInv'
  BY <1>5, QuietRemovals DEF Arrive, Change, ghosts
<1>6. ASSUME NEW d \in Downloads, Stall(d) \/ Age(d)  PROVE RemovalsInv'
  BY <1>6, TimePasses, QuietRemovals DEF OwnRow, SameCount
<1>7. ASSUME NEW p \in Processes, Crash(p)  PROVE RemovalsInv'
  BY <1>7, CrashRemovals
<1>8. ASSUME UNCHANGED vars  PROVE RemovalsInv'
  BY <1>8, QuietRemovals DEF vars
<1>9. QED
  BY <1>1, <1>2, <1>3, <1>4, <1>5, <1>6, <1>7, <1>8 DEF Next

(* The removals that count are in the row, and its count passes no limit.   *)
LEMMA RemovalsCapped ==
  ASSUME BaseInv, RemovalsInv
  PROVE  RetriesCapped
<1> SUFFICES ASSUME NEW d \in Downloads
             PROVE  retries[d] <= MaxRetries
  BY DEF RetriesCapped
<1>1. retries[d] \in Nat /\ row[d].retryCount \in Nat /\ MaxRetries \in Nat
  BY Counters, ConstantsAssumption
<1>2. retries[d] <= row[d].retryCount /\ row[d].retryCount <= MaxRetries
  BY DEF RemovalsInv, Recorded, BaseInv, CountsCapped, Capped
<1>3. QED
  BY <1>1, <1>2

-----------------------------------------------------------------------------
(* The limit of a media *)

(* A worker whose item is retried, or that may still save it as retried.    *)
Claims(r, m) ==
  \/ worker[r][m].pc \in {"delete", "search", "record"}
  \/ Handling(r, m) /\ worker[r][m].state.lastAction = "retried"

(* The downloads of a media that are marked as retried or may come to be,   *)
(* without another look at the limit.                                       *)
Claimed(m) ==
  {d \in Downloads : d \in Retried(m) \/ \E r \in Runs : Claims(r, m) /\ worker[r][m].item = d}

Allowed(m) == MaxMediaRetries + (IF m \in met THEN Cardinality(Runs) - 1 ELSE 0)

(* The limit holds for the marks there are and for those to come.           *)
ClaimsBounded == \A m \in Media \ aged : Cardinality(Claimed(m)) <= Allowed(m)

RowsFresh == \A d \in Downloads : MediaOf[d] \notin aged => ~row[d].old

MarksInv == ClaimsBounded /\ RowsFresh

LEMMA ClaimedFinite ==
  ASSUME NEW m
  PROVE  /\ IsFiniteSet(Claimed(m)) /\ Cardinality(Claimed(m)) \in Nat
         /\ IsFiniteSet(Retried(m)) /\ Cardinality(Retried(m)) \in Nat
         /\ Cardinality(Retried(m)) <= Cardinality(Claimed(m))
<1>1. Claimed(m) \subseteq Downloads /\ Retried(m) \subseteq Claimed(m)
  BY DEF Claimed, Retried
<1>2. IsFiniteSet(Claimed(m)) /\ IsFiniteSet(Retried(m))
  BY <1>1, ConstantsAssumption, FS_Subset
<1>3. QED
  BY <1>1, <1>2, FS_Subset, FS_CardinalityType

(* More may be marked where two workers have met.                           *)
LEMMA AllowedKept ==
  ASSUME NEW m, met \subseteq met', met' = met \/ Runs # {}
  PROVE  Allowed(m) \in Int /\ Allowed(m)' \in Int /\ Allowed(m) <= Allowed(m)'
<1>1. Cardinality(Runs) \in Nat /\ MaxMediaRetries \in Nat /\ (Runs # {} => Cardinality(Runs) # 0)
  BY ConstantsAssumption, FS_CardinalityType, FS_EmptySet
<1>2. QED
  BY <1>1 DEF Allowed

(* A step that adds no download to the claimed ones keeps the limit.        *)
LEMMA ClaimsKept ==
  ASSUME ClaimsBounded, NEW m \in Media \ aged, Claimed(m)' \subseteq Claimed(m),
         met \subseteq met', met' = met \/ Runs # {}
  PROVE  Cardinality(Claimed(m)') <= Allowed(m)'
<1>1. /\ Cardinality(Claimed(m)') <= Cardinality(Claimed(m)) /\ Cardinality(Claimed(m)) \in Nat
      /\ Cardinality(Claimed(m)') \in Nat
  BY ClaimedFinite, FS_Subset, FS_CardinalityType
<1>2. QED
  BY <1>1, AllowedKept DEF ClaimsBounded

(* A retried row of a media without old rows counts.                        *)
LEMMA RetriedRow ==
  ASSUME BaseInv, RowsFresh, NEW d \in Downloads, MediaOf[d] \notin aged,
         row[d].lastAction = "retried"
  PROVE  d \in Retried(MediaOf[d])
BY DEF BaseInv, CountsCapped, Capped, RowsFresh, Retried

(* Every step of a worker but the one that lets a retry begin leaves no     *)
(* more downloads claimed than there were.                                  *)
LEMMA WorkerClaims ==
  ASSUME BaseInv, MarksInv, NEW r \in Runs, NEW m \in Media,
         Takes(r, m) \/ Finds(r, m) \/ Writes(r, m) \/ Advances(r, m) \/ Drops(r, m),
         NEW k \in Media \ aged,
         k # m \/ worker[r][m].pc # "count" \/ worker'[r][m].pc # "delete"
  PROVE  Claimed(k)' \subseteq Claimed(k)
<1>1. Own(r, m)
  BY DEF Takes, Finds, Writes, Advances, Drops
<1>2. \A q \in Runs, h \in Media :
        q # r \/ h # m => worker'[q][h] = worker[q][h] /\ (Claims(q, h)' <=> Claims(q, h))
  BY <1>1 DEF Own, Claims, Handling
<1>3. ASSUME NEW d \in Downloads, d \in Retried(k)'
      PROVE  d \in Claimed(k)
  <2>1. CASE row'[d] = row[d]
    BY <1>3, <2>1 DEF Retried, Claimed
  <2>2. CASE row'[d] # row[d]
    <3>1. Writes(r, m) /\ d = worker[r][m].item
      BY <2>2 DEF Takes, Finds, Writes, Advances, Drops, OwnRow
    <3>2. Handling(r, m) /\ MediaOf[d] = m /\ k = m
      BY <1>3, <3>1, AtItem DEF Writes, Handling, Retried
    <3>3. Claims(r, m)
      BY <1>3, <3>1, <3>2 DEF Writes, Retried, Claims
    <3>4. QED
      BY <3>1, <3>2, <3>3 DEF Claimed
  <2>3. QED
    BY <2>1, <2>2
<1>4. ASSUME k = m, Claims(r, m)'
      PROVE  worker'[r][m].item \in Downloads => worker'[r][m].item \in Claimed(m)
  <2>1. CASE Takes(r, m) \/ Drops(r, m)
    BY <1>4, <2>1, NoWorkerIsWorker DEF Takes, Drops, Claims, Handling
  <2>2. CASE Finds(r, m)
    <3>1. /\ worker'[r][m].item \in Downloads /\ MediaOf[worker'[r][m].item] = m
          /\ row[worker'[r][m].item].lastAction = "retried"
      BY <1>4, <2>2, WorkerFields DEF Finds, Claims, BaseInv, TypeOK, ItemsOwn
    <3>2. QED
      BY <1>4, <3>1, RetriedRow DEF MarksInv, Claimed
  <2>3. CASE Writes(r, m)
    <3>1. /\ Handling(r, m) /\ worker'[r][m].item = worker[r][m].item
          /\ row'[worker[r][m].item].lastAction = "retried"
      BY <1>4, <2>3 DEF Writes, Claims, Handling, SameCount
    <3>2. Claims(r, m)
      BY <2>3, <3>1 DEF Writes, Claims
    <3>3. QED
      BY <3>1, <3>2 DEF Claimed
  <2>4. CASE Advances(r, m)
    <3>1. worker'[r][m].item = worker[r][m].item /\ Claims(r, m)
      BY <1>4, <2>4 DEF Advances, Claims, Handling
    <3>2. QED
      BY <3>1 DEF Claimed
  <2>5. QED
    BY <2>1, <2>2, <2>3, <2>4
<1>5. ASSUME NEW d \in Downloads, NEW q \in Runs, Claims(q, k)', worker'[q][k].item = d
      PROVE  d \in Claimed(k)
  <2>1. CASE q = r /\ k = m
    BY <1>4, <1>5, <2>1
  <2>2. CASE q # r \/ k # m
    BY <1>2, <1>5, <2>2 DEF Claimed
  <2>3. QED
    BY <2>1, <2>2
<1>6. \A d \in Claimed(k)' :
        /\ d \in Downloads
        /\ d \in Retried(k)' \/ \E q \in Runs : Claims(q, k)' /\ worker'[q][k].item = d
  BY DEF Claimed
<1>7. QED
  BY <1>3, <1>5, <1>6

(* The items of some runs are no more than the runs: of one run, one.       *)
LEMMA ItemsFew ==
  ASSUME NEW holders \in SUBSET Runs, NEW item, NEW many \in BOOLEAN,
         ~many => \A p, q \in holders : p = q
  PROVE  LET items == {item[q] : q \in holders} IN
         /\ IsFiniteSet(items) /\ Cardinality(items) \in Nat
         /\ Cardinality(items) <= IF many THEN Cardinality(Runs) ELSE 1
<1> DEFINE items == {item[q] : q \in holders}
           f     == [q \in holders |-> item[q]]
<1>1. /\ IsFiniteSet(holders) /\ Cardinality(holders) <= Cardinality(Runs)
      /\ Cardinality(Runs) \in Nat /\ Cardinality(holders) \in Nat
  BY ConstantsAssumption, FS_Subset, FS_CardinalityType
<1>2. many \/ Cardinality(holders) <= 1
  <2>1. SUFFICES ASSUME ~many  PROVE Cardinality(holders) <= 1
    OBVIOUS
  <2>2. CASE holders = {}
    <3>1. Cardinality(holders) = 0
      BY <1>1, <2>2, FS_EmptySet
    <3>2. QED
      BY <3>1
  <2>3. CASE holders # {}
    <3>1. PICK p \in holders : holders = {p}
      BY <2>1, <2>3
    <3>2. QED
      BY <3>1, FS_Singleton
  <2>4. QED
    BY <2>2, <2>3
<1>3. f \in Surjection(holders, items)
  BY DEF Surjection
<1> HIDE DEF f, items
<1>4. IsFiniteSet(items) /\ Cardinality(items) <= Cardinality(holders)
  BY <1>1, <1>3, FS_Surjection
<1>5. Cardinality(items) \in Nat
  BY <1>4, FS_CardinalityType
<1>6. IsFiniteSet(items) /\ Cardinality(items) \in Nat
      /\ Cardinality(items) <= IF many THEN Cardinality(Runs) ELSE 1
  BY <1>1, <1>2, <1>4, <1>5
<1>7. QED
  BY <1>6 DEF items

(* The worker that lets a retry begin has just seen that there is room for  *)
(* one more: the others at the media may have seen the same room.           *)
LEMMA RetryBegins ==
  ASSUME BaseInv, Alone', NEW r \in Runs, NEW m \in Media,
         Advances(r, m), worker[r][m].pc = "count", worker'[r][m].pc = "delete"
  PROVE  Cardinality(Claimed(m)') <= Allowed(m)'
<1> DEFINE holders == {q \in Runs : m \in Busy(q)'}
           item    == [q \in Runs |-> worker'[q][m].item]
           items   == {item[q] : q \in holders}
           both    == m \in met
<1>1. /\ UNCHANGED <<row, met>> /\ Cardinality(Retried(m)) < MaxMediaRetries
      /\ m \in Busy(r)'
  BY DEF Advances, Busy
<1>2. /\ IsFiniteSet(items) /\ Cardinality(items) \in Nat
      /\ Cardinality(items) <= IF m \in met THEN Cardinality(Runs) ELSE 1
  <2>1. /\ ~both => \A p, q \in holders : p = q
        /\ holders \in SUBSET Runs /\ both \in BOOLEAN /\ both = (m \in met)
    BY <1>1 DEF Alone
  <2> HIDE DEF holders, item, both
  <2>2. /\ IsFiniteSet(items) /\ Cardinality(items) \in Nat
        /\ Cardinality(items) <= IF both THEN Cardinality(Runs) ELSE 1
    BY <2>1, ItemsFew
  <2>3. QED
    BY <2>1, <2>2
<1>3. Claimed(m)' \subseteq Retried(m) \cup items
  <2>1. Retried(m)' = Retried(m)
    BY <1>1 DEF Retried
  <2>2. ASSUME NEW q \in Runs, Claims(q, m)'  PROVE worker'[q][m].item \in items
    BY <2>2 DEF Claims, Handling, Busy
  <2> HIDE DEF items
  <2>3. QED
    BY <2>1, <2>2 DEF Claimed
<1> HIDE DEF items
<1>4. /\ IsFiniteSet(Retried(m) \cup items)
      /\ Cardinality(Retried(m) \cup items) <= Cardinality(Retried(m)) + Cardinality(items)
      /\ Cardinality(Retried(m) \cup items) \in Nat
  <2> DEFINE S == Retried(m)
  <2>1. IsFiniteSet(S) /\ Cardinality(S) \in Nat /\ IsFiniteSet(items)
    BY <1>2, ClaimedFinite
  <2> HIDE DEF S
  <2>2. /\ IsFiniteSet(S \cup items)
        /\ Cardinality(S \cup items) = Cardinality(S) + Cardinality(items) - Cardinality(S \cap items)
    BY <2>1, FS_Union
  <2>3. IsFiniteSet(S \cap items)
    BY <2>1, FS_Intersection
  <2>4. Cardinality(S \cap items) \in Nat /\ Cardinality(S \cup items) \in Nat
    BY <2>2, <2>3, FS_CardinalityType
  <2>5. QED
    BY <1>2, <2>1, <2>2, <2>4 DEF S
<1>5. /\ Cardinality(Claimed(m)') <= Cardinality(Retried(m) \cup items)
      /\ Cardinality(Claimed(m)') \in Nat
  BY <1>3, <1>4, FS_Subset, FS_CardinalityType
<1>6. /\ Cardinality(Runs) \in Nat /\ MaxMediaRetries \in Nat /\ Cardinality(Retried(m)) \in Nat
  BY ConstantsAssumption, FS_CardinalityType, ClaimedFinite
<1>7. QED
  BY <1>1, <1>2, <1>4, <1>5, <1>6 DEF Allowed

LEMMA WorkerMarks ==
  ASSUME BaseInv, Alone', MarksInv, NEW r \in Runs, NEW m \in Media,
         Takes(r, m) \/ Finds(r, m) \/ Writes(r, m) \/ Advances(r, m) \/ Drops(r, m),
         UNCHANGED aged
  PROVE  MarksInv'
<1>1. met \subseteq met' /\ Runs # {}
  BY DEF Takes, Finds, Writes, Advances, Drops
<1>2. ASSUME NEW k \in Media \ aged
      PROVE  Cardinality(Claimed(k)') <= Allowed(k)'
  <2>1. CASE k = m /\ worker[r][m].pc = "count" /\ worker'[r][m].pc = "delete"
    <3>1. Advances(r, m)
      BY <2>1, NoWorkerIsWorker DEF Takes, Finds, Writes, Drops
    <3>2. QED
      BY <2>1, <3>1, RetryBegins
  <2>2. CASE k # m \/ worker[r][m].pc # "count" \/ worker'[r][m].pc # "delete"
    BY <1>1, <2>2, WorkerClaims, ClaimsKept DEF MarksInv
  <2>3. QED
    BY <2>1, <2>2
<1>3. RowsFresh'
  BY DEF MarksInv, RowsFresh, Takes, Finds, Writes, Advances, Drops, OwnRow
<1>4. QED
  BY <1>2, <1>3 DEF MarksInv, ClaimsBounded

LEMMA InitMarks == Init => MarksInv
<1> SUFFICES ASSUME Init  PROVE MarksInv
  OBVIOUS
<1>1. NoWorker.pc = "idle" /\ ~NoRow.old /\ NoRow.lastAction # "retried"
  BY NoWorkerIsWorker, NoRowIsRow
<1>2. RowsFresh
  BY <1>1 DEF Init, RowsFresh
<1>3. ASSUME NEW m \in Media  PROVE Cardinality(Claimed(m)) <= Allowed(m)
  <2>1. Claimed(m) = {}
    BY <1>1 DEF Init, Claimed, Retried, Claims, Handling
  <2>2. Cardinality(Claimed(m)) = 0
    BY <2>1, FS_EmptySet, Zenon
  <2>3. Allowed(m) = MaxMediaRetries + 0 /\ MaxMediaRetries \in Nat
    BY ConstantsAssumption DEF Allowed, Init
  <2>4. QED
    BY <2>2, <2>3
<1>4. QED
  BY <1>2, <1>3 DEF MarksInv, ClaimsBounded

(* Steps of which the media that are not aged see no row change, and no     *)
(* worker but those that are gone.                                          *)
LEMMA MarksKept ==
  ASSUME MarksInv, aged \subseteq aged', met \subseteq met',
         met' = met \/ Runs # {},
         \A d \in Downloads :
           MediaOf[d] \in aged' \/ (SameCount(row'[d], row[d]) /\ (row'[d].old => row[d].old)),
         \A q \in Runs, m \in Media :
           worker'[q][m] = worker[q][m] \/ worker'[q][m].pc = "idle"
  PROVE  MarksInv'
<1>1. ASSUME NEW m \in Media \ aged'  PROVE Claimed(m)' \subseteq Claimed(m)
  <2>1. ASSUME NEW d \in Downloads, d \in Retried(m)'  PROVE d \in Retried(m)
    BY <1>1, <2>1 DEF Retried, SameCount, MarksInv, RowsFresh
  <2>2. ASSUME NEW q \in Runs, Claims(q, m)'
        PROVE  Claims(q, m) /\ worker'[q][m] = worker[q][m]
    BY <2>2 DEF Claims, Handling
  <2>3. QED
    BY <2>1, <2>2 DEF Claimed
<1>2. ClaimsBounded'
  BY <1>1, ClaimsKept DEF MarksInv, ClaimsBounded
<1>3. RowsFresh'
  BY DEF MarksInv, RowsFresh
<1>4. QED
  BY <1>2, <1>3 DEF MarksInv

LEMMA NextMarks == BaseInv /\ RemovalsInv' /\ MarksInv /\ [Next]_vars => MarksInv'
<1> SUFFICES ASSUME BaseInv, RemovalsInv', MarksInv, [Next]_vars  PROVE MarksInv'
  OBVIOUS
<1>1. ASSUME UNCHANGED <<row, worker, met, aged>>  PROVE MarksInv'
  BY <1>1, MarksKept DEF SameCount
<1>2. ASSUME NEW r \in Runs, Cleanup(r)  PROVE MarksInv'
  <2>1. \A d \in Downloads : MediaOf[d] \in aged \/ row'[d] = row[d]
    BY <1>2, CleanupRows DEF MarksInv, RowsFresh
  <2>2. UNCHANGED <<worker, met, shared, aged>>
    BY <1>2, CleanupRows
  <2>3. QED
    BY <2>1, <2>2, MarksKept DEF SameCount
<1>3. ASSUME NEW r \in Runs, NEW m \in Media, Handle(r, m) \/ Error(r, m)  PROVE MarksInv'
  BY <1>3, WorkerOutcomes, WorkerMarks DEF RemovalsInv
<1>4. ASSUME NEW d \in Downloads, Stall(d) \/ Age(d)  PROVE MarksInv'
  <2>1. UNCHANGED <<worker, met>> /\ OwnRow(d) /\ SameCount(row'[d], row[d])
        /\ (row'[d].old => row[d].old \/ Age(d))
    BY <1>4, TimePasses
  <2>2. aged \subseteq aged' /\ (Age(d) => MediaOf[d] \in aged')
    BY <1>4 DEF Stall, Age, ghosts
  <2>3. \A e \in Downloads :
          MediaOf[e] \in aged' \/ (SameCount(row'[e], row[e]) /\ (row'[e].old => row[e].old))
    BY <2>1, <2>2 DEF OwnRow, SameCount
  <2>4. QED
    BY <2>1, <2>2, <2>3, MarksKept
<1>5. ASSUME NEW p \in Processes, Crash(p)  PROVE MarksInv'
  <2>1. PICK gone \in SUBSET Runs :
          /\ gone # {}
          /\ \A r \in Runs :
               IF r \in gone
                 THEN run'[r] = NoRun /\ \A m \in Media : worker'[r][m] = NoWorker
                 ELSE run'[r] = run[r] /\ worker'[r] = worker[r]
          /\ shared' = shared \ (gone \X Media)
    BY <1>5, CrashWorkers
  <2>2. \A q \in Runs, m \in Media :
          worker'[q][m] = worker[q][m] \/ worker'[q][m].pc = "idle"
    BY <2>1, NoWorkerIsWorker
  <2>3. UNCHANGED <<row, met, aged>>
    BY <1>5, CrashWorkers
  <2>4. QED
    BY <2>1, <2>2, <2>3, MarksKept DEF SameCount
<1>6. QED
  BY <1>1, <1>2, <1>3, <1>4, <1>5
     DEF Next, Start, Abandon, Arrive, Change, ghosts, vars

(* Both limits of the recovery hold whatever runs, workers, failures and    *)
(* crashes there are: a download is removed at most MAX_RETRIES_PER_DOWNLOAD *)
(* times by workers that had it to themselves and recorded it, and the      *)
(* limit of a media is passed by at most one retry for each further run at  *)
(* work on it, and by none where two never met.                             *)
THEOREM LimitsKept == Spec => []LimitsHeld
<1> DEFINE Inv == BaseInv /\ RemovalsInv /\ MarksInv
<1>1. Init => Inv
  BY InitBase, InitRemovals, InitMarks
<1>2. Inv /\ [Next]_vars => Inv'
  BY NextBase, NextRemovals, NextMarks
<1>3. Inv => LimitsHeld
  <2>1. SUFFICES ASSUME Inv  PROVE MarksBounded
    BY RemovalsCapped DEF LimitsHeld
  <2>2. SUFFICES ASSUME NEW m \in Media \ aged
                 PROVE  Cardinality(Retried(m)) <= Allowed(m)
    BY DEF MarksBounded, Allowed
  <2>3. Cardinality(Claimed(m)) <= Allowed(m)
    BY <2>1 DEF MarksInv, ClaimsBounded
  <2>4. Allowed(m) \in Int
    BY ConstantsAssumption, FS_CardinalityType DEF Allowed
  <2>5. QED
    BY <2>3, <2>4, ClaimedFinite
<1> HIDE DEF Inv
<1>4. QED
  BY <1>1, <1>2, <1>3, PTL DEF Spec

=============================================================================
