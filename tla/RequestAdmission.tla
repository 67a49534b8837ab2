-------------------------- MODULE RequestAdmission --------------------------
(***************************************************************************)
(* The admission locks under which the server changes requests, media,     *)
(* users and service settings.                                             *)
(*                                                                         *)
(* A task runs its work inside nested scopes, each with a set of resource  *)
(* keys.  A scope is held twice: by an in-process AsyncLock for every key, *)
(* and, when the database is PostgreSQL, by a transaction-scoped advisory  *)
(* lock for every key, so that it excludes the other server processes as   *)
(* well.  The advisory locks of all scopes of a task belong to the one     *)
(* connection that its outermost scope opened: an AsyncLocalStorage        *)
(* context tells the inner scopes of it, and tells it also to every        *)
(* background task started inside.  A process opens such connections only  *)
(* under one of a few slots, chosen by a hash of the keys.                 *)
(*                                                                         *)
(* Scopes differ in which half they take first: requests, media, users and *)
(* configuration take the advisory locks first; services and account       *)
(* identities take the AsyncLocks first.                                   *)
(***************************************************************************)
EXTENDS Naturals, Sequences

CONSTANTS
  Processes,    \* server processes sharing one database
  Tasks,        \* handlers, jobs and dispatches
  ProcessOf,    \* the process each task runs in
  Keys,         \* resource keys
  Rank,         \* their order as strings
  Slots,        \* connection slots of a process
  SlotOf,       \* the slot each set of keys hashes to
  Programs,     \* the nests of scopes each task may run
  Spawns,       \* the tasks each task starts in the background
  Coordinated,  \* the database is PostgreSQL
  Breakable,    \* the tasks whose connection may break
  None          \* nobody

Scope == [first: {"advisory", "local"}, keys: SUBSET Keys]

ASSUME AdmissionAssumption ==
  /\ ProcessOf \in [Tasks -> Processes]
  /\ Rank \in [Keys -> Nat]
  /\ \A j, k \in Keys : Rank[j] = Rank[k] => j = k
  /\ SlotOf \in [SUBSET Keys -> Slots]
  /\ \A t \in Tasks : Programs[t] \subseteq Seq(Scope) \ {<<>>}
  /\ Spawns \in [Tasks -> SUBSET Tasks]
  /\ Coordinated \in BOOLEAN
  /\ Breakable \subseteq Tasks
  /\ None \notin Tasks

VARIABLES
  phase,       \* what each task is doing
  program,     \* the nest of scopes it runs
  at,          \* the scope it is entering, inside of, or leaving
  context,     \* the task whose connection its scopes lock through
  connection,  \* the connection each task opened as an outermost scope
  advisory,    \* the owner of each advisory lock
  local,       \* per process and key, the task and scope that hold the AsyncLock
  slot         \* the task in each slot of a process

vars == <<phase, program, at, context, connection, advisory, local, slot>>

-----------------------------------------------------------------------------
(* Types *)

Phases == {"idle", "entering", "inside", "leaving"}

Connection ==
  [state: {"none", "open", "ended", "broken", "released"}, acquired: SUBSET Keys]

NoConnection == [state |-> "none", acquired |-> {}]

Holder == [task: Tasks \cup {None}, scope: Nat]

Nobody == [task |-> None, scope |-> 0]

TypeOK ==
  /\ phase \in [Tasks -> Phases]
  /\ program \in [Tasks -> Seq(Scope)]
  /\ at \in [Tasks -> Nat]
  /\ \A t \in Tasks : at[t] <= Len(program[t])
  /\ context \in [Tasks -> Tasks \cup {None}]
  /\ connection \in [Tasks -> Connection]
  /\ advisory \in [Keys -> Tasks \cup {None}]
  /\ local \in [Processes -> [Keys -> Holder]]
  /\ slot \in [Processes -> [Slots -> Tasks \cup {None}]]

Init ==
  /\ phase = [t \in Tasks |-> "idle"]
  /\ program = [t \in Tasks |-> <<>>]
  /\ at = [t \in Tasks |-> 0]
  /\ context = [t \in Tasks |-> None]
  /\ connection = [t \in Tasks |-> NoConnection]
  /\ advisory = [k \in Keys |-> None]
  /\ local = [p \in Processes |-> [k \in Keys |-> Nobody]]
  /\ slot = [p \in Processes |-> [s \in Slots |-> None]]

-----------------------------------------------------------------------------
(* What a task holds and what it needs next *)

Here(t) == program[t][at[t]]

LocalsHeld(t) ==
  {k \in Keys : local[ProcessOf[t]][k] = [task |-> t, scope |-> at[t]]}

LocalsMissing(t) == Here(t).keys \ LocalsHeld(t)

(* acquiredSet of the context is consulted, not the database. *)
AdvisoriesMissing(t) ==
  IF Coordinated THEN Here(t).keys \ connection[context[t]].acquired ELSE {}

(* The coordinator has let the task into the current scope. *)
Admitted(t) == Coordinated => context[t] # None /\ AdvisoriesMissing(t) = {}

(* Keys are locked in the order of the sorted list: the first one missing. *)
First(keys) == {k \in keys : \A j \in keys : Rank[k] <= Rank[j]}

NeedsLocal(t) ==
  /\ phase[t] = "entering" /\ LocalsMissing(t) # {}
  /\ Here(t).first = "advisory" => Admitted(t)

NeedsCoordinator(t) ==
  /\ phase[t] = "entering" /\ Coordinated
  /\ Here(t).first = "local" => LocalsMissing(t) = {}

NeedsSlot(t) == NeedsCoordinator(t) /\ context[t] = None

NeedsAdvisory(t) ==
  NeedsCoordinator(t) /\ context[t] # None /\ AdvisoriesMissing(t) # {}

-----------------------------------------------------------------------------
(* Entering *)

(* A task starts by itself, or in the background of a task that is inside   *)
(* its scopes, and then with that task's context.                           *)
Start(t) ==
  /\ phase[t] = "idle"
  /\ \A u \in Tasks : context[u] # t
  /\ \E c \in {None} \cup {context[u] : u \in {v \in Tasks :
                              phase[v] = "inside" /\ t \in Spawns[v]}} :
       context' = [context EXCEPT ![t] = c]
  /\ \E scopes \in Programs[t] : program' = [program EXCEPT ![t] = scopes]
  /\ at' = [at EXCEPT ![t] = 1]
  /\ phase' = [phase EXCEPT ![t] = "entering"]
  /\ UNCHANGED <<connection, advisory, local, slot>>

LockLocal(t) ==
  /\ NeedsLocal(t)
  /\ \E k \in First(LocalsMissing(t)) :
       /\ local[ProcessOf[t]][k] = Nobody
       /\ local' = [local EXCEPT ![ProcessOf[t]][k] = [task |-> t, scope |-> at[t]]]
  /\ UNCHANGED <<phase, program, at, context, connection, advisory, slot>>

(* The outermost scope waits for its slot, then opens a connection and a    *)
(* transaction.                                                             *)
OpenConnection(t) ==
  LET s == SlotOf[Here(t).keys] IN
  /\ NeedsSlot(t)
  /\ slot[ProcessOf[t]][s] = None
  /\ slot' = [slot EXCEPT ![ProcessOf[t]][s] = t]
  /\ connection' = [connection EXCEPT ![t] = [state |-> "open", acquired |-> {}]]
  /\ context' = [context EXCEPT ![t] = t]
  /\ UNCHANGED <<phase, program, at, advisory, local>>

(* Advisory locks are reentrant within a session.  After the end of the     *)
(* transaction a lock is gone as soon as the statement that took it.        *)
LockAdvisory(t) ==
  LET c == context[t] IN
  /\ NeedsAdvisory(t)
  /\ connection[c].state \in {"open", "ended"}
  /\ \E k \in First(AdvisoriesMissing(t)) :
       /\ advisory[k] \in {None, c}
       /\ connection' = [connection EXCEPT ![c].acquired = @ \cup {k}]
       /\ advisory' = [advisory EXCEPT ![k] =
            IF connection[c].state = "open" THEN c ELSE @]
  /\ UNCHANGED <<phase, program, at, context, local, slot>>

(* A query on a broken or released connection throws. *)
ConnectionGone(t) ==
  /\ NeedsAdvisory(t)
  /\ connection[context[t]].state \in {"broken", "released"}
  /\ phase' = [phase EXCEPT ![t] = "leaving"]
  /\ UNCHANGED <<program, at, context, connection, advisory, local, slot>>

EnterPast(t) ==  \* mutant: one scope too many
  /\ phase[t] = "entering" /\ LocalsMissing(t) = {} /\ Admitted(t)
  /\ IF at[t] <= Len(program[t])
     THEN at' = [at EXCEPT ![t] = @ + 1] /\ UNCHANGED phase
     ELSE phase' = [phase EXCEPT ![t] = "inside"] /\ UNCHANGED at
  /\ UNCHANGED <<program, context, connection, advisory, local, slot>>

Enter(t) ==
  /\ phase[t] = "entering" /\ LocalsMissing(t) = {} /\ Admitted(t)
  /\ IF at[t] < Len(program[t])
     THEN at' = [at EXCEPT ![t] = @ + 1] /\ UNCHANGED phase
     ELSE phase' = [phase EXCEPT ![t] = "inside"] /\ UNCHANGED at
  /\ UNCHANGED <<program, context, connection, advisory, local, slot>>

-----------------------------------------------------------------------------
(* Leaving *)

(* The innermost callback returns or throws. *)
Return(t) ==
  /\ phase[t] = "inside"
  /\ phase' = [phase EXCEPT ![t] = "leaving"]
  /\ UNCHANGED <<program, at, context, connection, advisory, local, slot>>

OwnsInner(t) == context[t] = t  \* mutant: an inner scope commits

OwnsNothing(t) == FALSE  \* mutant: the connection is not released

(* The scope whose connection this is: the outermost one of its owner. *)
Owns(t) == context[t] = t /\ at[t] = 1

UnlockLocal(t) ==
  /\ phase[t] = "leaving" /\ LocalsHeld(t) # {}
  /\ Here(t).first = "local" => ~Owns(t)
  /\ local' = [local EXCEPT ![ProcessOf[t]] =
       [k \in Keys |-> IF k \in LocalsHeld(t) THEN Nobody ELSE @[k]]]
  /\ UNCHANGED <<phase, program, at, context, connection, advisory, slot>>

(* COMMIT or ROLLBACK ends the transaction and with it its advisory locks. *)
EndTransaction(t) ==
  /\ phase[t] = "leaving" /\ Owns(t)
  /\ Here(t).first = "advisory" => LocalsHeld(t) = {}
  /\ connection[t].state = "open"
  /\ connection' = [connection EXCEPT ![t].state = "ended"]
  /\ advisory' = [k \in Keys |-> IF advisory[k] = t THEN None ELSE advisory[k]]
  /\ UNCHANGED <<phase, program, at, context, local, slot>>

(* On a broken connection COMMIT and ROLLBACK throw; it is released all the  *)
(* same.                                                                    *)
ReleaseConnection(t) ==
  /\ phase[t] = "leaving" /\ Owns(t)
  /\ Here(t).first = "advisory" => LocalsHeld(t) = {}
  /\ connection[t].state \in {"ended", "broken"}
  /\ connection' = [connection EXCEPT ![t].state = "released"]
  /\ slot' = [slot EXCEPT ![ProcessOf[t]] =
       [s \in Slots |-> IF @[s] = t THEN None ELSE @[s]]]
  /\ context' = [context EXCEPT ![t] = None]
  /\ UNCHANGED <<phase, program, at, advisory, local>>

Leave(t) ==
  /\ phase[t] = "leaving" /\ LocalsHeld(t) = {} /\ ~Owns(t)
  /\ at' = [at EXCEPT ![t] = @ - 1]
  /\ IF at[t] > 1
     THEN UNCHANGED <<phase, program, context>>
     ELSE /\ phase' = [phase EXCEPT ![t] = "idle"]
          /\ program' = [program EXCEPT ![t] = <<>>]
          /\ context' = [context EXCEPT ![t] = None]
  /\ UNCHANGED <<connection, advisory, local, slot>>

(* A connection breaks while its task goes on: PostgreSQL ends the session  *)
(* and frees its locks, and nobody tells the scopes.                        *)
Disconnect(t) ==
  /\ t \in Breakable /\ connection[t].state \in {"open", "ended"}
  /\ connection' = [connection EXCEPT ![t].state = "broken"]
  /\ advisory' = [k \in Keys |-> IF advisory[k] = t THEN None ELSE advisory[k]]
  /\ UNCHANGED <<phase, program, at, context, local, slot>>

(* A process dies: PostgreSQL ends its sessions. *)
Crash(p) ==
  LET gone == {t \in Tasks : ProcessOf[t] = p} IN
  /\ phase' = [t \in Tasks |-> IF t \in gone THEN "idle" ELSE phase[t]]
  /\ program' = [t \in Tasks |-> IF t \in gone THEN <<>> ELSE program[t]]
  /\ at' = [t \in Tasks |-> IF t \in gone THEN 0 ELSE at[t]]
  /\ context' = [t \in Tasks |-> IF t \in gone THEN None ELSE context[t]]
  /\ connection' = [t \in Tasks |-> IF t \in gone THEN NoConnection ELSE connection[t]]
  /\ advisory' = [k \in Keys |-> IF advisory[k] \in gone THEN None ELSE advisory[k]]
  /\ local' = [local EXCEPT ![p] = [k \in Keys |-> Nobody]]
  /\ slot' = [slot EXCEPT ![p] = [s \in Slots |-> None]]

-----------------------------------------------------------------------------

Step(t) ==
  \/ Start(t) \/ LockLocal(t) \/ OpenConnection(t) \/ LockAdvisory(t)
  \/ ConnectionGone(t) \/ Enter(t) \/ Return(t) \/ UnlockLocal(t)
  \/ EndTransaction(t) \/ ReleaseConnection(t) \/ Leave(t)

Next ==
  \/ \E t \in Tasks : Step(t) \/ Disconnect(t)
  \/ \E p \in Processes : Crash(p)

Spec == Init /\ [][Next]_vars

-----------------------------------------------------------------------------
(* Safety *)

(* The scopes whose callback is running *)
Running(t) == {n \in 1..Len(program[t]) : n < at[t] \/ phase[t] = "inside"}

Guarded(t) == UNION {program[t][n].keys : n \in Running(t)}

(* Two tasks never run under the same key at once, in one process or two.   *)
MutualExclusion ==
  \A t, u \in Tasks : t # u => Guarded(t) \cap Guarded(u) = {}

(* The session that a task locks through is gone: it broke under the task,  *)
(* or was its parent's, who has ended it.                                   *)
Detached(t) ==
  LET state == connection[context[t]].state IN
  /\ context[t] # None
  /\ state = "broken" \/ (context[t] # t /\ state # "open")

(* Two tasks run under one key only in two processes, and only when the     *)
(* session of one of them is gone under it: in one process the AsyncLocks   *)
(* exclude through broken connections and inherited contexts, and across    *)
(* processes the advisory locks do while their session lives, be it         *)
(* the task's own or an inherited one.                                      *)
ExclusionWhileConnected ==
  \A t, u \in Tasks :
    t # u /\ Guarded(t) \cap Guarded(u) # {} =>
      ProcessOf[t] # ProcessOf[u] /\ (Detached(t) \/ Detached(u))

(* The task that u must be out of the way of before t's next step. *)
WaitsFor(t, u) ==
  \/ /\ NeedsLocal(t)
     /\ \E k \in First(LocalsMissing(t)) : local[ProcessOf[t]][k].task = u
  \/ NeedsSlot(t) /\ slot[ProcessOf[t]][SlotOf[Here(t).keys]] = u
  \/ /\ NeedsAdvisory(t) /\ connection[context[t]].state \in {"open", "ended"}
     /\ \E k \in First(AdvisoriesMissing(t)) : advisory[k] = u /\ u # context[t]

(* Each of the group waits for another one of it, or for a task that is     *)
(* over.                                                                    *)
Circle(group) ==
  LET over == {u \in Tasks : phase[u] = "idle"} IN
  group # {} /\ \A t \in group : \E u \in group \cup over : WaitsFor(t, u)

(* No tasks wait for one another in a circle: whoever waits for a lock or a *)
(* slot gets it in the end.                                                 *)
NoDeadlock == \A group \in SUBSET Tasks : ~Circle(group)

-----------------------------------------------------------------------------
(* Where circles come from *)

(* The two locks of every key *)
Halves == {"local", "advisory"}

(* A nest takes its locks in the given order: those of an outer scope       *)
(* before those of an inner one, one half of a scope before the other, and  *)
(* each half in the order of the sorted keys.                               *)
Follows(order, scopes) ==
  /\ \A n \in 1..Len(scopes) : \A j, k \in scopes[n].keys :
       /\ Rank[j] < Rank[k] => \A h \in Halves : order[<<j, h>>] < order[<<k, h>>]
       /\ scopes[n].first = "local" => order[<<j, "local">>] < order[<<k, "advisory">>]
       /\ scopes[n].first = "advisory" => order[<<j, "advisory">>] < order[<<k, "local">>]
  /\ \A m, n \in 1..Len(scopes) : m < n =>
       \A j \in scopes[m].keys, k \in scopes[n].keys, g, h \in Halves :
         order[<<j, g>>] < order[<<k, h>>]

(* A nest whose outermost scope takes the advisory locks first waits for    *)
(* its slot with nothing in hand.                                           *)
Disciplined(order, scopes) ==
  Follows(order, scopes) /\ (Coordinated => scopes[1].first = "advisory")

(* Whatever order one looks for, a circle has a task in it whose nest takes *)
(* its locks against that order, or waits for a slot with AsyncLocks in     *)
(* hand, as the service scopes of the code do; the tasks around it may run  *)
(* what they like.                                                          *)
CirclesUndisciplined(order) ==
  \A group \in SUBSET Tasks :
    Circle(group) => \E t \in group : ~Disciplined(order, program[t])

(* A context stays in the process that made it. *)
SpawnsNearby == \A t \in Tasks : \A u \in Spawns[t] : ProcessOf[u] = ProcessOf[t]
=============================================================================
