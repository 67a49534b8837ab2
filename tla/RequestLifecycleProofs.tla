------------------------ MODULE RequestLifecycleProofs ------------------------
(***************************************************************************)
(* What the statuses of a film and of its requests keep, for any qualities *)
(* and requests and whatever fails.                                        *)
(***************************************************************************)
EXTENDS RequestLifecycle, TLAPS

-----------------------------------------------------------------------------
(* The inductive invariant of the types: who is inside the media's key has  *)
(* something to do there.                                                   *)

Assigned ==
  /\ \A a \in {"creator", "worker"} : task[a].pc # "out" => task[a].request \in Requests
  /\ task["scanner"].pc # "out" => scan.pc \in {"servers", "resets", "clean"}
  /\ task["scanner"].pc # "out" \/ scan.pc \in {"confirm", "clean", "decline"} =>
       scan.one \in Qualities
  /\ \A r \in Requests :
       handler[r].pc = "open" =>
         handler[r].op \in {"approve", "retry", "decline", "remove", "deliver"}
  /\ task["worker"].pc # "out" => handler[task["worker"].request].op = "deliver"

TypeInv == TypeOK /\ Assigned

-----------------------------------------------------------------------------
(* Types *)

LEMMA Kinds ==
  ASSUME NEW r \in Requests
  PROVE  QualityOf[r] \in Qualities /\ QualityOf[r] # None /\ r # None
BY ConstantsAssumption

LEMMA FilmTypes ==
  ASSUME NEW film \in Film, NEW q \in Qualities, NEW s \in MediaStatuses
  PROVE  /\ [film EXCEPT !.status[q] = s] \in Film
         /\ [film EXCEPT !.linked = @ \cup {q}] \in Film
         /\ film.status[q] \in MediaStatuses
BY DEF Film

LEMMA UnknownTypes == Unknown \in Film
BY DEF Unknown, Film, MediaStatuses

LEMMA StatusTypes ==
  ASSUME NEW film \in Film, NEW q \in Qualities, NEW r \in Requests, NEW req,
         NEW held \in Holdings
  PROVE  /\ Requested(film, q) \in Film /\ Accepted(film, q) \in Film
         /\ Rejected(r, film, req) \in Film
         /\ EntryStatus(held, film.status[q]) \in MediaStatuses
<1>1. film.status[q] \in MediaStatuses
  BY DEF Film
<1>2. Requested(film, q) = [film EXCEPT !.status[q] =
         IF film.status[q] \in {"unknown", "deleted"} THEN "pending" ELSE film.status[q]]
  BY DEF Requested, Film
<1>3. Accepted(film, q) = [film EXCEPT !.status[q] =
         IF film.status[q] \in {"available", "processing"} THEN film.status[q] ELSE "processing"]
  BY DEF Accepted, Film
<1>4. Requested(film, q) \in Film
  <2> DEFINE s == IF film.status[q] \in {"unknown", "deleted"} THEN "pending" ELSE film.status[q]
  <2>1. s \in MediaStatuses
    BY <1>1 DEF MediaStatuses
  <2>2. Requested(film, q) = [film EXCEPT !.status[q] = s]
    BY <1>2
  <2> HIDE DEF s
  <2> QED
    BY <2>1, <2>2 DEF Film
<1>5. Accepted(film, q) \in Film
  <2> DEFINE s == IF film.status[q] \in {"available", "processing"} THEN film.status[q] ELSE "processing"
  <2>1. s \in MediaStatuses
    BY <1>1 DEF MediaStatuses
  <2>2. Accepted(film, q) = [film EXCEPT !.status[q] = s]
    BY <1>3
  <2> HIDE DEF s
  <2> QED
    BY <2>1, <2>2 DEF Film
<1>6. Rejected(r, film, req) \in Film
  BY FilmTypes, Kinds DEF Rejected, MediaStatuses
<1>7. EntryStatus(held, film.status[q]) \in MediaStatuses
  BY <1>1 DEF EntryStatus, MediaStatuses
<1> QED
  BY <1>4, <1>5, <1>6, <1>7

LEMMA EmptiedTypes ==
  ASSUME TypeOK, NEW r \in Requests
  PROVE  Emptied(r) \in Film
<1>1. media.film \in Film
  BY DEF TypeOK, Media
<1>2. \A q \in Qualities : media.film.status[q] \in MediaStatuses
  BY <1>1 DEF Film
<1> QED
  BY <1>1, <1>2 DEF Emptied, Film, MediaStatuses

LEMMA CascadeTypes ==
  ASSUME NEW old, NEW new, NEW req \in [Requests -> RequestStatuses]
  PROVE  /\ Cascade(old, new, req) \in [Requests -> RequestStatuses]
         /\ \A r \in Requests : Cascade(old, new, req)[r] \in {req[r], "completed"}
BY DEF Cascade, RequestStatuses

LEMMA SaveTypes ==
  ASSUME TypeOK, NEW film \in Film, NEW req \in [Requests -> RequestStatuses],
         NEW own, NEW rows \in SUBSET Requests, Save(film, req, own, rows)
  PROVE  /\ media' \in Media /\ request' \in [Requests -> RequestStatuses]
         /\ queued' \in SUBSET Requests /\ deletion' \in Deletion
<1>1. request' \in [Requests -> RequestStatuses]
  BY CascadeTypes DEF Save
<1>2. media' \in Media
  BY DEF Save, Media
<1>3. queued' \in SUBSET Requests
  BY DEF Save, Rows
<1>4. deletion' \in Deletion
  BY DEF Save, TypeOK, Deletion
<1> QED
  BY <1>1, <1>2, <1>3, <1>4

LEMMA SaveRequestsTypes ==
  ASSUME TypeOK, NEW req \in [Requests -> RequestStatuses],
         NEW own, NEW rows \in SUBSET Requests, SaveRequests(req, own, rows)
  PROVE  /\ media' \in Media /\ request' \in [Requests -> RequestStatuses]
         /\ queued' \in SUBSET Requests /\ deletion' \in Deletion
BY DEF SaveRequests, Rows, TypeOK

LEMMA TaskTypes ==
  ASSUME TypeOK, NEW a \in Actors
  PROVE  /\ \A r \in Requests \cup {None} : Enter(a, r) => task' \in [Actors -> Task]
         /\ Leave(a) => task' \in [Actors -> Task]
         /\ task[a].seen \in Film
         /\ Out \in Task
<1>1. Out \in Task
  BY UnknownTypes DEF Out, Task
<1>2. media.film \in Film
  BY DEF TypeOK, Media
<1>3. \A r \in Requests \cup {None} :
        [Out EXCEPT !.pc = "first", !.request = r, !.seen = media.film] \in Task
  BY <1>1, <1>2 DEF Task
<1>4. task \in [Actors -> Task]
  BY DEF TypeOK
<1>5. task[a].seen \in Film
  BY <1>4 DEF Task
<1> QED
  BY <1>1, <1>3, <1>4, <1>5 DEF Enter, Leave

LEMMA TypeInit == Init => TypeInv
<1> SUFFICES ASSUME Init PROVE TypeInv
  OBVIOUS
<1>1. instance \in Instance /\ library \in [Qualities -> Holdings]
  BY ConstantsAssumption DEF Init, Instance
<1>2. media \in Media
  BY UnknownTypes DEF Init, NoMedia, Media
<1>3. request \in [Requests -> RequestStatuses]
  BY DEF Init, RequestStatuses
<1>4. handler \in [Requests -> Handler]
  BY UnknownTypes DEF Init, Resting, Handler, Operations
<1>5. task \in [Actors -> Task]
  BY UnknownTypes DEF Init, Out, Task
<1>6. scan \in Scan
  BY UnknownTypes DEF Init, NoScan, Scan, Holdings
<1>7. deletion \in Deletion
  BY DEF Init, NoDeletion, Deletion
<1> QED
  BY <1>1, <1>2, <1>3, <1>4, <1>5, <1>6, <1>7 DEF Init, TypeOK, TypeInv, Assigned, Actors, Out, NoScan, Resting

LEMMA SpentTypes ==
  ASSUME TypeOK
  PROVE  /\ instance.acts > 0 => [instance EXCEPT !.acts = @ - 1] \in Instance
         /\ instance.changes > 0 => [instance EXCEPT !.changes = @ - 1] \in Instance
         /\ Fault => instance' \in Instance
BY DEF TypeOK, Instance, Fault

LEMMA CreateTypes ==
  ASSUME TypeInv, Create
  PROVE  TypeInv'
<1> DEFINE r == task["creator"].request
           seen == task["creator"].seen
<1>0. /\ TypeOK /\ Assigned /\ "creator" \in Actors /\ task["creator"].seen \in Film
      /\ r \in Requests \cup {None}
  BY TaskTypes DEF Actors, TypeOK, Task, TypeInv
<1>1. ASSUME NEW s \in Requests, CreateRead(s)
      PROVE  TypeInv'
  <2>1. TypeOK'
    BY <1>0, <1>1, TaskTypes DEF CreateRead, TypeOK, tables, ghosts
  <2>2. Assigned'
    BY <1>0, <1>1 DEF CreateRead, Enter, Out, Assigned, TypeOK, Actors
  <2> QED
    BY <2>1, <2>2 DEF TypeInv
<1>2. ASSUME NEW s \in Requests, PromoteRead(s)
      PROVE  TypeInv'
  <2>1. TypeOK'
    BY <1>0, <1>2, TaskTypes, SpentTypes DEF PromoteRead, TypeOK, tables, ghosts
  <2>2. Assigned'
    BY <1>0, <1>2 DEF PromoteRead, Enter, Out, Assigned, TypeOK, Actors
  <2> QED
    BY <2>1, <2>2 DEF TypeInv
<1>3. CASE CreateSave
  <2>1. r \in Requests /\ Requested(seen, QualityOf[r]) \in Film
    BY <1>0, <1>3, StatusTypes, Kinds DEF CreateSave, Assigned, Inside, Holdings
  <2>2. Accepted(Requested(seen, QualityOf[r]), QualityOf[r]) \in Film
    BY <2>1, StatusTypes, Kinds DEF Holdings
  <2>3. /\ [request EXCEPT ![r] = "pending"] \in [Requests -> RequestStatuses]
        /\ [request EXCEPT ![r] = "approved"] \in [Requests -> RequestStatuses]
    BY <1>0 DEF TypeOK, RequestStatuses
  <2>4. /\ media' \in Media /\ request' \in [Requests -> RequestStatuses]
        /\ queued' \in SUBSET Requests /\ deletion' \in Deletion
    <3>1. queued \in SUBSET Requests /\ queued \cup {r} \in SUBSET Requests
      BY <1>0, <2>1 DEF TypeOK
    <3> QED
      BY <1>0, <1>3, <2>1, <2>2, <2>3, <3>1, SaveTypes DEF CreateSave
  <2>5. TypeOK'
    BY <1>0, <1>3, <2>4, TaskTypes DEF CreateSave, TypeOK, ghosts
  <2>6. Assigned'
    BY <1>0, <1>3 DEF CreateSave, Leave, Out, Assigned, TypeOK, Actors
  <2> QED
    BY <2>5, <2>6 DEF TypeInv
<1>4. CASE PromoteSave
  <2>1. r \in Requests /\ Accepted(seen, QualityOf[r]) \in Film
    BY <1>0, <1>4, StatusTypes, Kinds DEF PromoteSave, Assigned, Inside, Holdings
  <2>2. Approving(r) \in [Requests -> RequestStatuses]
    BY <1>0 DEF TypeOK, RequestStatuses, Approving
  <2>3. queued \cup {r} \in SUBSET Requests
    BY <1>0, <2>1 DEF TypeOK
  <2>4. /\ media' \in Media /\ request' \in [Requests -> RequestStatuses]
        /\ queued' \in SUBSET Requests /\ deletion' \in Deletion
    BY <1>0, <1>4, <2>1, <2>2, <2>3, SaveTypes, SaveRequestsTypes DEF PromoteSave
  <2>5. reopened' \in SUBSET Requests
    BY <1>0, <1>4, <2>1 DEF PromoteSave, Reopening, TypeOK
  <2>6. TypeOK'
    BY <1>0, <1>4, <2>4, <2>5, TaskTypes DEF PromoteSave, TypeOK
  <2>7. Assigned'
    BY <1>0, <1>4 DEF PromoteSave, Leave, Out, Assigned, TypeOK, Actors
  <2> QED
    BY <2>6, <2>7 DEF TypeInv
<1> QED
  BY <1>1, <1>2, <1>3, <1>4 DEF Create

LEMMA HandlerTypes ==
  ASSUME TypeInv, NEW r \in Requests
  PROVE  /\ handler[r] \in Handler
         /\ Rest(r) => handler' \in [Requests -> Handler]
         /\ \A op \in Operations, film \in Film, saves \in BOOLEAN :
              Open(r, op, film, saves) => handler' \in [Requests -> Handler]
         /\ \A op \in Operations :
              [handler EXCEPT ![r] = [Resting EXCEPT !.op = op, !.pc = "read"]]
                \in [Requests -> Handler]
<1>1. handler \in [Requests -> Handler]
  BY DEF TypeInv, TypeOK
<1>2. Resting \in Handler
  BY UnknownTypes DEF Resting, Handler, Operations
<1>3. \A op \in Operations : [Resting EXCEPT !.op = op, !.pc = "read"] \in Handler
  BY <1>2 DEF Handler
<1>4. \A op \in Operations, film \in Film, saves \in BOOLEAN :
        [op |-> op, pc |-> "open", seen |-> film, saves |-> saves] \in Handler
  BY DEF Handler
<1> QED
  BY <1>1, <1>2, <1>3, <1>4 DEF Rest, Open

LEMMA HandleTypes ==
  ASSUME TypeInv, NEW r \in Requests, Handle(r)
  PROVE  TypeInv'
<1>0. /\ TypeOK /\ Assigned /\ handler[r] \in Handler
      /\ media.film \in Film
  BY HandlerTypes DEF TypeInv, TypeOK, Media
<1>1. ASSUME NEW op \in {"approve", "retry", "decline"}, Judge(r, op)
      PROVE  TypeInv'
  <2>1. handler' \in [Requests -> Handler]
    BY <1>1, HandlerTypes DEF Judge, Operations
  <2> QED
    BY <1>0, <1>1, <2>1, SpentTypes
    DEF Judge, TypeInv, TypeOK, Assigned, tables, ghosts, Resting
<1>2. CASE Write(r)
  <2>1. Accepted(media.film, QualityOf[r]) \in Film /\ Rejected(r, media.film, request) \in Film
    BY <1>0, StatusTypes, Kinds DEF Holdings
  <2>2. /\ handler[r].op \in Operations /\ MayReject(r, media.film, request) \in BOOLEAN
        /\ (Accepted(media.film, QualityOf[r]) # media.film) \in BOOLEAN
    BY <1>0 DEF Handler, MayReject
  <2>3. handler' \in [Requests -> Handler]
    <3>1. CASE Rest(r)
      BY <3>1, HandlerTypes
    <3>2. CASE Open(r, handler[r].op, Accepted(media.film, QualityOf[r]),
                    Accepted(media.film, QualityOf[r]) # media.film)
      BY <2>1, <2>2, <3>2, HandlerTypes
    <3>3. CASE Open(r, handler[r].op, Rejected(r, media.film, request),
                    MayReject(r, media.film, request))
      BY <2>1, <2>2, <3>3, HandlerTypes DEF MayReject
    <3> QED
      BY <1>2, <3>1, <3>2, <3>3 DEF Write
  <2> QED
    BY <1>0, <1>2, <2>3
    DEF Write, Rest, Open, Resting, TypeInv, TypeOK, Assigned, tables, ghosts
<1>3. CASE Remove(r)
  <2>1. Emptied(r) \in Film /\ (\E q \in Qualities : MayEmpty(r, q)) \in BOOLEAN
    BY <1>0, EmptiedTypes
  <2>2. handler' \in [Requests -> Handler]
    BY <1>3, <2>1, HandlerTypes DEF Remove, Operations
  <2>3. TypeOK'
    BY <1>0, <1>3, <2>2, SpentTypes DEF Remove, TypeOK, tables, ghosts
  <2>4. /\ handler[r].op = "none" /\ handler'[r].op = "remove"
        /\ \A s \in Requests \ {r} : handler'[s] = handler[s]
    BY <1>0, <1>3 DEF Remove, Open, Resting, TypeOK
  <2>5. Assigned'
    BY <1>0, <1>3, <2>4 DEF Remove, Assigned
  <2> QED
    BY <2>3, <2>5 DEF TypeInv
<1>4. CASE Commit(r)
  <2> DEFINE status == Outcome(handler[r].op)
             req == [request EXCEPT ![r] = status]
             rows == IF status = "approved" THEN queued \cup {r} ELSE queued
  <2>1. req \in [Requests -> RequestStatuses]
    BY <1>0, <1>4 DEF Commit, Conclude, Assigned, Outcome, TypeOK, RequestStatuses
  <2>2. rows \in SUBSET Requests
    BY <1>0 DEF TypeOK
  <2>3. handler[r].seen \in Film
    BY <1>0 DEF Handler
  <2>4. /\ media' \in Media /\ request' \in [Requests -> RequestStatuses]
        /\ queued' \in SUBSET Requests /\ deletion' \in Deletion
    BY <1>0, <1>4, <2>1, <2>2, <2>3, SaveTypes, SaveRequestsTypes DEF Commit, Conclude
  <2>5. reopened' \in SUBSET Requests
    BY <1>0, <1>4 DEF Commit, Reopening, TypeOK
  <2>6. /\ task' \in [Actors -> Task]
        /\ \A a \in Actors : task'[a].pc = task[a].pc /\ task'[a].request = task[a].request
    BY <1>0, <1>4 DEF Commit, TypeOK, Task
  <2>7. TypeOK'
    BY <1>0, <1>4, <2>4, <2>5, <2>6, HandlerTypes DEF Commit, Conclude, TypeOK
  <2>8. Assigned'
    BY <1>0, <1>4, <2>6 DEF Commit, Conclude, Rest, Resting, Assigned, Actors, TypeOK
  <2> QED
    BY <2>7, <2>8 DEF TypeInv
<1>5. CASE Abort(r)
  BY <1>0, <1>5, HandlerTypes, SpentTypes
  DEF Abort, Rest, Resting, TypeInv, TypeOK, Assigned, tables, ghosts
<1> QED
  BY <1>1, <1>2, <1>3, <1>4, <1>5 DEF Handle

LEMMA FinishTypes ==
  ASSUME TypeInv, NEW status \in RequestStatuses, Finish(status), ~Inside("worker", "out"),
         instance' \in Instance
  PROVE  TypeInv'
<1> DEFINE r == task["worker"].request
<1>1. /\ TypeOK /\ Assigned /\ "worker" \in Actors /\ r \in Requests
  BY DEF TypeInv, Actors, Assigned, Inside
<1>2. [request EXCEPT ![r] = status] \in [Requests -> RequestStatuses]
  BY <1>1 DEF TypeOK
<1>3. queued \ {r} \in SUBSET Requests
  BY <1>1 DEF TypeOK
<1>4. /\ media' \in Media /\ request' \in [Requests -> RequestStatuses]
      /\ queued' \in SUBSET Requests /\ deletion' \in Deletion
  BY <1>1, <1>2, <1>3, SaveRequestsTypes DEF Finish
<1>5. TypeOK'
  BY <1>1, <1>4, TaskTypes, HandlerTypes DEF Finish, TypeOK, ghosts
<1>6. Assigned'
  BY <1>1 DEF Finish, Leave, Rest, Resting, Out, Assigned, TypeOK, Actors
<1> QED
  BY <1>5, <1>6 DEF TypeInv

LEMMA DeliverTypes ==
  ASSUME TypeInv, Deliver
  PROVE  TypeInv'
<1> DEFINE w == task["worker"].request
<1>0. /\ TypeOK /\ Assigned /\ "worker" \in Actors /\ task["worker"].seen \in Film
      /\ media.film \in Film
  BY TaskTypes DEF TypeInv, TypeOK, Media, Actors
<1>1. ASSUME NEW r \in Requests, Begin(r)
      PROVE  TypeInv'
  <2>1. handler' \in [Requests -> Handler]
    BY <1>0, <1>1, HandlerTypes DEF Begin, Operations, TypeOK
  <2>2. queued' \in SUBSET Requests
    BY <1>0, <1>1 DEF Begin, TypeOK
  <2>3. TypeOK'
    BY <1>0, <1>1, <2>1, <2>2 DEF Begin, TypeOK, ghosts
  <2>4. \/ UNCHANGED handler
        \/ /\ handler'[r].op = "deliver" /\ handler'[r].pc = "read"
           /\ \A s \in Requests \ {r} : handler'[s] = handler[s]
    BY <1>0, <1>1 DEF Begin, Resting, TypeOK
  <2>5. Assigned'
    BY <1>0, <1>1, <2>4 DEF Begin, Assigned
  <2> QED
    BY <2>3, <2>5 DEF TypeInv
<1>2. ASSUME NEW r \in Requests, Admit(r)
      PROVE  TypeInv'
  <2>1. TypeOK'
    BY <1>0, <1>2, TaskTypes, HandlerTypes DEF Admit, TypeOK, tables, ghosts
  <2>2. CASE Enter("worker", r) /\ UNCHANGED handler
    <3>1. /\ task'["worker"].request = r
          /\ task'["creator"] = task["creator"] /\ task'["scanner"] = task["scanner"]
      BY <1>0, <2>2 DEF Enter, Out, TypeOK, Actors
    <3> QED
      BY <1>0, <1>2, <2>1, <2>2, <3>1 DEF Admit, Assigned, TypeInv
  <2>3. CASE Rest(r) /\ UNCHANGED task
    BY <1>0, <1>2, <2>1, <2>3 DEF Admit, Rest, Resting, Assigned, TypeInv, TypeOK
  <2> QED
    BY <1>2, <2>2, <2>3 DEF Admit
<1>3. CASE CompleteAvailable
  BY <1>0, <1>3, FinishTypes DEF CompleteAvailable, Inside, RequestStatuses, TypeOK
<1>4. CASE AddMovie
  <2>1. library' \in [Qualities -> Holdings]
    BY <1>0, <1>4 DEF AddMovie, TypeOK, Holdings
  <2>2. task' \in [Actors -> Task]
    <3>1. task["worker"] \in Task /\ task \in [Actors -> Task]
      BY <1>0 DEF TypeOK
    <3>2. [task["worker"] EXCEPT !.pc = "second", !.seen = media.film, !.met = FALSE] \in Task
      BY <1>0, <3>1 DEF Task
    <3>3. task' = [task EXCEPT !["worker"] =
            [task["worker"] EXCEPT !.pc = "second", !.seen = media.film, !.met = FALSE]]
      BY <1>0, <1>4, <3>1 DEF AddMovie
    <3> QED
      BY <1>0, <3>1, <3>2, <3>3
  <2>3. TypeOK'
    BY <1>0, <1>4, <2>1, <2>2 DEF AddMovie, TypeOK, tables, ghosts
  <2>4. \A a \in Actors : /\ task'[a].request = task[a].request
                          /\ task'[a].pc # "out" => task[a].pc # "out"
    BY <1>0, <1>4 DEF AddMovie, TypeOK, Task, Inside
  <2>5. Assigned'
    BY <1>0, <1>4, <2>4 DEF AddMovie, Assigned, Actors
  <2> QED
    BY <2>3, <2>5 DEF TypeInv
<1>5. CASE SaveSent
  <2>1. w \in Requests
    BY <1>0, <1>5 DEF SaveSent, Assigned, Inside
  <2>2. [task["worker"].seen EXCEPT !.linked = @ \cup {QualityOf[w]}] \in Film
    BY <1>0, <2>1, Kinds, FilmTypes DEF MediaStatuses
  <2>3. request \in [Requests -> RequestStatuses] /\ queued \in SUBSET Requests
    BY <1>0 DEF TypeOK
  <2>4. /\ media' \in Media /\ request' \in [Requests -> RequestStatuses]
        /\ queued' \in SUBSET Requests /\ deletion' \in Deletion
    BY <1>0, <1>5, <2>2, <2>3, SaveTypes DEF SaveSent
  <2>5. /\ task' \in [Actors -> Task]
        /\ \A a \in Actors : /\ task'[a].request = task[a].request
                             /\ task'[a].pc # "out" => task[a].pc # "out"
    BY <1>0, <1>5 DEF SaveSent, TypeOK, Task, Inside
  <2>6. TypeOK'
    BY <1>0, <1>5, <2>4, <2>5 DEF SaveSent, TypeOK, ghosts
  <2>7. Assigned'
    BY <1>0, <1>5, <2>5 DEF SaveSent, Assigned, Actors
  <2> QED
    BY <2>6, <2>7 DEF TypeInv
<1>8. CASE SaveTarget
  <2> DEFINE accepted == Accepted(media.film, QualityOf[w])
  <2>1. w \in Requests
    BY <1>0, <1>8 DEF SaveTarget, Assigned, Inside
  <2>2. accepted \in Film /\ (accepted # media.film) \in BOOLEAN
    BY <1>0, <2>1, StatusTypes, Kinds DEF Holdings
  <2>3. Open(w, "deliver", accepted, accepted # media.film)
    BY <1>8 DEF SaveTarget
  <2>4. handler' \in [Requests -> Handler]
    BY <2>1, <2>2, <2>3, HandlerTypes DEF Operations
  <2>5. /\ task' \in [Actors -> Task]
        /\ \A a \in Actors : task'[a].request = task[a].request /\ task'[a].pc = task[a].pc
    BY <1>0, <1>8 DEF SaveTarget, TypeOK, Task
  <2>6. TypeOK'
    BY <1>0, <1>8, <2>4, <2>5 DEF SaveTarget, TypeOK, tables, ghosts
  <2>7. handler' = [handler EXCEPT ![w] = [op |-> "deliver", pc |-> "open", seen |-> accepted,
                                           saves |-> accepted # media.film]]
    BY <2>3 DEF Open
  <2>8. Assigned'
    <3> HIDE DEF accepted
    <3> QED
      BY <1>0, <1>8, <2>1, <2>5, <2>7 DEF SaveTarget, Assigned, Actors, TypeOK
  <2> QED
    BY <2>6, <2>8 DEF TypeInv
<1>9. CASE CommitSent
  <2> DEFINE req == [request EXCEPT ![w] = Outcome(handler[w].op)]
  <2>1. w \in Requests /\ handler[w].op = "deliver"
    BY <1>0, <1>9 DEF CommitSent, Assigned, Inside
  <2>2. req \in [Requests -> RequestStatuses] /\ queued \ {w} \in SUBSET Requests
    BY <1>0, <2>1 DEF Outcome, TypeOK, RequestStatuses
  <2>3. handler[w].seen \in Film
    BY <2>1, HandlerTypes DEF Handler
  <2>4. \/ Save(handler[w].seen, req, {w}, queued \ {w})
        \/ SaveRequests(req, {w}, queued \ {w})
    BY <1>9 DEF CommitSent, Conclude
  <2>5. /\ media' \in Media /\ request' \in [Requests -> RequestStatuses]
        /\ queued' \in SUBSET Requests /\ deletion' \in Deletion
    <3> HIDE DEF req
    <3> QED
      BY <1>0, <2>2, <2>3, <2>4, SaveTypes, SaveRequestsTypes
  <2>6. revived' \in SUBSET Requests
    BY <1>0, <1>9, <2>1 DEF CommitSent, TypeOK
  <2>7. TypeOK'
    BY <1>0, <1>9, <2>1, <2>5, <2>6, TaskTypes, HandlerTypes DEF CommitSent, Conclude, TypeOK
  <2>8. Assigned'
    BY <1>0, <1>9, <2>1
    DEF CommitSent, Conclude, Leave, Rest, Resting, Out, Assigned, TypeOK, Actors
  <2> QED
    BY <2>7, <2>8 DEF TypeInv
<1>6. CASE DispatchFailed
  BY <1>6, <1>0, SpentTypes, FinishTypes DEF DispatchFailed, RequestStatuses
<1>7. CASE WorkerDies
  <2>1. w \in Requests
    BY <1>0, <1>7 DEF WorkerDies, Assigned, Inside
  <2>2. TypeOK'
    BY <1>0, <1>7, <2>1, TaskTypes, HandlerTypes, SpentTypes DEF WorkerDies, TypeOK, tables, ghosts
  <2>3. Assigned'
    BY <1>0, <1>7, <2>1
    DEF WorkerDies, Leave, Rest, Resting, Out, Assigned, TypeOK, Actors, tables
  <2> QED
    BY <2>2, <2>3 DEF TypeInv
<1> QED
  BY <1>1, <1>2, <1>3, <1>4, <1>5, <1>6, <1>7, <1>8, <1>9 DEF Deliver

LEMMA ScanTypes ==
  ASSUME TypeInv, ScanRadarr
  PROVE  TypeInv'
<1> DEFINE seen == task["scanner"].seen
           one == scan.one
<1>0. /\ TypeOK /\ Assigned /\ "scanner" \in Actors /\ seen \in Film /\ media.film \in Film
      /\ scan \in Scan /\ request \in [Requests -> RequestStatuses] /\ queued \in SUBSET Requests
      /\ scan.orphans \in SUBSET Requests
  BY TaskTypes DEF TypeInv, TypeOK, Media, Actors, Scan
<1>1. NoScan \in Scan /\ Skipped \in Scan
  BY <1>0, UnknownTypes DEF NoScan, Skipped, Scan, Holdings
<1>a. ASSUME scan' \in Scan, UNCHANGED <<instance, library, tables, handler, task, ghosts>>
      PROVE  TypeOK'
  BY <1>0, <1>a DEF TypeOK, tables, ghosts
<1>b. ASSUME scan' \in Scan, task' \in [Actors -> Task],
             media' \in Media, request' \in [Requests -> RequestStatuses],
             queued' \in SUBSET Requests, deletion' \in Deletion,
             UNCHANGED <<instance, library, handler, ghosts>>
      PROVE  TypeOK'
  BY <1>0, <1>b DEF TypeOK, ghosts
<1>c. ASSUME UNCHANGED <<task, handler>>, task["scanner"].pc = "out",
             scan'.pc \in {"confirm", "clean", "decline"} => scan'.one \in Qualities
      PROVE  Assigned'
  BY <1>0, <1>c DEF Assigned
<1>d. ASSUME Enter("scanner", None), UNCHANGED handler,
             scan'.pc \in {"servers", "resets", "clean"}, scan'.one \in Qualities
      PROVE  Assigned'
  BY <1>0, <1>d DEF Enter, Out, Assigned, TypeOK, Actors
<1>e. ASSUME Leave("scanner"), UNCHANGED handler,
             scan'.pc \in {"confirm", "clean", "decline"} => scan'.one \in Qualities
      PROVE  Assigned'
  BY <1>0, <1>e DEF Leave, Out, Assigned, TypeOK, Actors
<1>2. CASE StartScan
  <2>1. scan' = [NoScan EXCEPT !.pc = "servers", !.todo = instance.scans]
    BY <1>2 DEF StartScan
  <2>2. scan' \in Scan
    BY <1>0, <1>1, <2>1 DEF Scan, TypeOK, Instance
  <2>3. scan'.pc = "servers" /\ task["scanner"].pc = "out"
    BY <1>0, <1>2, <2>1 DEF NoScan, StartScan, Assigned
  <2> QED
    BY <1>2, <1>a, <1>c, <2>2, <2>3 DEF StartScan, TypeInv, tables
<1>3. CASE NextPhase
  <2>1. task["scanner"].pc = "out"
    BY <1>0, <1>3, ConstantsAssumption DEF NextPhase, Assigned
  <2>2. CASE scan' = [scan EXCEPT !.pc = "resets", !.todo = scan.deferred \cap Scanned,
                                  !.deferred = {}]
    <3>1. scan' \in Scan /\ scan'.pc = "resets"
      BY <1>0, <2>2 DEF Scan
    <3> QED
      BY <1>3, <1>a, <1>c, <2>1, <3>1 DEF NextPhase, TypeInv, tables
  <2>3. CASE scan' = [scan EXCEPT !.pc = "cleanup",
                                  !.todo = {q \in Scanned : scan.list[q] = "absent"}]
    <3>1. Scanned \subseteq Qualities
      BY <1>0 DEF Scanned, TypeOK, Instance
    <3>2. scan' \in Scan /\ scan'.pc = "cleanup"
      BY <1>0, <2>3, <3>1 DEF Scan
    <3> QED
      BY <1>3, <1>a, <1>c, <2>1, <3>2 DEF NextPhase, TypeInv, tables
  <2>4. CASE scan' = NoScan
    <3>1. scan'.pc = "idle"
      BY <2>4 DEF NoScan
    <3> QED
      BY <1>1, <1>3, <1>a, <1>c, <2>1, <2>4, <3>1 DEF NextPhase, TypeInv, tables
  <2> QED
    BY <1>3, <2>2, <2>3, <2>4 DEF NextPhase
<1>4. ASSUME NEW q \in Qualities, ListServer(q)
      PROVE  TypeInv'
  <2>1. scan' \in Scan
    BY <1>0, <1>4 DEF ListServer, Scan, TypeOK
  <2>2. scan'.pc = "servers" /\ task["scanner"].pc = "out"
    BY <1>0, <1>4, ConstantsAssumption DEF ListServer, Scan, Assigned
  <2> QED
    BY <1>4, <1>a, <1>c, <2>1, <2>2 DEF ListServer, TypeInv, tables
<1>5. CASE EntryRead
  <2>1. scan.one \in Qualities
    BY <1>0, <1>5 DEF EntryRead, Scan
  <2>2. TypeOK'
    BY <1>0, <1>5, TaskTypes DEF EntryRead, TypeOK, tables, ghosts
  <2> QED
    BY <1>5, <1>d, <2>1, <2>2 DEF EntryRead, TypeInv
<1>6. CASE EntrySave
  <2> DEFINE film == [seen EXCEPT !.status[one] = EntryStatus(scan.list[one], @),
                                  !.linked = @ \cup {one}]
  <2>1. one \in Qualities /\ scan.list[one] \in Holdings
    BY <1>0, <1>6 DEF EntrySave, Assigned, Inside, Scan
  <2>2. EntryStatus(scan.list[one], seen.status[one]) \in MediaStatuses
    BY <1>0, <2>1, StatusTypes DEF EntryStatus, MediaStatuses, Film
  <2>3. film \in Film
    BY <1>0, <2>1, <2>2 DEF Film
  <2>4. /\ media' \in Media /\ request' \in [Requests -> RequestStatuses]
        /\ queued' \in SUBSET Requests /\ deletion' \in Deletion
    BY <1>0, <1>6, <2>3, SaveTypes DEF EntrySave, TypeOK, tables
  <2>5. scan' \in Scan /\ scan'.pc = scan.pc
    BY <1>0, <1>6, <2>1 DEF EntrySave, Scan
  <2>6. TypeOK'
    BY <1>0, <1>6, <1>b, <2>4, <2>5, TaskTypes DEF EntrySave
  <2>7. Assigned'
    BY <1>0, <1>6, <2>5 DEF EntrySave, Leave, Out, Assigned, TypeOK, Actors
  <2> QED
    BY <2>6, <2>7 DEF TypeInv
<1>7. ASSUME NEW q \in Qualities, ResetRead(q)
      PROVE  TypeInv'
  <2>1. scan' \in Scan
    <3>1. CASE scan' = [scan EXCEPT !.one = q, !.todo = @ \ {q}, !.orphans = Approved(q)]
      BY <1>0, <3>1 DEF Scan, Approved, Of
    <3>2. CASE scan' = [scan EXCEPT !.todo = @ \ {q}]
      BY <1>0, <3>2 DEF Scan
    <3> QED
      BY <1>7, <3>1, <3>2 DEF ResetRead
  <2>2. task' \in [Actors -> Task]
    BY <1>0, <1>7, TaskTypes DEF ResetRead, TypeOK
  <2>3. TypeOK'
    BY <1>0, <1>7, <2>1, <2>2 DEF ResetRead, TypeOK, tables, ghosts
  <2>4. CASE Enter("scanner", None)
    <3>0. task["scanner"].pc = "out" /\ task'["scanner"].pc = "first"
      BY <1>0, <2>4 DEF Enter, MayEnter, Out, TypeOK
    <3>1. scan'.one = q /\ scan'.pc = "resets"
      BY <1>0, <1>7, <3>0 DEF ResetRead, Scan
    <3> QED
      BY <1>7, <1>d, <2>3, <2>4, <3>1 DEF ResetRead, TypeInv
  <2>5. CASE UNCHANGED task /\ scan' = [scan EXCEPT !.todo = @ \ {q}]
    BY <1>0, <1>7, <2>3, <2>5 DEF ResetRead, TypeInv, Assigned, Scan
  <2> QED
    BY <1>7, <2>4, <2>5 DEF ResetRead
<1>8. CASE ResetWrite
  <2> DEFINE reset == IF seen.status[one] = "processing"
                      THEN [seen EXCEPT !.status[one] = "unknown"] ELSE media.film
             film == IF \E r \in scan.orphans : MayReject(r, reset, Declined(scan.orphans))
                     THEN [reset EXCEPT !.status[one] = "unknown"] ELSE reset
  <2>1. one \in Qualities
    BY <1>0, <1>8 DEF ResetWrite, Assigned, Inside
  <2>2. reset \in Film
    BY <1>0, <2>1, FilmTypes DEF MediaStatuses
  <2>3. film \in Film
    BY <2>1, <2>2, FilmTypes DEF MediaStatuses
  <2>4. Declined(scan.orphans) \in [Requests -> RequestStatuses]
    BY <1>0 DEF Declined, RequestStatuses
  <2>5. Save(film, Declined(scan.orphans), {}, queued)
    BY <1>8 DEF ResetWrite
  <2>6. /\ media' \in Media /\ request' \in [Requests -> RequestStatuses]
        /\ queued' \in SUBSET Requests /\ deletion' \in Deletion
    <3> HIDE DEF film
    <3> QED
      BY <1>0, <2>3, <2>4, <2>5, SaveTypes
  <2>7. scan' \in Scan /\ scan'.pc = "resets"
    BY <1>0, <1>8 DEF ResetWrite, Scan
  <2> QED
    BY <1>0, <1>8, <1>b, <1>e, <2>6, <2>7, TaskTypes DEF ResetWrite, TypeInv
<1>9. ASSUME NEW q \in Qualities, CleanupFind(q)
      PROVE  TypeInv'
  <2>1. scan' \in Scan
    BY <1>0, <1>9 DEF CleanupFind, Scan, Approved, Of
  <2>2. task["scanner"].pc = "out"
    BY <1>0, <1>9 DEF CleanupFind, Assigned
  <2>3. scan'.pc = "confirm" => scan'.one = q
    BY <1>0, <1>9 DEF CleanupFind, Scan
  <2>4. scan'.pc \in {"cleanup", "confirm"}
    BY <1>0, <1>9 DEF CleanupFind, Scan
  <2> QED
    BY <1>9, <1>a, <1>c, <2>1, <2>2, <2>3, <2>4 DEF CleanupFind, TypeInv, tables
<1>10. CASE Confirm
  <2>1. scan' \in Scan
    BY <1>0, <1>1, <1>10 DEF Confirm, Scan
  <2>2. task["scanner"].pc = "out" /\ one \in Qualities
    BY <1>0, <1>10 DEF Confirm, Assigned
  <2>3. scan'.pc \in {"clean", "cleanup"} /\ (scan'.pc = "clean" => scan'.one = one)
    BY <1>0, <1>10 DEF Confirm, Scan, Skipped
  <2> QED
    BY <1>10, <1>a, <1>c, <2>1, <2>2, <2>3 DEF Confirm, TypeInv, tables
<1>11. CASE CleanRead
  <2>1. one \in Qualities /\ task["scanner"].pc = "out"
    BY <1>0, <1>11 DEF CleanRead, Assigned, MayEnter
  <2>2. CASE Enter("scanner", None) /\ UNCHANGED scan
    <3>1. TypeOK'
      BY <1>0, <1>11, <2>2, TaskTypes DEF CleanRead, TypeOK, tables, ghosts
    <3> QED
      BY <1>11, <1>d, <2>1, <2>2, <3>1 DEF CleanRead, TypeInv
  <2>3. CASE scan' = Skipped /\ UNCHANGED task
    <3>1. scan'.pc = "cleanup"
      BY <1>0, <2>3 DEF Skipped, Scan
    <3> QED
      BY <1>1, <1>11, <1>a, <1>c, <2>1, <2>3, <3>1 DEF CleanRead, TypeInv, tables
  <2> QED
    BY <1>11, <2>2, <2>3 DEF CleanRead
<1>12. CASE CleanWrite
  <2>1. one \in Qualities
    BY <1>0, <1>12 DEF CleanWrite, Assigned, Inside
  <2>2. [seen EXCEPT !.status[one] = "unknown"] \in Film
    BY <1>0, <2>1, FilmTypes DEF MediaStatuses
  <2>3. /\ media' \in Media /\ request' \in [Requests -> RequestStatuses]
        /\ queued' \in SUBSET Requests /\ deletion' \in Deletion
    BY <1>0, <1>12, <2>2, SaveTypes DEF CleanWrite
  <2>4. scan' \in Scan /\ scan'.one = one
    BY <1>0, <1>12 DEF CleanWrite, Scan
  <2> QED
    BY <1>0, <1>12, <1>b, <1>e, <2>1, <2>3, <2>4, TaskTypes DEF CleanWrite, TypeInv
<1>13. ASSUME NEW r \in Requests, Decline(r)
       PROVE  TypeInv'
  <2>1. one \in Qualities /\ task["scanner"].pc = "out" /\ UNCHANGED <<task, handler>>
    BY <1>0, <1>13 DEF Decline, Assigned
  <2>2. Rejected(r, media.film, Declined({r})) \in Film
    BY <1>0, StatusTypes, <2>1 DEF Holdings
  <2>3. MayReject(r, media.film, Declined({r})) \in BOOLEAN
    BY DEF MayReject
  <2>4. CASE scan' = NoScan
    <3>1. scan'.pc = "idle"
      BY <2>4 DEF NoScan
    <3> QED
      BY <1>1, <1>13, <1>a, <1>c, <2>1, <2>4, <3>1 DEF Decline, TypeInv, tables
  <2>5. CASE scan' = [scan EXCEPT !.orphans = @ \ {r}, !.declined = r,
                        !.seen = Rejected(r, media.film, Declined({r})),
                        !.saves = MayReject(r, media.film, Declined({r}))]
    <3>1. scan' \in Scan /\ scan'.one = one
      BY <1>0, <2>2, <2>3, <2>5 DEF Scan
    <3> QED
      BY <1>13, <1>a, <1>c, <2>1, <3>1 DEF Decline, TypeInv, tables
  <2> QED
    BY <1>13, <2>4, <2>5 DEF Decline
<1>16. CASE CommitDeclined
  <2>1. Declined({scan.declined}) \in [Requests -> RequestStatuses]
    BY <1>0 DEF Declined, RequestStatuses
  <2>2. scan.seen \in Film
    BY <1>0 DEF Scan
  <2>3. \/ Save(scan.seen, Declined({scan.declined}), {scan.declined}, queued)
        \/ SaveRequests(Declined({scan.declined}), {scan.declined}, queued)
    BY <1>16 DEF CommitDeclined
  <2>4. /\ media' \in Media /\ request' \in [Requests -> RequestStatuses]
        /\ queued' \in SUBSET Requests /\ deletion' \in Deletion
    BY <1>0, <2>1, <2>2, <2>3, SaveTypes, SaveRequestsTypes
  <2>5. scan' \in Scan /\ scan'.pc = scan.pc /\ scan'.one = one
    BY <1>0, <1>16, UnknownTypes DEF CommitDeclined, Scan
  <2>6. /\ task' \in [Actors -> Task]
        /\ \A a \in Actors : task'[a].pc = task[a].pc /\ task'[a].request = task[a].request
    BY <1>0, <1>16 DEF CommitDeclined, TypeOK, Task
  <2>7. TypeOK'
    BY <1>16, <1>b, <2>4, <2>5, <2>6 DEF CommitDeclined
  <2>8. Assigned'
    BY <1>0, <1>16, <2>5, <2>6 DEF CommitDeclined, Assigned, Actors
  <2> QED
    BY <2>7, <2>8 DEF TypeInv
<1>14. CASE CleanEnd
  <2>1. task["scanner"].pc = "out" /\ scan' = Skipped
    BY <1>0, <1>14 DEF CleanEnd, Assigned
  <2>2. scan'.pc = "cleanup"
    BY <1>0, <2>1 DEF Skipped, Scan
  <2> QED
    BY <1>1, <1>14, <1>a, <1>c, <2>1, <2>2 DEF CleanEnd, TypeInv, tables
<1>15. CASE ScanFails
  <2>1. TypeOK'
    BY <1>0, <1>1, <1>15, TaskTypes, SpentTypes DEF ScanFails, TypeOK, tables, ghosts
  <2>2. scan'.pc = "idle"
    BY <1>15 DEF ScanFails, NoScan
  <2> QED
    BY <1>15, <1>e, <2>1, <2>2 DEF ScanFails, TypeInv
<1> QED
  BY <1>2, <1>3, <1>4, <1>5, <1>6, <1>7, <1>8, <1>9, <1>10, <1>11, <1>12, <1>13, <1>14, <1>15,
     <1>16
  DEF ScanRadarr

LEMMA ReconcileTypes ==
  ASSUME TypeInv, Reconcile
  PROVE  TypeInv'
<1> DEFINE seen == task["reconciler"].seen
<1>0. /\ TypeOK /\ Assigned /\ "reconciler" \in Actors /\ seen \in Film /\ media.film \in Film
      /\ deletion \in Deletion /\ request \in [Requests -> RequestStatuses]
      /\ task["reconciler"] \in Task /\ task \in [Actors -> Task]
  BY TaskTypes DEF TypeInv, TypeOK, Media, Actors
<1>a. NoDeletion \in Deletion
  BY DEF NoDeletion, Deletion
<1>b. ASSUME UNCHANGED <<handler, scan>>, task' \in [Actors -> Task],
             UNCHANGED <<task["creator"], task["worker"], task["scanner"]>>
      PROVE  Assigned'
  BY <1>0, <1>b DEF Assigned
<1>c. ASSUME Leave("reconciler") \/ Enter("reconciler", None)
      PROVE  UNCHANGED <<task["creator"], task["worker"], task["scanner"]>>
  BY <1>0, <1>c DEF Leave, Enter, TypeOK, Actors
<1>1. CASE Probe
  <2>1. deletion' \in Deletion
    BY <1>1 DEF Probe, Deletion, Gone
  <2> QED
    BY <1>0, <1>1, <2>1 DEF Probe, TypeInv, TypeOK, Assigned, ghosts
<1>2. CASE ProbeAgain
  <2>1. deletion' \in Deletion /\ task' \in [Actors -> Task]
    BY <1>0, <1>a, <1>2, TaskTypes DEF ProbeAgain
  <2>2. UNCHANGED <<task["creator"], task["worker"], task["scanner"]>>
    BY <1>2, <1>c DEF ProbeAgain
  <2> QED
    BY <1>0, <1>2, <1>b, <2>1, <2>2 DEF ProbeAgain, TypeInv, TypeOK, ghosts
<1>3. CASE CheckOutbox
  <2>1. deletion' \in Deletion
    BY <1>0, <1>a, <1>3 DEF CheckOutbox
  <2>2. [task["reconciler"] EXCEPT !.pc = "second"] \in Task
    BY <1>0 DEF Task
  <2>3. task' \in [Actors -> Task]
    BY <1>0, <1>3, <2>2, TaskTypes DEF CheckOutbox
  <2>4. UNCHANGED <<task["creator"], task["worker"], task["scanner"]>>
    BY <1>0, <1>3, <1>c DEF CheckOutbox, Actors
  <2> QED
    BY <1>0, <1>3, <1>b, <2>1, <2>3, <2>4 DEF CheckOutbox, TypeInv, TypeOK, ghosts
<1>4. CASE ApplyDeletion
  <2>1. Unlinked \in Film
    BY <1>0 DEF Unlinked, Known, Film, MediaStatuses
  <2>2. media' \in Media
    <3>1. media \in Media /\ NoMedia \in Media
      BY <1>0, UnknownTypes DEF NoMedia, Media, TypeOK
    <3>2. [media EXCEPT !.film = Unlinked] \in Media
      BY <2>1, <3>1 DEF Media
    <3> QED
      BY <1>4, <3>1, <3>2 DEF ApplyDeletion
  <2>3. request' \in [Requests -> RequestStatuses] /\ queued' \in SUBSET Requests
    BY <1>0, <1>4 DEF ApplyDeletion, RequestStatuses, TypeOK
  <2>4. ever' \in SUBSET Qualities
    BY <1>0, <1>4 DEF ApplyDeletion, Known, TypeOK, Deletion
  <2>5. deletion' \in Deletion /\ task' \in [Actors -> Task]
    BY <1>0, <1>4, <1>a, TaskTypes DEF ApplyDeletion
  <2>6. UNCHANGED <<task["creator"], task["worker"], task["scanner"]>>
    BY <1>4, <1>c DEF ApplyDeletion
  <2> QED
    BY <1>0, <1>4, <1>b, <2>2, <2>3, <2>4, <2>5, <2>6 DEF ApplyDeletion, TypeInv, TypeOK
<1> QED
  BY <1>1, <1>2, <1>3, <1>4 DEF Reconcile

LEMMA NextTypes ==
  ASSUME TypeInv, [Next]_vars
  PROVE  TypeInv'
<1>1. ASSUME NEW q \in Qualities, LibraryChanges(q)
      PROVE  TypeInv'
  <2>1. instance' \in Instance
    BY <1>1, SpentTypes DEF LibraryChanges, TypeInv
  <2>2. library' \in [Qualities -> Holdings] /\ ever' \in SUBSET Qualities
    BY <1>1 DEF LibraryChanges, TypeInv, TypeOK
  <2> QED
    BY <1>1, <2>1, <2>2 DEF LibraryChanges, TypeInv, TypeOK, Assigned, tables
<1>2. CASE UNCHANGED vars
  BY <1>2 DEF vars, TypeInv, TypeOK, Assigned
<1> QED
  BY <1>1, <1>2, CreateTypes, HandleTypes, DeliverTypes, ScanTypes, ReconcileTypes DEF Next

(* Every variable keeps its type: RequestLifecycle's TypeOK.                *)
THEOREM TypeCorrect == Spec => []TypeOK
<1>1. TypeInv /\ [Next]_vars => TypeInv'
  BY NextTypes
<1>2. TypeInv => TypeOK
  BY DEF TypeInv
<1> QED
  BY TypeInit, <1>1, <1>2, PTL DEF Spec

-----------------------------------------------------------------------------
(* One active request per destination.  Only the creation of a request      *)
(* makes one active that was not before and that neither an operator nor a  *)
(* worker has made active again; the requests for its destination that it   *)
(* may have met since it looked have been made active again.                *)

Again == reopened \cup revived

RequestsAge ==
  /\ Again \subseteq Again'
  /\ \A r \in Requests : request'[r] \in Active => request[r] \in Active \/ r \in Again'
  /\ \A r \in Requests : request'[r] = "none" => request[r] = "none"

Unrivalled ==
  task["creator"].pc # "out" /\ request[task["creator"].request] = "none" =>
    \A s \in SameDestination(task["creator"].request) : request[s] \in Active => s \in Again

LEMMA SavedAge ==
  ASSUME NEW film, NEW req \in [Requests -> RequestStatuses], NEW own, NEW rows,
         Save(film, req, own, rows) \/ SaveRequests(req, own, rows),
         Again \subseteq Again',
         \A r \in Requests : req[r] \in Active => request[r] \in Active \/ r \in Again',
         \A r \in Requests : req[r] = "none" => request[r] = "none"
  PROVE  RequestsAge
<1>1. \A r \in Requests : request'[r] \in {req[r], "completed"}
  BY CascadeTypes DEF Save, SaveRequests
<1> QED
  BY <1>1 DEF RequestsAge, Active

LEMMA HandlersAge ==
  ASSUME TypeInv, NEW r \in Requests, Handle(r)
  PROVE  RequestsAge /\ UNCHANGED <<task["creator"].pc, task["creator"].request>>
<1>0. /\ TypeOK /\ Assigned /\ request \in [Requests -> RequestStatuses]
      /\ task \in [Actors -> Task] /\ "creator" \in Actors
  BY DEF TypeInv, TypeOK, Actors
<1>1. CASE Commit(r)
  <2> DEFINE status == Outcome(handler[r].op)
             req == [request EXCEPT ![r] = status]
             rows == IF status = "approved" THEN queued \cup {r} ELSE queued
  <2>1. status \in {"approved", "declined", "removed"}
    BY <1>0, <1>1 DEF Commit, Conclude, Assigned, Outcome
  <2>2. req \in [Requests -> RequestStatuses]
    BY <1>0, <2>1 DEF RequestStatuses
  <2>3. /\ Again \subseteq Again'
        /\ status = "approved" /\ request[r] \notin Active => r \in Again'
    BY <1>1 DEF Commit, Reopening, Again
  <2>4. Save(handler[r].seen, req, {r}, rows) \/ SaveRequests(req, {r}, rows)
    BY <1>1 DEF Commit, Conclude
  <2>5. \A s \in Requests : req[s] \in Active => request[s] \in Active \/ s \in Again'
    BY <1>0, <2>1, <2>3 DEF Active
  <2>6. \A s \in Requests : req[s] = "none" => request[s] = "none"
    BY <1>0, <2>1
  <2>7. RequestsAge
    <3> HIDE DEF req, rows
    <3> QED
      BY <2>2, <2>3, <2>4, <2>5, <2>6, SavedAge
  <2>8. UNCHANGED <<task["creator"].pc, task["creator"].request>>
    BY <1>0, <1>1 DEF Commit, Task
  <2> QED
    BY <2>7, <2>8
<1>2. CASE ~Commit(r)
  <2>1. UNCHANGED <<request, reopened, revived, task>>
    BY <1>2 DEF Handle, Judge, Write, Remove, Abort, tables, ghosts
  <2> QED
    BY <2>1 DEF RequestsAge, Again
<1> QED
  BY <1>1, <1>2

LEMMA DeliveriesAge ==
  ASSUME TypeInv, Deliver
  PROVE  RequestsAge /\ UNCHANGED task["creator"]
<1>0. /\ TypeOK /\ Assigned /\ request \in [Requests -> RequestStatuses]
      /\ task \in [Actors -> Task] /\ "creator" \in Actors /\ "worker" \in Actors
  BY DEF TypeInv, TypeOK, Actors
<1> DEFINE w == task["worker"].request
<1>1. ASSUME NEW status \in {"completed", "failed"}, Finish(status)
      PROVE  RequestsAge /\ UNCHANGED task["creator"]
  <2> DEFINE req == [request EXCEPT ![w] = status]
  <2>1. req \in [Requests -> RequestStatuses]
    BY <1>0 DEF RequestStatuses
  <2>2. \A s \in Requests : /\ req[s] \in Active => request[s] \in Active
                            /\ req[s] = "none" => request[s] = "none"
    BY <1>0 DEF Active
  <2>3. /\ SaveRequests(req, IF handler[w].pc = "open" THEN {w} ELSE {}, queued \ {w})
        /\ UNCHANGED Again
    BY <1>1 DEF Finish, ghosts, Again
  <2>4. RequestsAge
    <3> HIDE DEF req
    <3> QED
      BY <2>1, <2>2, <2>3, SavedAge
  <2> QED
    BY <1>0, <1>1, <2>4 DEF Finish, Leave
<1>2. CASE CompleteAvailable \/ DispatchFailed
  BY <1>1, <1>2 DEF CompleteAvailable, DispatchFailed
<1>3. CASE SaveSent
  <2>1. RequestsAge
    BY <1>0, <1>3, SavedAge DEF SaveSent, ghosts, Again
  <2> QED
    BY <1>0, <1>3, <2>1 DEF SaveSent
<1>5. CASE CommitSent
  <2> DEFINE req == [request EXCEPT ![w] = Outcome(handler[w].op)]
  <2>1. w \in Requests /\ Outcome(handler[w].op) = "approved"
    BY <1>0, <1>5 DEF CommitSent, Inside, Assigned, Outcome
  <2>2. req \in [Requests -> RequestStatuses]
    BY <1>0, <2>1 DEF RequestStatuses
  <2>3. \E film, rows : Save(film, req, {w}, rows) \/ SaveRequests(req, {w}, rows)
    BY <1>5 DEF CommitSent, Conclude
  <2>4. Again \subseteq Again' /\ (request[w] \notin Active => w \in Again')
    BY <1>5 DEF CommitSent, Again
  <2>5. \A s \in Requests : /\ req[s] \in Active => request[s] \in Active \/ s \in Again'
                            /\ req[s] = "none" => request[s] = "none"
    BY <1>0, <2>1, <2>4
  <2>6. RequestsAge
    <3> HIDE DEF req
    <3> QED
      BY <2>2, <2>3, <2>4, <2>5, SavedAge
  <2> QED
    BY <1>0, <1>5, <2>6 DEF CommitSent, Leave
<1>4. CASE AddMovie \/ SaveTarget \/ WorkerDies \/ \E r \in Requests : Begin(r) \/ Admit(r)
  <2>1. UNCHANGED <<request, reopened, revived>>
    BY <1>4 DEF AddMovie, SaveTarget, WorkerDies, Begin, Admit, tables, ghosts
  <2>2. UNCHANGED task["creator"]
    BY <1>0, <1>4 DEF AddMovie, SaveTarget, WorkerDies, Begin, Admit, Leave, Enter
  <2> QED
    BY <2>1, <2>2 DEF RequestsAge, Again
<1> QED
  BY <1>2, <1>3, <1>4, <1>5 DEF Deliver

LEMMA ScansAge ==
  ASSUME TypeInv, ScanRadarr
  PROVE  RequestsAge /\ UNCHANGED <<task["creator"].pc, task["creator"].request>>
<1>0. /\ TypeOK /\ request \in [Requests -> RequestStatuses]
      /\ task \in [Actors -> Task] /\ "creator" \in Actors /\ "scanner" \in Actors
  BY DEF TypeInv, TypeOK, Actors
<1>1. UNCHANGED <<task["creator"].pc, task["creator"].request>>
  <2>1. CASE CommitDeclined
    BY <1>0, <2>1 DEF CommitDeclined, Task
  <2>2. CASE ~CommitDeclined
    <3>1. UNCHANGED task["creator"]
      BY <1>0, <2>2 DEF ScanRadarr, StartScan, NextPhase, EntryRead, EntrySave, ResetWrite,
        Confirm, CleanRead, CleanWrite, CleanEnd, ScanFails, ListServer, ResetRead, CleanupFind,
        Decline, Enter, Leave
    <3> QED
      BY <3>1
  <2> QED
    BY <2>1, <2>2
<1>2. ASSUME NEW gone \in SUBSET Requests
      PROVE  /\ Declined(gone) \in [Requests -> RequestStatuses]
             /\ \A s \in Requests : /\ Declined(gone)[s] \in Active => request[s] \in Active
                                    /\ Declined(gone)[s] = "none" => request[s] = "none"
  BY <1>0 DEF Declined, Active, RequestStatuses
<1>3. CASE EntrySave
  <2>1. UNCHANGED Again
    BY <1>3 DEF EntrySave, ghosts, Again
  <2>2. CASE UNCHANGED tables
    BY <1>1, <2>1, <2>2 DEF RequestsAge, tables
  <2>3. CASE ~UNCHANGED tables
    BY <1>0, <1>1, <1>3, <2>1, <2>3, SavedAge DEF EntrySave
  <2> QED
    BY <2>2, <2>3
<1>4. CASE ResetWrite
  <2>1. scan.orphans \in SUBSET Requests
    BY <1>0 DEF TypeOK, Scan
  <2>2. RequestsAge
    BY <1>2, <1>4, <2>1, SavedAge DEF ResetWrite, ghosts, Again
  <2> QED
    BY <1>1, <2>2
<1>5. CASE CleanWrite
  <2>1. RequestsAge
    BY <1>0, <1>5, SavedAge DEF CleanWrite, ghosts, Again
  <2> QED
    BY <1>1, <2>1
<1>6. CASE CommitDeclined
  <2> DEFINE req == Declined({scan.declined})
  <2>1. Again \subseteq Again'
    BY <1>6 DEF CommitDeclined, ghosts, Again
  <2>2. {scan.declined} \in SUBSET Requests
    BY <1>0, <1>6 DEF CommitDeclined, TypeOK, Scan
  <2>3. \/ Save(scan.seen, req, {scan.declined}, queued)
        \/ SaveRequests(req, {scan.declined}, queued)
    BY <1>6 DEF CommitDeclined
  <2>4. /\ req \in [Requests -> RequestStatuses]
        /\ \A s \in Requests : req[s] \in Active => request[s] \in Active
        /\ \A s \in Requests : req[s] = "none" => request[s] = "none"
    BY <1>2, <2>2
  <2>5. RequestsAge
    <3> HIDE DEF req
    <3> QED
      BY <2>1, <2>3, <2>4, SavedAge
  <2> QED
    BY <1>1, <2>5
<1>7. CASE \/ StartScan \/ NextPhase \/ EntryRead \/ Confirm \/ CleanRead \/ CleanEnd \/ ScanFails
           \/ \E q \in Qualities : ListServer(q) \/ ResetRead(q) \/ CleanupFind(q)
           \/ \E r \in Requests : Decline(r)
  <2>1. UNCHANGED <<request, reopened, revived>>
    BY <1>7 DEF StartScan, NextPhase, EntryRead, Confirm, CleanRead, CleanEnd, ScanFails,
      ListServer, ResetRead, CleanupFind, Decline, tables, ghosts
  <2> QED
    BY <1>1, <2>1 DEF RequestsAge, Again
<1> QED
  BY <1>1, <1>3, <1>4, <1>5, <1>6, <1>7 DEF ScanRadarr

LEMMA ReconciliationsAge ==
  ASSUME TypeInv, Reconcile
  PROVE  RequestsAge /\ UNCHANGED task["creator"]
<1>0. /\ task \in [Actors -> Task] /\ "creator" \in Actors /\ "reconciler" \in Actors
      /\ request \in [Requests -> RequestStatuses]
  BY DEF TypeInv, TypeOK, Actors
<1>1. UNCHANGED task["creator"]
  BY <1>0 DEF Reconcile, Probe, ProbeAgain, CheckOutbox, ApplyDeletion, Enter, Leave
<1>2. UNCHANGED Again
  BY DEF Reconcile, Probe, ProbeAgain, CheckOutbox, ApplyDeletion, ghosts, Again
<1>3. \A r \in Requests : request'[r] \in {request[r], "removed"} /\ (request[r] = "none" <=> request'[r] = "none")
  BY <1>0 DEF Reconcile, Probe, ProbeAgain, CheckOutbox, ApplyDeletion, RequestStatuses
<1> QED
  BY <1>1, <1>2, <1>3 DEF RequestsAge, Active

RivalsInv == TypeInv /\ OneActive /\ Unrivalled

LEMMA PairsActive ==
  ASSUME OneActive,
         NEW r \in Requests, request[r] \in Active, r \notin Again,
         NEW s \in SameDestination(r), request[s] \in Active
  PROVE  s \in Again
BY DEF OneActive, Again

LEMMA AgedRivals ==
  ASSUME RivalsInv, RequestsAge,
         task'["creator"].pc # "out" =>
           UNCHANGED <<task["creator"].pc, task["creator"].request>>
  PROVE  OneActive' /\ Unrivalled'
<1>1. ASSUME NEW r \in Requests, NEW s \in SameDestination(r),
             request'[r] \in Active, r \notin Again', request'[s] \in Active
      PROVE  s \in Again'
  <2>0. s \in Requests
    BY DEF SameDestination, Of
  <2>1. request[r] \in Active /\ r \notin Again
    BY <1>1 DEF RequestsAge
  <2>2. request[s] \in Active \/ s \in Again'
    BY <1>1, <2>0 DEF RequestsAge
  <2>3. request[s] \in Active => s \in Again
    BY <2>1, PairsActive DEF RivalsInv
  <2> QED
    BY <2>2, <2>3 DEF RequestsAge
<1>2. OneActive'
  BY <1>1 DEF OneActive, Again, SameDestination, Of
<1>3. ASSUME task'["creator"].pc # "out", request'[task'["creator"].request] = "none",
             NEW s \in SameDestination(task["creator"].request), request'[s] \in Active
      PROVE  s \in Again'
  <2>0. s \in Requests
    BY DEF SameDestination, Of
  <2>1. task["creator"].request \in Requests /\ request[task["creator"].request] = "none"
    BY <1>3 DEF RivalsInv, TypeInv, Assigned, RequestsAge
  <2>2. request[s] \in Active => s \in Again
    BY <1>3, <2>1 DEF RivalsInv, Unrivalled
  <2> QED
    BY <1>3, <2>0, <2>2 DEF RequestsAge
<1> QED
  BY <1>2, <1>3 DEF Unrivalled, SameDestination, Of

LEMMA CreateRivals ==
  ASSUME RivalsInv, Create
  PROVE  OneActive' /\ Unrivalled'
<1> DEFINE c == task["creator"].request
<1>0. /\ request \in [Requests -> RequestStatuses] /\ task \in [Actors -> Task]
      /\ "creator" \in Actors /\ Assigned
  BY DEF RivalsInv, TypeInv, TypeOK, Actors
<1>1. ASSUME NEW r \in Requests, CreateRead(r)
      PROVE  OneActive' /\ Unrivalled'
  <2>1. task'["creator"].request = r /\ UNCHANGED <<request, reopened, revived>>
    BY <1>0, <1>1 DEF CreateRead, Enter, Out, tables, ghosts
  <2>2. \A s \in SameDestination(r) : request'[s] \notin Active
    BY <1>1, <2>1 DEF CreateRead, Uncovered
  <2> QED
    BY <2>1, <2>2 DEF RivalsInv, OneActive, Unrivalled, SameDestination, Of
<1>2. ASSUME NEW r \in Requests, PromoteRead(r)
      PROVE  OneActive' /\ Unrivalled'
  <2>1. /\ task'["creator"].request = r /\ UNCHANGED <<request, reopened, revived>>
        /\ request[r] = "pending"
    BY <1>0, <1>2 DEF PromoteRead, Enter, Out, tables, ghosts
  <2> QED
    BY <2>1 DEF RivalsInv, OneActive, Unrivalled
<1>3. CASE CreateSave
  <2>1. /\ c \in Requests /\ request[c] = "none" /\ UNCHANGED <<reopened, revived>>
        /\ task'["creator"].pc = "out"
    BY <1>0, <1>3 DEF CreateSave, Assigned, Inside, Leave, Out, ghosts
  <2>2. \A s \in SameDestination(c) : request[s] \in Active => s \in Again
    BY <1>3, <2>1 DEF RivalsInv, Unrivalled, CreateSave, Inside
  <2>a. PICK status \in {"pending", "approved"} :
          \E film, rows : Save(film, [request EXCEPT ![c] = status], {}, rows)
    BY <1>3 DEF CreateSave
  <2>3. PICK film, rows : Save(film, [request EXCEPT ![c] = status], {}, rows)
    BY <2>a
  <2>4. \A s \in Requests \ {c} : request'[s] \in Active => request[s] \in Active
    <3>1. [request EXCEPT ![c] = status] \in [Requests -> RequestStatuses]
      BY <1>0, <2>a DEF RequestStatuses
    <3> QED
      BY <1>0, <2>3, <3>1, CascadeTypes DEF Save, Active
  <2>5. \A s \in SameDestination(c) : request'[s] \in Active => s \in Again
    BY <2>2, <2>4 DEF SameDestination, Of
  <2>6. ASSUME NEW r \in Requests, NEW s \in SameDestination(r),
               request'[r] \in Active, r \notin Again, request'[s] \in Active
        PROVE  s \in Again
    <3>0. s \in Requests /\ s # r
      BY DEF SameDestination, Of
    <3>1. CASE r = c
      BY <2>5, <2>6, <3>1
    <3>2. CASE s = c
      <4>1. r \in SameDestination(c)
        BY <2>1, <3>0, <3>2 DEF SameDestination, Of
      <4> QED
        BY <2>5, <2>6, <4>1
    <3>3. CASE r # c /\ s # c
      BY <2>4, <2>6, <3>0, <3>3, PairsActive DEF RivalsInv
    <3> QED
      BY <3>1, <3>2, <3>3
  <2> QED
    BY <2>1, <2>6 DEF OneActive, Unrivalled, Again, SameDestination, Of
<1>4. CASE PromoteSave
  <2>1. c \in Requests /\ task'["creator"].pc = "out"
    BY <1>0, <1>4 DEF PromoteSave, Assigned, Inside, Leave, Out
  <2>2. Again \subseteq Again' /\ (request[c] \notin Active => c \in Again')
    BY <1>4 DEF PromoteSave, Reopening, Again
  <2>3. PICK film, rows :
          \/ Save(film, Approving(c), {}, rows)
          \/ SaveRequests(Approving(c), {}, rows)
    BY <1>4 DEF PromoteSave
  <2>4. /\ Approving(c) \in [Requests -> RequestStatuses]
        /\ \A r \in Requests : Approving(c)[r] \in Active => request[r] \in Active \/ r \in Again'
        /\ \A r \in Requests : Approving(c)[r] = "none" => request[r] = "none"
    BY <1>0, <2>1, <2>2 DEF Approving, RequestStatuses
  <2>5. RequestsAge
    BY <2>2, <2>3, <2>4, SavedAge
  <2> QED
    BY <2>1, <2>5, AgedRivals
<1> QED
  BY <1>1, <1>2, <1>3, <1>4 DEF Create

(* A destination of a film has one active request besides those that an     *)
(* operator or a worker made active again: RequestLifecycle's OneActive.    *)
THEOREM OneRequestActive == Spec => []OneActive
<1>1. Init => RivalsInv
  BY TypeInit DEF Init, RivalsInv, OneActive, Unrivalled, Out, Active, Actors
<1>2. RivalsInv /\ [Next]_vars => RivalsInv'
  <2> SUFFICES ASSUME RivalsInv, [Next]_vars PROVE OneActive' /\ Unrivalled'
    BY NextTypes DEF RivalsInv
  <2>0. TypeInv
    BY DEF RivalsInv
  <2>1. CASE Deliver \/ ScanRadarr \/ Reconcile
    BY <2>0, <2>1, DeliveriesAge, ScansAge, ReconciliationsAge, AgedRivals
  <2>2. ASSUME NEW r \in Requests, Handle(r)
        PROVE  OneActive' /\ Unrivalled'
    BY <2>0, <2>2, HandlersAge, AgedRivals
  <2>3. CASE UNCHANGED <<request, task, reopened, revived>>
    BY <2>3, AgedRivals DEF RequestsAge, Again
  <2>4. ASSUME NEW q \in Qualities, LibraryChanges(q)
        PROVE  UNCHANGED <<request, task, reopened, revived>>
    BY <2>4 DEF LibraryChanges, tables
  <2> QED
    BY <2>1, <2>2, <2>3, <2>4, CreateRivals DEF Next, vars
<1>3. RivalsInv => OneActive
  BY DEF RivalsInv
<1> QED
  BY <1>1, <1>2, <1>3, PTL DEF Spec

-----------------------------------------------------------------------------
(* Completed requests have been delivered.  A copy of the media, wherever   *)
(* it is held and however old it is, shows as available or deleted only     *)
(* what the library has had, so that saving it completes nothing else.      *)

Had(film, kept) ==
  \A q \in Qualities : film.status[q] \in {"available", "deleted"} => q \in kept

TablesHad == Had(media.film, ever) /\ CompletedDelivered

LibraryHad == \A q \in Qualities : library[q] = "file" \/ scan.list[q] = "file" => q \in ever

TasksHad == \A a \in Actors : Had(task[a].seen, ever)

HandlersHad == \A r \in Requests : Had(handler[r].seen, ever)

ScanHad == Had(scan.seen, ever)

DeliveredInv == TypeInv /\ TablesHad /\ LibraryHad /\ TasksHad /\ HandlersHad /\ ScanHad

LEMMA EverGrows ==
  ASSUME [Next]_vars
  PROVE  ever \subseteq ever'
<1>1. CASE Create
  BY <1>1 DEF Create, CreateRead, PromoteRead, CreateSave, PromoteSave, ghosts
<1>2. ASSUME NEW r \in Requests, Handle(r) PROVE ever \subseteq ever'
  BY <1>2 DEF Handle, Judge, Write, Remove, Commit, Abort, ghosts
<1>3. CASE Deliver
  BY <1>3 DEF Deliver, Begin, Admit, CompleteAvailable, AddMovie, SaveSent, SaveTarget,
    CommitSent, DispatchFailed, WorkerDies, Finish, ghosts
<1>4. CASE ScanRadarr
  BY <1>4 DEF ScanRadarr, StartScan, NextPhase, EntryRead, EntrySave, ResetWrite, Confirm,
    CleanRead, CleanWrite, CommitDeclined, CleanEnd, ScanFails, ListServer, ResetRead, CleanupFind,
    Decline, ghosts
<1>5. CASE Reconcile
  BY <1>5 DEF Reconcile, Probe, ProbeAgain, CheckOutbox, ApplyDeletion, ghosts
<1>6. ASSUME NEW q \in Qualities, LibraryChanges(q) PROVE ever \subseteq ever'
  BY <1>6 DEF LibraryChanges
<1>7. CASE UNCHANGED vars
  BY <1>7 DEF vars
<1> QED
  BY <1>1, <1>2, <1>3, <1>4, <1>5, <1>6, <1>7 DEF Next

(* What a task holds it has read from the table.                            *)
LEMMA TasksRead ==
  ASSUME TypeInv, [Next]_vars, NEW a \in Actors
  PROVE  task'[a].seen \in {task[a].seen, media.film, Unknown}
<1> DEFINE Read == task'[a].seen \in {task[a].seen, media.film, Unknown}
<1>0. task \in [Actors -> Task] /\ task[a] \in Task
  BY DEF TypeInv, TypeOK
<1>a. ASSUME NEW b \in Actors, NEW r, Enter(b, r) PROVE Read
  BY <1>0, <1>a DEF Enter, Out, Task
<1>b. ASSUME NEW b \in Actors, Leave(b) PROVE Read
  BY <1>0, <1>b DEF Leave, Out
<1>c. ASSUME UNCHANGED task PROVE Read
  BY <1>c
<1>d. {"creator", "worker", "scanner", "reconciler"} = Actors
  BY DEF Actors
<1> SUFFICES Read
  OBVIOUS
<1> HIDE DEF Read
<1>1. CASE Create
  BY <1>a, <1>b, <1>d, <1>1 DEF Create, CreateRead, PromoteRead, CreateSave, PromoteSave
<1>2. ASSUME NEW r \in Requests, Handle(r) PROVE Read
  <2>1. CASE Commit(r)
    <3>1. task'[a] = [task[a] EXCEPT !.met = @ \/ (handler[r].saves /\ task[a].pc # "out")]
      BY <2>1 DEF Commit
    <3> QED
      BY <1>0, <3>1 DEF Read, Task
  <2> QED
    BY <1>2, <1>c, <2>1 DEF Handle, Judge, Write, Remove, Abort
<1>3. CASE Deliver
  <2>1. CASE AddMovie \/ SaveSent \/ SaveTarget
    BY <1>0, <1>d, <2>1 DEF AddMovie, SaveSent, SaveTarget, Read, Task
  <2>2. CASE \E r \in Requests : Begin(r) \/ Admit(r)
    BY <1>a, <1>c, <1>d, <2>2 DEF Begin, Admit
  <2> QED
    BY <1>3, <1>b, <1>d, <2>1, <2>2
    DEF Deliver, CompleteAvailable, CommitSent, DispatchFailed, WorkerDies, Finish
<1>4. CASE ScanRadarr
  <2>1. CASE CommitDeclined
    <3>1. task'[a] = [task[a] EXCEPT !.met = @ \/ (scan.saves /\ task[a].pc # "out")]
      BY <2>1 DEF CommitDeclined
    <3> QED
      BY <1>0, <3>1 DEF Read, Task
  <2>2. CASE ~CommitDeclined
    <3>1. \/ UNCHANGED task
          \/ Enter("scanner", None)
          \/ Leave("scanner")
      BY <1>4, <2>2 DEF ScanRadarr, StartScan, NextPhase, EntryRead, EntrySave, ResetWrite,
        Confirm, CleanRead, CleanWrite, CleanEnd, ScanFails, ListServer, ResetRead, CleanupFind,
        Decline
    <3> QED
      BY <1>a, <1>b, <1>c, <1>d, <3>1
  <2> QED
    BY <2>1, <2>2
<1>5. CASE Reconcile
  <2>1. CASE task' = [task EXCEPT !["reconciler"].pc = "second"]
    BY <1>0, <1>d, <2>1 DEF Read, Task
  <2>2. \/ UNCHANGED task
        \/ Enter("reconciler", None)
        \/ Leave("reconciler")
        \/ task' = [task EXCEPT !["reconciler"].pc = "second"]
    BY <1>5 DEF Reconcile, Probe, ProbeAgain, CheckOutbox, ApplyDeletion
  <2> QED
    BY <1>a, <1>b, <1>c, <1>d, <2>1, <2>2
<1>6. ASSUME NEW q \in Qualities, LibraryChanges(q) PROVE UNCHANGED task
  BY <1>6 DEF LibraryChanges
<1> QED
  BY <1>1, <1>2, <1>3, <1>4, <1>5, <1>6, <1>c DEF Next, vars

LEMMA StatusesHad ==
  ASSUME NEW film \in Film, NEW kept, Had(film, kept), NEW r \in Requests, NEW q \in Qualities,
         NEW req
  PROVE  /\ Had(Accepted(film, q), kept) /\ Had(Requested(film, q), kept)
         /\ Had(Rejected(r, film, req), kept)
         /\ Had([film EXCEPT !.status[q] = "unknown"], kept)
         /\ Had([film EXCEPT !.linked = @ \cup {q}], kept)
         /\ Had(Unknown, kept)
BY Kinds DEF Had, Accepted, Requested, Rejected, Film, Unknown

LEMMA EmptiedHad ==
  ASSUME TypeInv, TablesHad, NEW r \in Requests
  PROVE  Had(Emptied(r), ever)
<1>1. media.film \in Film
  BY DEF TypeInv, TypeOK, Media
<1>2. \A q \in Qualities : \A s \in Of(q) : request[s] = "completed" => q \in ever
  BY DEF TablesHad, CompletedDelivered, Of
<1> QED
  BY <1>1, <1>2 DEF TablesHad, Had, Emptied, Film

LEMMA HandlersKeep ==
  ASSUME DeliveredInv, [Next]_vars
  PROVE  HandlersHad'
<1>0. /\ TypeInv /\ HandlersHad /\ TablesHad /\ handler \in [Requests -> Handler]
      /\ media.film \in Film /\ Had(media.film, ever)
  BY DEF DeliveredInv, TypeInv, TypeOK, Media, TablesHad
<1>1. \A r \in Requests : Had(handler'[r].seen, ever)
  <2>a. ASSUME NEW r \in Requests, Rest(r)
        PROVE  \A s \in Requests : Had(handler'[s].seen, ever)
    BY <1>0, <2>a DEF Rest, Resting, HandlersHad, Had, Unknown
  <2>b. ASSUME NEW r \in Requests, NEW op, NEW film, NEW saves, Open(r, op, film, saves),
               Had(film, ever)
        PROVE  \A s \in Requests : Had(handler'[s].seen, ever)
    BY <1>0, <2>b DEF Open, HandlersHad
  <2>c. ASSUME NEW r \in Requests, NEW op,
               handler' = [handler EXCEPT ![r] = [Resting EXCEPT !.op = op, !.pc = "read"]]
        PROVE  \A s \in Requests : Had(handler'[s].seen, ever)
    BY <1>0, <2>c DEF Resting, HandlersHad, Had, Unknown
  <2>d. ASSUME UNCHANGED handler
        PROVE  \A s \in Requests : Had(handler'[s].seen, ever)
    BY <1>0, <2>d DEF HandlersHad
  <2>1. ASSUME NEW r \in Requests, Handle(r)
        PROVE  \A s \in Requests : Had(handler'[s].seen, ever)
    <3>1. CASE Write(r)
      <4>1. /\ Had(Accepted(media.film, QualityOf[r]), ever)
            /\ Had(Rejected(r, media.film, request), ever)
        BY <1>0, Kinds, StatusesHad
      <4> QED
        BY <2>a, <2>b, <3>1, <4>1 DEF Write
    <3>2. CASE Remove(r)
      BY <1>0, <2>b, <3>2, EmptiedHad DEF Remove
    <3> QED
      BY <2>1, <2>a, <2>c, <3>1, <3>2 DEF Handle, Judge, Commit, Conclude, Abort
  <2>2. CASE Deliver
    <3> DEFINE w == task["worker"].request
               accepted == Accepted(media.film, QualityOf[w])
    <3>1. CASE SaveTarget
      <4>1. w \in Requests
        BY <1>0, <3>1 DEF SaveTarget, Inside, TypeInv, Assigned
      <4>2. Had(accepted, ever)
        BY <1>0, <4>1, Kinds, StatusesHad
      <4>3. Open(w, "deliver", accepted, accepted # media.film)
        BY <3>1 DEF SaveTarget
      <4> HIDE DEF accepted
      <4> QED
        BY <2>b, <4>1, <4>2, <4>3
    <3>2. CASE ~SaveTarget
      <4>1. UNCHANGED handler \/ \E r \in Requests :
              Rest(r) \/ handler' = [handler EXCEPT ![r] =
                                       [Resting EXCEPT !.op = "deliver", !.pc = "read"]]
        BY <1>0, <2>2, <3>2 DEF Deliver, Begin, Admit, CompleteAvailable, AddMovie, SaveSent,
          CommitSent, Conclude, DispatchFailed, WorkerDies, Finish, Inside, TypeInv, Assigned,
          Actors, TypeOK, Task
      <4> QED
        BY <2>a, <2>c, <2>d, <4>1
    <3> QED
      BY <3>1, <3>2
  <2>3. CASE Create \/ ScanRadarr \/ Reconcile
    <3>1. UNCHANGED handler
      BY <2>3 DEF Create, CreateRead, PromoteRead, CreateSave, PromoteSave,
        ScanRadarr, StartScan, NextPhase, EntryRead, EntrySave, ResetWrite, Confirm, CleanRead,
        CleanWrite, CommitDeclined, CleanEnd, ScanFails, ListServer, ResetRead, CleanupFind, Decline,
        Reconcile, Probe, ProbeAgain, CheckOutbox, ApplyDeletion
    <3> QED
      BY <2>d, <3>1
  <2>4. ASSUME (\E q \in Qualities : LibraryChanges(q)) \/ UNCHANGED vars
        PROVE  UNCHANGED handler
    BY <2>4 DEF LibraryChanges, vars
  <2> QED
    BY <2>1, <2>2, <2>3, <2>4, <2>d DEF Next
<1> QED
  BY <1>1, EverGrows DEF HandlersHad, Had

LEMMA LibraryKeeps ==
  ASSUME DeliveredInv, [Next]_vars
  PROVE  LibraryHad'
<1>0. /\ library \in [Qualities -> Holdings] /\ scan \in Scan /\ LibraryHad
      /\ ever \subseteq ever'
  BY EverGrows DEF DeliveredInv, TypeInv, TypeOK
<1>1. ASSUME UNCHANGED <<library, scan.list>> PROVE LibraryHad'
  BY <1>0, <1>1 DEF LibraryHad
<1>2. CASE Create
  BY <1>1, <1>2 DEF Create, CreateRead, PromoteRead, CreateSave, PromoteSave
<1>3. ASSUME NEW r \in Requests, Handle(r) PROVE LibraryHad'
  BY <1>1, <1>3 DEF Handle, Judge, Write, Remove, Commit, Abort
<1>4. CASE Deliver
  <2>1. CASE AddMovie
    BY <1>0, <2>1 DEF AddMovie, LibraryHad
  <2> QED
    BY <1>1, <1>4, <2>1 DEF Deliver, Begin, Admit, CompleteAvailable, SaveSent, SaveTarget,
      CommitSent, DispatchFailed, WorkerDies, Finish
<1>5. CASE ScanRadarr
  <2>1. UNCHANGED library
    BY <1>5 DEF ScanRadarr, StartScan, NextPhase, EntryRead, EntrySave, ResetWrite, Confirm,
      CleanRead, CleanWrite, CommitDeclined, CleanEnd, ScanFails, ListServer, ResetRead, CleanupFind,
      Decline
  <2>2. \A q \in Qualities : scan'.list[q] \in {scan.list[q], library[q], "absent"}
    <3>1. ASSUME NEW q \in Qualities, ListServer(q)
          PROVE  scan'.list = [scan.list EXCEPT ![q] = library[q]]
      BY <1>0, <3>1 DEF ListServer, Scan
    <3>2. ASSUME StartScan \/ NextPhase \/ ScanFails
          PROVE  scan'.list \in {scan.list, NoScan.list}
      BY <1>0, <3>2 DEF StartScan, NextPhase, ScanFails, NoScan, Scan
    <3>3. ASSUME NEW r \in Requests, Decline(r)
          PROVE  scan'.list \in {scan.list, NoScan.list}
      BY <1>0, <3>3 DEF Decline, Scan
    <3>4. CASE \/ EntryRead \/ EntrySave \/ ResetWrite \/ Confirm \/ CleanRead \/ CleanWrite
               \/ CommitDeclined \/ CleanEnd
               \/ \E q \in Qualities : ResetRead(q) \/ CleanupFind(q)
      <4>1. scan'.list = scan.list
        BY <1>0, <3>4 DEF EntryRead, EntrySave, ResetWrite, Confirm, CleanRead, CleanWrite,
          CommitDeclined, CleanEnd, ResetRead, CleanupFind, Skipped, Scan
      <4> QED
        BY <4>1
    <3> QED
      BY <1>0, <1>5, <3>1, <3>2, <3>3, <3>4 DEF ScanRadarr, NoScan, Scan
  <2> QED
    BY <1>0, <2>1, <2>2 DEF LibraryHad
<1>6. CASE Reconcile
  BY <1>1, <1>6 DEF Reconcile, Probe, ProbeAgain, CheckOutbox, ApplyDeletion
<1>7. ASSUME NEW q \in Qualities, LibraryChanges(q) PROVE LibraryHad'
  BY <1>0, <1>7 DEF LibraryChanges, LibraryHad
<1> QED
  BY <1>1, <1>2, <1>3, <1>4, <1>5, <1>6, <1>7 DEF Next, vars

LEMMA ScanKeeps ==
  ASSUME DeliveredInv, [Next]_vars
  PROVE  ScanHad'
<1>0. /\ scan \in Scan /\ media.film \in Film /\ Had(media.film, ever) /\ ScanHad
      /\ ever \subseteq ever' /\ Had(Unknown, ever) /\ NoScan.seen = Unknown
  BY EverGrows DEF DeliveredInv, TypeInv, TypeOK, Media, TablesHad, Had, Unknown, NoScan
<1>1. Had(scan'.seen, ever)
  <2>1. ASSUME NEW r \in Requests, Decline(r)
        PROVE  Had(scan'.seen, ever)
    <3>1. Had(Rejected(r, media.film, Declined({r})), ever)
      BY <1>0, Kinds, StatusesHad
    <3>2. scan'.seen \in {Unknown, Rejected(r, media.film, Declined({r}))}
      BY <1>0, <2>1 DEF Decline, Scan
    <3> QED
      BY <1>0, <3>1, <3>2
  <2>2. CASE ScanRadarr /\ ~\E r \in Requests : Decline(r)
    <3>1. CASE StartScan \/ NextPhase \/ ScanFails \/ CommitDeclined
      <4>1. scan'.seen \in {scan.seen, Unknown}
        BY <1>0, <3>1 DEF StartScan, NextPhase, ScanFails, CommitDeclined, Scan, NoScan
      <4> QED
        BY <1>0, <4>1 DEF ScanHad
    <3>2. CASE \/ EntryRead \/ EntrySave \/ ResetWrite \/ Confirm \/ CleanRead \/ CleanWrite \/ CleanEnd
               \/ \E q \in Qualities : ListServer(q) \/ ResetRead(q) \/ CleanupFind(q)
      <4>1. ASSUME \E q \in Qualities : ListServer(q) \/ ResetRead(q) \/ CleanupFind(q)
            PROVE  scan'.seen = scan.seen
        BY <1>0, <4>1 DEF ListServer, ResetRead, CleanupFind, Scan
      <4>2. ASSUME EntryRead \/ EntrySave \/ ResetWrite
            PROVE  scan'.seen = scan.seen
        BY <1>0, <4>2 DEF EntryRead, EntrySave, ResetWrite, Scan
      <4>3. ASSUME Confirm \/ CleanRead \/ CleanWrite \/ CleanEnd
            PROVE  scan'.seen = scan.seen
        <5>1. Skipped.seen = scan.seen
          BY <1>0 DEF Skipped, Scan
        <5>2. scan' = Skipped \/ \E pc : scan' = [scan EXCEPT !.pc = pc] \/ UNCHANGED scan
          BY <4>3 DEF Confirm, CleanRead, CleanWrite, CleanEnd
        <5> QED
          BY <1>0, <5>1, <5>2 DEF Scan
      <4>4. scan'.seen = scan.seen
        BY <3>2, <4>1, <4>2, <4>3
      <4> QED
        BY <1>0, <4>4 DEF ScanHad
    <3> QED
      BY <2>2, <3>1, <3>2 DEF ScanRadarr
  <2>3. CASE ~ScanRadarr
    <3>1. UNCHANGED scan
      BY <2>3 DEF Next, vars, Create, CreateRead, PromoteRead, CreateSave, PromoteSave, Handle,
        Judge, Write, Remove, Commit, Abort, Deliver, Begin, Admit, CompleteAvailable, AddMovie,
        SaveSent, SaveTarget, CommitSent, DispatchFailed, WorkerDies, Finish, Reconcile, Probe,
        ProbeAgain, CheckOutbox, ApplyDeletion, LibraryChanges
    <3> QED
      BY <1>0, <3>1 DEF ScanHad
  <2> QED
    BY <2>1, <2>2, <2>3
<1> QED
  BY <1>0, <1>1 DEF ScanHad, Had

(* A save of what has been read so completes only what has been delivered.  *)
LEMMA SavedHad ==
  ASSUME NEW film, NEW req \in [Requests -> RequestStatuses], NEW own, NEW rows,
         \/ Save(film, req, own, rows) /\ Had(film, ever)
         \/ SaveRequests(req, own, rows) /\ Had(media.film, ever),
         \A r \in Requests : req[r] = "completed" => QualityOf[r] \in ever,
         UNCHANGED ever
  PROVE  TablesHad'
<1>1. CASE Save(film, req, own, rows) /\ Had(film, ever)
  <2>1. media'.film = film
    BY <1>1 DEF Save
  <2>2. \A r \in Requests : request'[r] = "completed" => QualityOf[r] \in ever
    BY <1>1, Kinds DEF Save, Cascade, CompletedBy, PromotedBy, Had
  <2> QED
    BY <1>1, <2>1, <2>2 DEF TablesHad, CompletedDelivered, Had
<1>2. CASE SaveRequests(req, own, rows) /\ Had(media.film, ever)
  BY <1>2 DEF SaveRequests, TablesHad, CompletedDelivered, Had
<1> QED
  BY <1>1, <1>2

LEMMA TablesKeep ==
  ASSUME DeliveredInv, [Next]_vars
  PROVE  TablesHad'
<1>0. /\ TypeInv /\ TypeOK /\ Assigned /\ TablesHad /\ LibraryHad /\ TasksHad /\ HandlersHad
      /\ request \in [Requests -> RequestStatuses] /\ media.film \in Film
      /\ Had(media.film, ever) /\ {"creator", "worker", "scanner", "reconciler"} = Actors
      /\ \A a \in Actors : task[a].seen \in Film /\ Had(task[a].seen, ever)
      /\ \A r \in Requests : handler[r] \in Handler /\ Had(handler[r].seen, ever)
  BY TaskTypes, HandlerTypes DEF DeliveredInv, TypeInv, TypeOK, Media, TablesHad, TasksHad,
    HandlersHad, Actors
<1>a. \A r \in Requests : request[r] = "completed" => QualityOf[r] \in ever
  BY <1>0 DEF TablesHad, CompletedDelivered
<1>b. ASSUME UNCHANGED <<media, request>> PROVE TablesHad'
  BY <1>b, <1>0, EverGrows DEF TablesHad, CompletedDelivered, Had
<1>1. CASE Create
  <2> DEFINE r == task["creator"].request
             seen == task["creator"].seen
  <2>1. CASE CreateSave
    <3>1. r \in Requests /\ QualityOf[r] \in Qualities
      BY <1>0, <2>1, Kinds DEF CreateSave, Inside, Assigned
    <3>2. Had(Requested(seen, QualityOf[r]), ever) /\ Requested(seen, QualityOf[r]) \in Film
      BY <1>0, <3>1, StatusesHad, StatusTypes DEF Holdings
    <3>3. Had(Accepted(Requested(seen, QualityOf[r]), QualityOf[r]), ever)
      BY <3>1, <3>2, StatusesHad
    <3>4. ASSUME NEW status \in {"pending", "approved"}
          PROVE  /\ [request EXCEPT ![r] = status] \in [Requests -> RequestStatuses]
                 /\ \A s \in Requests : [request EXCEPT ![r] = status][s] = "completed" =>
                      QualityOf[s] \in ever
      BY <1>0, <1>a DEF RequestStatuses
    <3>5. PICK status, film, rows :
            status \in {"pending", "approved"} /\ Had(film, ever) /\ Save(film, [request EXCEPT ![r] = status], {}, rows)
      <4>1. Accepted(Requested(seen, QualityOf[r]), QualityOf[r]) \in Film
        BY <3>1, <3>2, StatusTypes DEF Holdings
      <4> QED
        BY <2>1, <3>2, <3>3, <4>1 DEF CreateSave
    <3>6. UNCHANGED ever
      BY <2>1 DEF CreateSave, ghosts
    <3> QED
      BY <3>4, <3>5, <3>6, SavedHad
  <2>2. CASE PromoteSave
    <3>1. r \in Requests /\ QualityOf[r] \in Qualities
      BY <1>0, <2>2, Kinds DEF PromoteSave, Inside, Assigned
    <3>2. Had(Accepted(seen, QualityOf[r]), ever)
      BY <1>0, <3>1, StatusesHad
    <3>3. /\ Approving(r) \in [Requests -> RequestStatuses]
          /\ \A s \in Requests : Approving(r)[s] = "completed" => QualityOf[s] \in ever
      BY <1>0, <1>a DEF Approving, RequestStatuses
    <3> QED
      BY <1>0, <2>2, <3>2, <3>3, SavedHad DEF PromoteSave
  <2> QED
    BY <1>1, <1>b, <2>1, <2>2 DEF Create, CreateRead, PromoteRead, tables
<1>2. ASSUME NEW r \in Requests, Handle(r) PROVE TablesHad'
  <2>1. CASE Commit(r)
    <3> DEFINE req == [request EXCEPT ![r] = Outcome(handler[r].op)]
    <3>1. Outcome(handler[r].op) \in {"approved", "declined", "removed"}
      BY <1>0, <2>1 DEF Commit, Conclude, Assigned, Outcome
    <3>2. /\ req \in [Requests -> RequestStatuses]
          /\ \A s \in Requests : req[s] = "completed" => QualityOf[s] \in ever
      BY <1>0, <1>a, <3>1 DEF RequestStatuses
    <3>3. \E rows : Save(handler[r].seen, req, {r}, rows) \/ SaveRequests(req, {r}, rows)
      BY <2>1 DEF Commit, Conclude
    <3>4. UNCHANGED ever
      BY <2>1 DEF Commit
    <3> HIDE DEF req
    <3> QED
      BY <1>0, <3>2, <3>3, <3>4, SavedHad
  <2> QED
    BY <1>2, <1>b, <2>1 DEF Handle, Judge, Write, Remove, Abort, tables
<1>3. CASE Deliver
  <2> DEFINE w == task["worker"].request
  <2>1. ASSUME NEW status \in {"completed", "failed"}, Finish(status),
               status = "completed" => w \in Requests /\ QualityOf[w] \in ever
        PROVE  TablesHad'
    <3> DEFINE req == [request EXCEPT ![w] = status]
    <3>1. /\ req \in [Requests -> RequestStatuses]
          /\ \A s \in Requests : req[s] = "completed" => QualityOf[s] \in ever
      BY <1>0, <1>a, <2>1 DEF RequestStatuses
    <3>2. \E own : SaveRequests(req, own, queued \ {w}) /\ UNCHANGED ever
      BY <2>1 DEF Finish, ghosts
    <3> HIDE DEF req
    <3> QED
      BY <1>0, <3>1, <3>2, SavedHad
  <2>2. CASE CompleteAvailable
    <3>1. w \in Requests /\ QualityOf[w] \in Qualities
      BY <1>0, <2>2, Kinds DEF CompleteAvailable, Inside, Assigned
    <3>2. QualityOf[w] \in ever
      BY <1>0, <2>2, <3>1 DEF CompleteAvailable, Had
    <3> QED
      BY <2>1, <2>2, <3>1, <3>2 DEF CompleteAvailable
  <2>3. CASE SaveSent
    <3>1. w \in Requests /\ QualityOf[w] \in Qualities
      BY <1>0, <2>3, Kinds DEF SaveSent, Inside, Assigned
    <3>2. Had([task["worker"].seen EXCEPT !.linked = @ \cup {QualityOf[w]}], ever)
      BY <1>0, <3>1, StatusesHad
    <3> QED
      BY <1>0, <1>a, <2>3, <3>2, SavedHad DEF SaveSent, ghosts
  <2>4. CASE CommitSent
    <3> DEFINE req == [request EXCEPT ![w] = Outcome(handler[w].op)]
    <3>1. w \in Requests /\ Outcome(handler[w].op) = "approved"
      BY <1>0, <2>4 DEF CommitSent, Inside, Assigned, Outcome
    <3>2. /\ req \in [Requests -> RequestStatuses]
          /\ \A s \in Requests : req[s] = "completed" => QualityOf[s] \in ever
      BY <1>0, <1>a, <3>1 DEF RequestStatuses
    <3>3. \E rows : Save(handler[w].seen, req, {w}, rows) \/ SaveRequests(req, {w}, rows)
      BY <2>4 DEF CommitSent, Conclude
    <3>4. UNCHANGED ever
      BY <2>4 DEF CommitSent
    <3> HIDE DEF req
    <3> QED
      BY <1>0, <3>1, <3>2, <3>3, <3>4, SavedHad
  <2> QED
    BY <1>3, <1>b, <2>1, <2>2, <2>3, <2>4
    DEF Deliver, Begin, Admit, AddMovie, SaveTarget, DispatchFailed, WorkerDies, tables
<1>4. CASE ScanRadarr
  <2> DEFINE seen == task["scanner"].seen
             q == scan.one
  <2>a. ASSUME NEW gone \in SUBSET Requests
        PROVE  /\ Declined(gone) \in [Requests -> RequestStatuses]
               /\ \A s \in Requests : Declined(gone)[s] = "completed" => QualityOf[s] \in ever
    BY <1>0, <1>a DEF Declined, RequestStatuses
  <2>b. scan \in Scan
    BY <1>0 DEF TypeOK
  <2>1. CASE EntrySave
    <3> DEFINE film == [seen EXCEPT !.status[q] = EntryStatus(scan.list[q], @),
                                    !.linked = @ \cup {q}]
    <3>1. q \in Qualities
      BY <1>0, <2>1 DEF EntrySave, Inside, Assigned
    <3>2. Had(film, ever)
      BY <1>0, <3>1 DEF Had, EntryStatus, Film, LibraryHad
    <3>3. UNCHANGED tables \/ Save(film, request, {}, queued)
      BY <2>1 DEF EntrySave
    <3>4. UNCHANGED ever
      BY <2>1 DEF EntrySave, ghosts
    <3> HIDE DEF film
    <3> QED
      BY <1>0, <1>a, <1>b, <3>2, <3>3, <3>4, SavedHad DEF tables
  <2>2. CASE ResetWrite
    <3> DEFINE reset == IF seen.status[q] = "processing"
                        THEN [seen EXCEPT !.status[q] = "unknown"] ELSE media.film
               film == IF \E r \in scan.orphans : MayReject(r, reset, Declined(scan.orphans))
                       THEN [reset EXCEPT !.status[q] = "unknown"] ELSE reset
    <3>1. q \in Qualities
      BY <1>0, <2>2 DEF ResetWrite, Inside, Assigned
    <3>2. reset \in Film /\ Had(reset, ever)
      BY <1>0, <3>1 DEF Had, Film, MediaStatuses
    <3>3. Had(film, ever)
      BY <3>1, <3>2 DEF Had, Film
    <3>4. Save(film, Declined(scan.orphans), {}, queued)
      BY <2>2 DEF ResetWrite
    <3>5. scan.orphans \in SUBSET Requests /\ UNCHANGED ever
      BY <2>2, <2>b DEF ResetWrite, ghosts, Scan
    <3> HIDE DEF film
    <3> QED
      BY <2>a, <3>3, <3>4, <3>5, SavedHad
  <2>3. CASE CleanWrite
    <3>1. q \in Qualities
      BY <1>0, <2>3 DEF CleanWrite, Inside, Assigned
    <3>2. Had([seen EXCEPT !.status[q] = "unknown"], ever)
      BY <1>0, <3>1 DEF Had, Film
    <3> QED
      BY <1>0, <1>a, <2>3, <3>2, SavedHad DEF CleanWrite, ghosts
  <2>4. CASE CommitDeclined
    <3>1. {scan.declined} \in SUBSET Requests /\ Had(scan.seen, ever)
      BY <2>4, <2>b DEF CommitDeclined, Scan, DeliveredInv, ScanHad
    <3>2. \/ Save(scan.seen, Declined({scan.declined}), {scan.declined}, queued)
          \/ SaveRequests(Declined({scan.declined}), {scan.declined}, queued)
      BY <2>4 DEF CommitDeclined
    <3>3. UNCHANGED ever
      BY <2>4 DEF CommitDeclined, ghosts
    <3> QED
      BY <1>0, <2>a, <3>1, <3>2, <3>3, SavedHad
  <2> QED
    BY <1>4, <1>b, <2>1, <2>2, <2>3, <2>4 DEF ScanRadarr, StartScan, NextPhase, EntryRead, Confirm,
      CleanRead, CleanEnd, ScanFails, ListServer, ResetRead, CleanupFind, Decline, tables
<1>5. CASE Reconcile
  <2>1. CASE ApplyDeletion
    <3>1. \A r \in Requests : request'[r] = "completed" => request[r] = "completed"
      BY <2>1 DEF ApplyDeletion
    <3>2. ever' = ever \cup Known /\ Had(Unlinked, ever')
      BY <1>0, <2>1 DEF ApplyDeletion, Unlinked, Had
    <3>3. media'.film \in {Unlinked, Unknown}
      BY <1>0, <2>1 DEF ApplyDeletion, NoMedia, TypeOK, Media
    <3> QED
      BY <1>a, <3>1, <3>2, <3>3 DEF TablesHad, CompletedDelivered, Had, Unknown
  <2> QED
    BY <1>5, <1>b, <2>1 DEF Reconcile, Probe, ProbeAgain, CheckOutbox
<1>6. ASSUME NEW q \in Qualities, LibraryChanges(q) PROVE TablesHad'
  BY <1>6, <1>b DEF LibraryChanges, tables
<1> QED
  BY <1>1, <1>2, <1>3, <1>4, <1>5, <1>6, <1>b DEF Next, vars

(* A completed request has been delivered, or recorded as deleted:          *)
(* RequestLifecycle's CompletedDelivered.                                   *)
THEOREM CompletedOnlyDelivered == Spec => []CompletedDelivered
<1>1. Init => DeliveredInv
  BY TypeInit DEF Init, DeliveredInv, TablesHad, CompletedDelivered, LibraryHad, TasksHad,
    HandlersHad, ScanHad, Had, NoMedia, Unknown, Out, Resting, NoScan
<1>2. DeliveredInv /\ [Next]_vars => DeliveredInv'
  <2> SUFFICES ASSUME DeliveredInv, [Next]_vars PROVE DeliveredInv'
    OBVIOUS
  <2>1. TypeInv'
    BY NextTypes DEF DeliveredInv
  <2>2. TasksHad'
    BY TasksRead, EverGrows DEF DeliveredInv, TasksHad, TablesHad, Had, Unknown
  <2> QED
    BY <2>1, <2>2, TablesKeep, LibraryKeeps, HandlersKeep, ScanKeeps DEF DeliveredInv
<1>3. DeliveredInv => CompletedDelivered
  BY DEF DeliveredInv, TablesHad
<1> QED
  BY <1>1, <1>2, <1>3, PTL DEF Spec

-----------------------------------------------------------------------------
(* Availability is kept.  One actor is inside the media's key; unless the   *)
(* save of a transaction without the key has met it, what is available it   *)
(* has seen available, and what it is about to reset it has seen            *)
(* processing.  A worker that has saved the media holds another copy, of    *)
(* its transaction that saves the request.                                  *)

Alone == \A a, b \in Actors : task[a].pc # "out" /\ task[b].pc # "out" => a = b

AvailableSeen ==
  \A a \in Actors, q \in Qualities :
    task[a].pc \notin {"out", "third"} /\ ~task[a].met /\ media.film.status[q] = "available" =>
      task[a].seen.status[q] = "available"

Sends(r) == handler[r].pc = "open" /\ handler[r].op = "deliver"

SentSeen ==
  \A r \in Requests : Sends(r) =>
    /\ task["worker"].pc = "third" /\ task["worker"].request = r
    /\ \/ task["worker"].met
       \/ \A q \in Qualities :
            media.film.status[q] = "available" => handler[r].seen.status[q] = "available"

ScannerSees ==
  /\ \A r \in scan.orphans : QualityOf[r] = scan.one
  /\ scan.pc = "servers" => scan.orphans = {}
  /\ scan.pc = "clean" /\ task["scanner"].pc # "out" =>
       task["scanner"].seen.status[scan.one] = "processing"

KeptInv == TypeInv /\ Alone /\ AvailableSeen /\ SentSeen /\ ScannerSees

(* The ways a step may treat the tasks, with what it does to the media.     *)
NoneMore ==
  \A q \in Qualities : media'.film.status[q] = "available" => media.film.status[q] = "available"

Stays ==
  /\ NoneMore
  /\ \A a \in Actors : /\ task'[a].pc = task[a].pc /\ task'[a].seen = task[a].seen
                       /\ task[a].met => task'[a].met

Entered(a) == UNCHANGED media /\ \E r : Enter(a, r)

Left(a) ==
  /\ \A b \in Actors \ {a} : task'[b] = task[b]
  /\ \/ task[a].pc # "out" /\ task'[a].pc \in {"out", "third"}
     \/ task'[a].pc = "out" /\ NoneMore

Advanced(a) ==
  /\ UNCHANGED media /\ task[a].pc \notin {"out", "third"}
  /\ \A b \in Actors \ {a} : task'[b] = task[b]
  /\ \/ task'[a].seen = task[a].seen /\ task'[a].met = task[a].met
     \/ task'[a].seen = media.film

Met == \A a \in Actors : /\ task'[a].pc = task[a].pc
                         /\ task'[a].pc # "out" => task'[a].met

Treated ==
  Stays \/ Met \/ \E a \in Actors : Entered(a) \/ Left(a) \/ Advanced(a)

LEMMA StepsTreat ==
  ASSUME TypeInv, [Next]_vars
  PROVE  Treated
<1>0. /\ task \in [Actors -> Task] /\ media.film \in Film /\ Assigned
      /\ {"creator", "worker", "scanner", "reconciler"} = Actors
  BY DEF TypeInv, TypeOK, Media, Actors
<1>a. ASSUME UNCHANGED <<task, media>> PROVE Treated
  BY <1>a DEF Treated, Stays, NoneMore
<1>b. ASSUME NEW a \in Actors, Leave(a), task[a].pc # "out" \/ NoneMore PROVE Treated
  BY <1>0, <1>b DEF Leave, Out, Treated, Left
<1>c. ASSUME UNCHANGED media PROVE NoneMore
  BY <1>c DEF NoneMore
<1>1. CASE Create
  BY <1>0, <1>b, <1>1 DEF Create, CreateRead, PromoteRead, CreateSave, PromoteSave, tables, Inside,
    Treated, Entered
<1>2. ASSUME NEW r \in Requests, Handle(r) PROVE Treated
  <2>1. CASE Commit(r)
    <3>1. \A a \in Actors :
            /\ task'[a].pc = task[a].pc /\ task'[a].seen = task[a].seen
            /\ task'[a].met <=> task[a].met \/ (handler[r].saves /\ task[a].pc # "out")
      BY <1>0, <2>1 DEF Commit, Task
    <3>2. CASE handler[r].saves
      BY <3>1, <3>2 DEF Treated, Met
    <3>3. CASE ~handler[r].saves
      BY <2>1, <3>1, <3>3 DEF Commit, Conclude, SaveRequests, Treated, Stays, NoneMore
    <3> QED
      BY <3>2, <3>3
  <2> QED
    BY <1>2, <1>a, <2>1 DEF Handle, Judge, Write, Remove, Abort, tables
<1>3. CASE Deliver
  <2>1. CASE AddMovie
    <3>1. task["worker"].pc = "first" /\ UNCHANGED media /\ "worker" \in Actors
      BY <1>0, <2>1 DEF AddMovie, Inside, tables
    <3>2. /\ task'["worker"].seen = media.film
          /\ \A b \in Actors \ {"worker"} : task'[b] = task[b]
      BY <1>0, <2>1 DEF AddMovie, Task
    <3> QED
      BY <3>1, <3>2 DEF Treated, Advanced
  <2>2. CASE \E r \in Requests : Begin(r) \/ Admit(r)
    BY <1>0, <1>a, <2>2 DEF Begin, Admit, tables, Treated, Entered
  <2>3. CASE SaveSent \/ SaveTarget
    <3>1. /\ \A b \in Actors \ {"worker"} : task'[b] = task[b]
          /\ task["worker"].pc # "out" /\ task'["worker"].pc = "third"
      BY <1>0, <2>3 DEF SaveSent, SaveTarget, Inside, Task
    <3> QED
      BY <1>0, <3>1 DEF Treated, Left
  <2> QED
    BY <1>0, <1>b, <1>3, <2>1, <2>2, <2>3
    DEF Deliver, CompleteAvailable, CommitSent, DispatchFailed, WorkerDies, Finish, Inside
<1>4. CASE ScanRadarr
  <2>1. CASE EntryRead \/ CleanRead \/ \E q \in Qualities : ResetRead(q)
    BY <1>0, <1>a, <2>1 DEF EntryRead, CleanRead, ResetRead, tables, Treated, Entered
  <2>2. CASE EntrySave \/ ResetWrite \/ CleanWrite
    BY <1>0, <1>b, <2>2 DEF EntrySave, ResetWrite, CleanWrite, Inside
  <2>3. CASE ScanFails
    BY <1>0, <1>b, <1>c, <2>3 DEF ScanFails, tables
  <2>4. CASE CommitDeclined
    <3>1. \A a \in Actors :
            /\ task'[a].pc = task[a].pc /\ task'[a].seen = task[a].seen
            /\ task'[a].met <=> task[a].met \/ (scan.saves /\ task[a].pc # "out")
      BY <1>0, <2>4 DEF CommitDeclined, Task
    <3>2. CASE scan.saves
      BY <3>1, <3>2 DEF Treated, Met
    <3>3. CASE ~scan.saves
      BY <1>c, <2>4, <3>1, <3>3 DEF CommitDeclined, SaveRequests, Treated, Stays
    <3> QED
      BY <3>2, <3>3
  <2> QED
    BY <1>4, <1>a, <2>1, <2>2, <2>3, <2>4 DEF ScanRadarr, StartScan, NextPhase, Confirm, CleanEnd,
      ListServer, CleanupFind, Decline, tables
<1>5. CASE Reconcile
  <2>1. CASE CheckOutbox
    <3>1. task["reconciler"].pc = "first" /\ UNCHANGED media
      BY <2>1 DEF CheckOutbox, Inside
    <3>2. CASE Leave("reconciler")
      BY <1>0, <1>b, <3>1, <3>2
    <3>3. CASE task' = [task EXCEPT !["reconciler"].pc = "second"]
      <4>1. /\ task'["reconciler"].seen = task["reconciler"].seen
            /\ task'["reconciler"].met = task["reconciler"].met
            /\ \A b \in Actors \ {"reconciler"} : task'[b] = task[b]
        BY <1>0, <3>3 DEF Task
      <4> QED
        BY <1>0, <3>1, <4>1 DEF Treated, Advanced
    <3> QED
      BY <2>1, <3>2, <3>3 DEF CheckOutbox
  <2> QED
    BY <1>0, <1>5, <1>a, <1>b, <2>1 DEF Reconcile, Probe, ProbeAgain, ApplyDeletion, Inside, Treated,
      Entered
<1>6. ASSUME (\E q \in Qualities : LibraryChanges(q)) \/ UNCHANGED vars
      PROVE  UNCHANGED <<task, media>>
  BY <1>6 DEF LibraryChanges, vars, tables
<1> QED
  BY <1>1, <1>2, <1>3, <1>4, <1>5, <1>6, <1>a DEF Next

LEMMA TreatedKeeps ==
  ASSUME TypeInv, Alone, AvailableSeen, Treated
  PROVE  Alone' /\ AvailableSeen'
<1>0. task \in [Actors -> Task]
  BY DEF TypeInv, TypeOK
<1>1. CASE Stays
  <2>1. Alone'
    BY <1>1 DEF Stays, Alone
  <2>2. ASSUME NEW a \in Actors, NEW q \in Qualities,
               task'[a].pc \notin {"out", "third"}, ~task'[a].met, media'.film.status[q] = "available"
        PROVE  task'[a].seen.status[q] = "available"
    <3>1. task[a].pc \notin {"out", "third"} /\ ~task[a].met /\ task'[a].seen = task[a].seen
      BY <1>1, <2>2 DEF Stays
    <3>2. media.film.status[q] = "available"
      BY <1>1, <2>2 DEF Stays, NoneMore
    <3> QED
      BY <3>1, <3>2 DEF AvailableSeen
  <2> QED
    BY <2>1, <2>2 DEF AvailableSeen
<1>2. CASE Met
  BY <1>2 DEF Met, Alone, AvailableSeen
<1>3. ASSUME NEW a \in Actors, Entered(a) PROVE Alone' /\ AvailableSeen'
  <2>1. /\ \A b \in Actors \ {a} : task'[b].pc = "out"
        /\ task'[a].seen = media.film /\ UNCHANGED media
    BY <1>0, <1>3 DEF Entered, Enter, MayEnter, Out
  <2> QED
    BY <2>1 DEF Alone, AvailableSeen
<1>4. ASSUME NEW a \in Actors, Left(a) PROVE Alone' /\ AvailableSeen'
  <2>1. CASE task[a].pc # "out" /\ task'[a].pc \in {"out", "third"}
    <3>1. \A b \in Actors \ {a} : task[b].pc = "out" /\ task'[b] = task[b]
      BY <1>4, <2>1 DEF Left, Alone
    <3> QED
      BY <2>1, <3>1 DEF Alone, AvailableSeen
  <2>2. CASE task'[a].pc = "out" /\ NoneMore
    <3>1. \A b \in Actors \ {a} : task'[b] = task[b]
      BY <1>4 DEF Left
    <3> QED
      BY <2>2, <3>1 DEF NoneMore, Alone, AvailableSeen
  <2> QED
    BY <1>4, <2>1, <2>2 DEF Left
<1>5. ASSUME NEW a \in Actors, Advanced(a) PROVE Alone' /\ AvailableSeen'
  BY <1>5 DEF Advanced, Alone, AvailableSeen
<1> QED
  BY <1>1, <1>2, <1>3, <1>4, <1>5 DEF Treated

LEMMA ScannerKeeps ==
  ASSUME KeptInv, [Next]_vars
  PROVE  ScannerSees'
<1>0. /\ task \in [Actors -> Task] /\ scan \in Scan /\ media.film \in Film
      /\ "scanner" \in Actors /\ Assigned /\ ScannerSees /\ Alone
      /\ \A r \in Requests : QualityOf[r] # None
  BY Kinds DEF KeptInv, TypeInv, TypeOK, Media, Actors
<1>1. ASSUME UNCHANGED scan, task'["scanner"].seen = task["scanner"].seen,
             task'["scanner"].pc # "out" => task["scanner"].pc # "out"
      PROVE  ScannerSees'
  BY <1>0, <1>1 DEF ScannerSees
<1>2. CASE Create
  BY <1>0, <1>1, <1>2 DEF Create, CreateRead, PromoteRead, CreateSave, PromoteSave, Enter, Leave
<1>3. ASSUME NEW r \in Requests, Handle(r) PROVE ScannerSees'
  <2>1. UNCHANGED scan /\ task'["scanner"].seen = task["scanner"].seen
        /\ task'["scanner"].pc = task["scanner"].pc
    <3>1. CASE Commit(r)
      <4>1. task'["scanner"] = [task["scanner"] EXCEPT
              !.met = @ \/ (handler[r].saves /\ task["scanner"].pc # "out")]
        BY <1>0, <3>1 DEF Commit
      <4> QED
        BY <1>0, <3>1, <4>1 DEF Commit, Task
    <3> QED
      BY <1>3, <3>1 DEF Handle, Judge, Write, Remove, Abort
  <2> QED
    BY <1>1, <2>1
<1>4. CASE Deliver
  BY <1>0, <1>1, <1>4 DEF Deliver, Begin, Admit, CompleteAvailable, AddMovie, SaveSent, SaveTarget,
    CommitSent, DispatchFailed, WorkerDies, Finish, Enter, Leave
<1>5. CASE Reconcile
  BY <1>0, <1>1, <1>5 DEF Reconcile, Probe, ProbeAgain, CheckOutbox, ApplyDeletion, Enter, Leave
<1>6. ASSUME (\E q \in Qualities : LibraryChanges(q)) \/ UNCHANGED vars
      PROVE  ScannerSees'
  BY <1>1, <1>6 DEF LibraryChanges, vars
<1>7. CASE ScanRadarr
  <2>a. NoScan.pc = "idle" /\ NoScan.orphans = {}
    BY DEF NoScan
  <2>b. scan.one = None => scan.orphans = {}
    BY <1>0 DEF ScannerSees, Scan
  <2>1. CASE StartScan \/ ScanFails \/ NextPhase
    BY <1>0, <2>1, <2>a, <2>b DEF StartScan, ScanFails, NextPhase, ScannerSees, Scan, NoScan
  <2>2. CASE EntryRead \/ EntrySave
    BY <1>0, <2>2 DEF EntryRead, EntrySave, ScannerSees, Scan, Inside
  <2>3. ASSUME NEW q \in Qualities, ListServer(q) PROVE ScannerSees'
    BY <1>0, <2>3, <2>b DEF ListServer, ScannerSees, Scan
  <2>4. ASSUME NEW q \in Qualities, ResetRead(q) PROVE ScannerSees'
    BY <1>0, <2>4, <2>b DEF ResetRead, ScannerSees, Scan, Approved, Of
  <2>5. ASSUME NEW q \in Qualities, CleanupFind(q) PROVE ScannerSees'
    BY <1>0, <2>5, <2>b DEF CleanupFind, ScannerSees, Scan, Approved, Of
  <2>6. CASE ResetWrite
    BY <1>0, <2>6 DEF ResetWrite, ScannerSees, Scan
  <2>7. CASE Confirm
    <3>1. task["scanner"].pc = "out" /\ UNCHANGED task
      BY <1>0, <2>7 DEF Confirm, Assigned, Task
    <3> QED
      BY <1>0, <2>7, <3>1 DEF Confirm, Skipped, ScannerSees, Scan
  <2>8. CASE CleanRead
    BY <1>0, <2>8 DEF CleanRead, Skipped, ScannerSees, Scan, Enter, MayEnter, Out
  <2>9. CASE CleanWrite \/ CleanEnd
    BY <1>0, <2>9 DEF CleanWrite, CleanEnd, Skipped, ScannerSees, Scan
  <2>10. ASSUME NEW r \in Requests, Decline(r) PROVE ScannerSees'
    BY <1>0, <2>10, <2>a DEF Decline, ScannerSees, Scan, NoScan
  <2>11. CASE CommitDeclined
    <3>1. /\ scan'.orphans = scan.orphans /\ scan'.one = scan.one /\ scan'.pc = scan.pc
          /\ task'["scanner"].pc = task["scanner"].pc /\ task'["scanner"].seen = task["scanner"].seen
      BY <1>0, <2>11 DEF CommitDeclined, Scan, Task
    <3> QED
      BY <1>0, <3>1 DEF ScannerSees
  <2> QED
    BY <1>7, <2>1, <2>2, <2>3, <2>4, <2>5, <2>6, <2>7, <2>8, <2>9, <2>10, <2>11 DEF ScanRadarr
<1> QED
  BY <1>2, <1>3, <1>4, <1>5, <1>6, <1>7 DEF Next

LEMMA SentKeeps ==
  ASSUME KeptInv, [Next]_vars
  PROVE  SentSeen'
<1> DEFINE w == task["worker"].request
<1>0. /\ handler \in [Requests -> Handler] /\ task \in [Actors -> Task] /\ media.film \in Film
      /\ {"creator", "worker", "scanner", "reconciler"} = Actors /\ Assigned
      /\ SentSeen /\ Alone
  BY DEF KeptInv, TypeInv, TypeOK, Media, Actors
<1>1. ASSUME NEW r \in Requests, Sends(r)
      PROVE  /\ r = w /\ task["worker"].pc = "third" /\ ~MayEnter
             /\ \A a \in Actors \ {"worker"} : task[a].pc = "out"
  BY <1>0, <1>1 DEF SentSeen, Alone, MayEnter
<1>a. ASSUME UNCHANGED <<media, task["worker"]>>,
             \A r \in Requests : Sends(r)' => handler'[r] = handler[r]
      PROVE  SentSeen'
  BY <1>0, <1>a DEF SentSeen, Sends
<1>b. ASSUME \A r \in Requests : ~Sends(r)'
      PROVE  SentSeen'
  BY <1>b DEF SentSeen
<1>c. ASSUME \A r \in Requests : Sends(r)' => handler'[r] = handler[r], NEW saves \in BOOLEAN,
             task'["worker"] = [task["worker"] EXCEPT
                                  !.met = @ \/ (saves /\ task["worker"].pc # "out")],
             ~saves => UNCHANGED media
      PROVE  SentSeen'
  <2>1. /\ task'["worker"].pc = task["worker"].pc /\ task'["worker"].request = w
        /\ task'["worker"].met <=> task["worker"].met \/ (saves /\ task["worker"].pc # "out")
    BY <1>0, <1>c DEF Task
  <2>2. ASSUME NEW r \in Requests, Sends(r)'
        PROVE  Sends(r) /\ handler'[r] = handler[r]
    BY <1>c, <2>2 DEF Sends
  <2>3. CASE saves
    BY <1>0, <2>1, <2>2, <2>3 DEF SentSeen
  <2>4. CASE ~saves
    BY <1>0, <1>c, <2>1, <2>2, <2>4 DEF SentSeen
  <2> QED
    BY <2>3, <2>4
<1>d. ASSUME NEW r \in Requests, Rest(r)
      PROVE  \A s \in Requests : Sends(s)' => s # r /\ handler'[s] = handler[s]
  BY <1>0, <1>d DEF Rest, Resting, Sends
<1>2. CASE Create
  <2>1. UNCHANGED handler /\ \A r \in Requests : ~Sends(r)
    BY <1>0, <1>1, <1>2 DEF Create, CreateRead, PromoteRead, CreateSave, PromoteSave, Enter, Inside
  <2> QED
    BY <1>b, <2>1 DEF Sends
<1>3. ASSUME NEW r \in Requests, Handle(r) PROVE SentSeen'
  <2>1. CASE Commit(r)
    <3>1. handler[r].saves \in BOOLEAN
      BY <1>0 DEF Handler
    <3>2. task'["worker"] = [task["worker"] EXCEPT
            !.met = @ \/ (handler[r].saves /\ task["worker"].pc # "out")]
      BY <1>0, <2>1 DEF Commit
    <3>3. Rest(r) /\ (~handler[r].saves => UNCHANGED media)
      BY <2>1 DEF Commit, Conclude, SaveRequests
    <3> QED
      BY <1>c, <1>d, <3>1, <3>2, <3>3
  <2>2. CASE ~Commit(r)
    <3>1. UNCHANGED <<media, task>>
      BY <1>3, <2>2 DEF Handle, Judge, Write, Remove, Abort, tables
    <3>2. \A s \in Requests : Sends(s)' => handler'[s] = handler[s]
      <4>1. ASSUME NEW op \in {"approve", "retry", "decline"}, Judge(r, op)
            PROVE  \A s \in Requests : Sends(s)' => handler'[s] = handler[s]
        BY <1>0, <4>1 DEF Judge, Resting, Sends
      <4>2. ASSUME NEW op, NEW film, NEW saves, Open(r, op, film, saves), op # "deliver"
            PROVE  \A s \in Requests : Sends(s)' => handler'[s] = handler[s]
        BY <1>0, <4>2 DEF Open, Sends
      <4>3. ASSUME Write(r) \/ Remove(r) \/ Abort(r)
            PROVE  \A s \in Requests : Sends(s)' => handler'[s] = handler[s]
        BY <1>d, <4>2, <4>3 DEF Write, Remove, Abort
      <4> QED
        BY <1>3, <2>2, <4>1, <4>3 DEF Handle
    <3> QED
      BY <1>a, <3>1, <3>2
  <2> QED
    BY <2>1, <2>2
<1>4. CASE Deliver
  <2>1. ASSUME NEW r \in Requests, Begin(r) PROVE SentSeen'
    <3>1. \A s \in Requests : Sends(s)' => handler'[s] = handler[s]
      BY <1>0, <2>1 DEF Begin, Resting, Sends
    <3> QED
      BY <1>a, <2>1, <3>1 DEF Begin
  <2>2. ASSUME NEW r \in Requests, Admit(r) PROVE SentSeen'
    <3>1. \A s \in Requests : ~Sends(s)
      BY <1>1, <2>2 DEF Admit
    <3>2. UNCHANGED handler \/ Rest(r)
      BY <2>2 DEF Admit
    <3> QED
      BY <1>b, <1>d, <3>1, <3>2 DEF Sends
  <2>3. CASE AddMovie \/ SaveSent
    <3>1. UNCHANGED handler /\ \A r \in Requests : ~Sends(r)
      BY <1>1, <2>3 DEF AddMovie, SaveSent, Inside
    <3> QED
      BY <1>b, <3>1 DEF Sends
  <2>4. CASE SaveTarget
    <3> DEFINE accepted == Accepted(media.film, QualityOf[w])
    <3>1. /\ w \in Requests /\ handler[w].pc = "read"
          /\ Open(w, "deliver", accepted, accepted # media.film)
      BY <1>0, <2>4 DEF SaveTarget, Inside, Assigned
    <3>2. \A r \in Requests : Sends(r)' => r = w
      BY <1>0, <1>1, <3>1 DEF Open, Sends
    <3>3. handler'[w].seen = accepted
      BY <1>0, <3>1 DEF Open
    <3>4. /\ task'["worker"].pc = "third" /\ task'["worker"].request = w /\ UNCHANGED media
      BY <1>0, <2>4 DEF SaveTarget, Inside, Task, tables
    <3>5. \A q \in Qualities : media.film.status[q] = "available" => accepted.status[q] = "available"
      BY <1>0, <3>1, Kinds DEF Accepted, Film
    <3> HIDE DEF accepted
    <3> QED
      BY <3>2, <3>3, <3>4, <3>5 DEF SentSeen
  <2>5. CASE CompleteAvailable \/ CommitSent \/ DispatchFailed \/ WorkerDies
    <3>1. w \in Requests /\ Rest(w)
      BY <1>0, <2>5 DEF CompleteAvailable, CommitSent, Conclude, DispatchFailed, WorkerDies, Finish,
        Inside, Assigned
    <3>2. \A r \in Requests : Sends(r)' => r # w /\ Sends(r)
      BY <1>d, <3>1 DEF Sends
    <3> QED
      BY <1>1, <1>b, <3>2
  <2> QED
    BY <1>4, <2>1, <2>2, <2>3, <2>4, <2>5 DEF Deliver
<1>5. CASE ScanRadarr
  <2>1. CASE CommitDeclined
    <3>1. scan.saves \in BOOLEAN
      BY DEF KeptInv, TypeInv, TypeOK, Scan
    <3>2. task'["worker"] = [task["worker"] EXCEPT
            !.met = @ \/ (scan.saves /\ task["worker"].pc # "out")]
      BY <1>0, <2>1 DEF CommitDeclined
    <3>3. UNCHANGED handler /\ (~scan.saves => UNCHANGED media)
      BY <2>1 DEF CommitDeclined, SaveRequests
    <3> QED
      BY <1>c, <3>1, <3>2, <3>3 DEF Sends
  <2>2. CASE EntrySave \/ ResetWrite \/ CleanWrite
    <3>1. UNCHANGED handler /\ \A r \in Requests : ~Sends(r)
      BY <1>0, <1>1, <2>2 DEF EntrySave, ResetWrite, CleanWrite, Inside
    <3> QED
      BY <1>b, <3>1 DEF Sends
  <2>3. CASE ~(CommitDeclined \/ EntrySave \/ ResetWrite \/ CleanWrite)
    <3>1. UNCHANGED <<handler, media>>
      BY <1>5, <2>3 DEF ScanRadarr, StartScan, NextPhase, EntryRead, Confirm, CleanRead, CleanEnd,
        ScanFails, ListServer, ResetRead, CleanupFind, Decline, tables
    <3>2. UNCHANGED task["worker"]
      BY <1>0, <1>5, <2>3 DEF ScanRadarr, StartScan, NextPhase, EntryRead, Confirm, CleanRead,
        CleanEnd, ScanFails, ListServer, ResetRead, CleanupFind, Decline, Enter, Leave
    <3> QED
      BY <1>a, <3>1, <3>2
  <2> QED
    BY <2>1, <2>2, <2>3
<1>6. CASE Reconcile
  <2>1. CASE ApplyDeletion
    <3>1. UNCHANGED handler /\ \A r \in Requests : ~Sends(r)
      BY <1>0, <1>1, <2>1 DEF ApplyDeletion, Inside
    <3> QED
      BY <1>b, <3>1 DEF Sends
  <2>2. CASE ~ApplyDeletion
    <3>1. UNCHANGED <<handler, media, task["worker"]>>
      BY <1>0, <1>6, <2>2 DEF Reconcile, Probe, ProbeAgain, CheckOutbox, Enter, Leave
    <3> QED
      BY <1>a, <3>1
  <2> QED
    BY <2>1, <2>2
<1>7. ASSUME (\E q \in Qualities : LibraryChanges(q)) \/ UNCHANGED vars
      PROVE  SentSeen'
  <2>1. UNCHANGED <<handler, media, task>>
    BY <1>7 DEF LibraryChanges, vars, tables
  <2> QED
    BY <1>a, <2>1
<1> QED
  BY <1>2, <1>3, <1>4, <1>5, <1>6, <1>7 DEF Next

LEMMA AvailableStays ==
  ASSUME KeptInv, [Next]_vars, NEW q \in Qualities, media.film.status[q] = "available",
         \A r \in Requests :
           ~(handler[r].pc = "open" /\ handler[r].op # "deliver" /\ handler'[r].pc = "idle"),
         ~(scan.declined # None /\ scan'.declined = None),
         ~Inside("reconciler", "second"), \A a \in Actors : ~task[a].met
  PROVE  media'.film.status[q] = "available"
<1> DEFINE Kept == media'.film.status[q] = "available"
<1>0. /\ handler \in [Requests -> Handler] /\ media.film \in Film /\ scan \in Scan
      /\ {"creator", "worker", "scanner", "reconciler"} = Actors /\ Assigned /\ ScannerSees
      /\ \A a \in Actors : task[a].seen \in Film
      /\ \A a \in Actors : task[a].pc \notin {"out", "third"} => task[a].seen.status[q] = "available"
  BY TaskTypes DEF KeptInv, TypeInv, TypeOK, Media, Actors, AvailableSeen
<1>a. ASSUME UNCHANGED media PROVE Kept
  BY <1>a
<1>b. ASSUME NEW film, NEW req, NEW own, NEW rows, Save(film, req, own, rows),
             film.status[q] = "available"
      PROVE  Kept
  BY <1>b DEF Save
<1> SUFFICES Kept
  OBVIOUS
<1> HIDE DEF Kept
<1>1. CASE Create
  <2> DEFINE r == task["creator"].request
             seen == task["creator"].seen
  <2>1. CASE CreateSave
    <3>1. r \in Requests /\ QualityOf[r] \in Qualities
      BY <1>0, <2>1, Kinds DEF CreateSave, Inside, Assigned
    <3>2. seen \in Film /\ seen.status[q] = "available"
      BY <1>0, <2>1 DEF CreateSave, Inside
    <3>3. /\ Requested(seen, QualityOf[r]).status[q] = "available"
          /\ Requested(seen, QualityOf[r]) \in Film
      BY <3>1, <3>2, StatusTypes DEF Requested, Film, Holdings
    <3>4. Accepted(Requested(seen, QualityOf[r]), QualityOf[r]).status[q] = "available"
      BY <3>1, <3>3 DEF Accepted, Film
    <3> QED
      BY <1>b, <2>1, <3>3, <3>4 DEF CreateSave
  <2>2. CASE PromoteSave
    <3>1. r \in Requests /\ QualityOf[r] \in Qualities
      BY <1>0, <2>2, Kinds DEF PromoteSave, Inside, Assigned
    <3>2. seen \in Film /\ seen.status[q] = "available"
      BY <1>0, <2>2 DEF PromoteSave, Inside
    <3>3. Accepted(seen, QualityOf[r]).status[q] = "available"
      BY <3>1, <3>2 DEF Accepted, Film
    <3> QED
      BY <1>a, <1>b, <2>2, <3>3 DEF PromoteSave, SaveRequests
  <2> QED
    BY <1>1, <1>a, <2>1, <2>2 DEF Create, CreateRead, PromoteRead, tables
<1>2. ASSUME NEW r \in Requests, Handle(r) PROVE Kept
  <2>1. ~Commit(r)
    BY <1>0 DEF Commit, Conclude, Rest, Resting
  <2> QED
    BY <1>2, <1>a, <2>1 DEF Handle, Judge, Write, Remove, Abort, tables
<1>3. CASE Deliver
  <2>1. CASE SaveSent
    <3>1. [task["worker"].seen EXCEPT !.linked = @ \cup {QualityOf[task["worker"].request]}].status[q]
            = "available"
      BY <1>0, <2>1 DEF SaveSent, Inside, Film
    <3> QED
      BY <1>b, <2>1, <3>1 DEF SaveSent
  <2>2. CASE CommitSent
    <3> DEFINE w == task["worker"].request
               req == [request EXCEPT ![w] = Outcome(handler[w].op)]
    <3>1. w \in Requests /\ Sends(w)
      BY <1>0, <2>2 DEF CommitSent, Conclude, Inside, Assigned, Sends
    <3>2. handler[w].seen.status[q] = "available"
      BY <1>0, <3>1 DEF KeptInv, SentSeen
    <3>3. \/ Save(handler[w].seen, req, {w}, queued \ {w})
          \/ UNCHANGED media
      BY <2>2 DEF CommitSent, Conclude, SaveRequests
    <3> HIDE DEF req
    <3> QED
      BY <1>a, <1>b, <3>2, <3>3
  <2> QED
    BY <1>3, <1>a, <2>1, <2>2 DEF Deliver, Begin, Admit, CompleteAvailable, AddMovie, SaveTarget,
      DispatchFailed, WorkerDies, Finish, SaveRequests, tables
<1>4. CASE ScanRadarr
  <2> DEFINE seen == task["scanner"].seen
             one == scan.one
  <2>1. CASE EntrySave
    <3> DEFINE film == [seen EXCEPT !.status[one] = EntryStatus(scan.list[one], @),
                                    !.linked = @ \cup {one}]
    <3>1. one \in Qualities /\ seen \in Film /\ seen.status[q] = "available"
      BY <1>0, <2>1 DEF EntrySave, Inside, Assigned
    <3>2. film.status[q] = IF q = one THEN EntryStatus(scan.list[one], seen.status[one])
                           ELSE seen.status[q]
      BY <3>1 DEF Film
    <3>3. film.status[q] = "available"
      BY <3>1, <3>2 DEF EntryStatus
    <3>4. UNCHANGED tables \/ Save(film, request, {}, queued)
      BY <2>1 DEF EntrySave
    <3> HIDE DEF film
    <3> QED
      BY <1>a, <1>b, <3>3, <3>4 DEF tables
  <2>2. CASE ResetWrite
    <3> DEFINE reset == IF seen.status[one] = "processing"
                        THEN [seen EXCEPT !.status[one] = "unknown"] ELSE media.film
               film == IF \E r \in scan.orphans : MayReject(r, reset, Declined(scan.orphans))
                       THEN [reset EXCEPT !.status[one] = "unknown"] ELSE reset
    <3>1. one \in Qualities /\ seen \in Film /\ seen.status[q] = "available"
      BY <1>0, <2>2 DEF ResetWrite, Inside, Assigned
    <3>2. reset \in Film /\ reset.status[q] = "available"
      BY <1>0, <3>1 DEF Film, MediaStatuses
    <3>3. \A r \in scan.orphans : MayReject(r, reset, Declined(scan.orphans)) => one # q
      BY <1>0, <3>2 DEF MayReject, ScannerSees
    <3>4. film.status[q] = "available"
      BY <3>1, <3>2, <3>3 DEF Film
    <3>5. Save(film, Declined(scan.orphans), {}, queued)
      BY <2>2 DEF ResetWrite
    <3> HIDE DEF film
    <3> QED
      BY <1>b, <3>4, <3>5
  <2>3. CASE CleanWrite
    <3>1. seen \in Film /\ seen.status[q] = "available" /\ seen.status[one] = "processing"
      BY <1>0, <2>3 DEF CleanWrite, Inside, ScannerSees
    <3>2. [seen EXCEPT !.status[one] = "unknown"].status[q] = "available"
      BY <3>1 DEF Film
    <3> QED
      BY <1>b, <2>3, <3>2 DEF CleanWrite
  <2>4. ~CommitDeclined
    BY <1>0 DEF CommitDeclined, Scan
  <2> QED
    BY <1>4, <1>a, <2>1, <2>2, <2>3, <2>4 DEF ScanRadarr, StartScan, NextPhase, EntryRead, Confirm,
      CleanRead, CleanEnd, ScanFails, ListServer, ResetRead, CleanupFind, Decline, tables
<1>5. CASE Reconcile
  BY <1>5, <1>a DEF Reconcile, Probe, ProbeAgain, CheckOutbox, ApplyDeletion
<1>6. ASSUME (\E p \in Qualities : LibraryChanges(p)) \/ UNCHANGED vars
      PROVE  UNCHANGED media
  BY <1>6 DEF LibraryChanges, vars, tables
<1> QED
  BY <1>1, <1>2, <1>3, <1>4, <1>5, <1>6, <1>a DEF Next

(* Only the save of an operator's transaction or of the scan's declines, a  *)
(* task it has met and the reconciliation take back that a film is          *)
(* available: RequestLifecycle's AvailabilityKept.                          *)
THEOREM AvailabilityTakenBackByNoTask == Spec => AvailabilityKept
<1>1. Init => KeptInv
  BY TypeInit DEF Init, KeptInv, Alone, AvailableSeen, SentSeen, Sends, ScannerSees, NoScan, Out,
    Resting, Actors
<1>2. KeptInv /\ [Next]_vars => KeptInv'
  BY NextTypes, StepsTreat, TreatedKeeps, SentKeeps, ScannerKeeps DEF KeptInv
<1>3. KeptInv /\ [Next]_vars =>
        [\A q \in Qualities :
           media.film.status[q] = "available" =>
             \/ media'.film.status[q] = "available"
             \/ \E r \in Requests : handler[r].pc = "open" /\ handler[r].op # "deliver"
                                   /\ handler'[r].pc = "idle"
             \/ scan.declined # None /\ scan'.declined = None
             \/ Inside("reconciler", "second")
             \/ \E a \in Actors : task[a].met]_vars
  BY AvailableStays
<1> QED
  BY <1>1, <1>2, <1>3, PTL DEF Spec, AvailabilityKept

=============================================================================
