--------------------------- MODULE RequestLifecycle ---------------------------
(***************************************************************************)
(* The status of one film and of the requests for it.                      *)
(*                                                                         *)
(* A film is a row of the table media with a status per quality (standard  *)
(* and 4K); its requests are rows of media_request, each for a destination *)
(* of its quality (server, profile, root folder).  Users create requests   *)
(* and operators approve, decline, retry and remove them; a worker sends   *)
(* the approved ones to Radarr; the scan of Radarr's libraries makes the   *)
(* film available, which completes its requests, and resets what Radarr    *)
(* does not have or does not want any more; the reconciliation of          *)
(* deletions removes what has left the library.                            *)
(*                                                                         *)
(* Whoever creates, sends, scans or reconciles holds the media's admission *)
(* key; the handlers of operators hold the key of their request only.  All *)
(* of them read the media, compute and save it: save() writes every column *)
(* that differs from the table, so a status read before another save is    *)
(* put back.  A transaction that has to write a request another open one   *)
(* has written waits for its end; what PostgreSQL does about a circle of   *)
(* such waits is an Abort.                                                 *)
(*                                                                         *)
(* RequestDispatch has the claims, leases and attempts of the dispatch,    *)
(* RequestAdmission the keys; here a dispatch is a row and a worker.       *)
(***************************************************************************)
EXTENDS Naturals, FiniteSets

CONSTANTS
  Qualities,  \* standard and 4K
  Requests,   \* requests, each created at most once
  QualityOf,  \* is4k of each request
  Profiles,   \* quality profiles and root folders of the quality's server
  ProfileOf,  \* the profile and root folder recorded with each request
  None,       \* no request, no quality
  Instances   \* requests, library and operations; the qualities scanned, those with
              \* another server that is not, those whose server lists other films;
              \* whether deletions are reconciled and the film is watched; bounds on
              \* the acts of operators, the changes of the library and the faults

(* monitored: wanted, without a file; idle: neither wanted nor there.       *)
Holdings == {"absent", "idle", "monitored", "file"}

Operations == {"none", "approve", "retry", "decline", "remove", "deliver"}

Instance ==
  [requests: SUBSET Requests, library: [Qualities -> Holdings], operations: SUBSET Operations,
   scans: SUBSET Qualities, unsynced: SUBSET Qualities, stocked: SUBSET Qualities,
   reconciled: BOOLEAN, watched: BOOLEAN,
   acts: Nat, changes: Nat, faults: Nat]

ASSUME ConstantsAssumption ==
  /\ QualityOf \in [Requests -> Qualities]
  /\ ProfileOf \in [Requests -> Profiles]
  /\ None \notin Requests \cup Qualities
  /\ Instances \subseteq Instance

VARIABLES
  instance,  \* the instance chosen at the start; its bounds are used up
  library,   \* what Radarr has of the film, per quality
  media,     \* the row of the film
  request,   \* the status of each request
  queued,    \* the requests with a row in request_dispatch_outbox
  handler,   \* per request, who holds its admission key
  task,      \* who is inside the media's admission key
  scan,      \* the scan of Radarr
  deletion,  \* the reconciliation of deletions
  ever,      \* qualities the library has had a file of, or that a reconciliation
             \* has recorded as deleted
  reopened,  \* requests operators have approved after they had ended
  revived    \* requests a worker has saved as approved after they had ended

vars == <<instance, library, media, request, queued, handler, task, scan, deletion,
          ever, reopened, revived>>

ghosts == <<ever, reopened, revived>>

tables == <<media, request, queued, deletion>>

-----------------------------------------------------------------------------
(* Types *)

MediaStatuses == {"unknown", "pending", "processing", "available", "deleted"}

RequestStatuses ==
  {"none", "pending", "approved", "declined", "failed", "completed", "removed"}

(* linked: the qualities with an id of Radarr.                              *)
Film == [status: [Qualities -> MediaStatuses], linked: SUBSET Qualities]

Unknown == [status |-> [q \in Qualities |-> "unknown"], linked |-> {}]

Media == [there: BOOLEAN, film: Film]

NoMedia == [there |-> FALSE, film |-> Unknown]

(* read: the request has been read; open: it is written, not committed; the *)
(* media is going to be saved as "seen" if "saves".                         *)
Handler == [op: Operations, pc: {"idle", "read", "open"}, seen: Film, saves: BOOLEAN]

Resting == [op |-> "none", pc |-> "idle", seen |-> Unknown, saves |-> FALSE]

Actors == {"creator", "worker", "scanner", "reconciler"}

(* seen: the media as the task read it; met: an operator's transaction has  *)
(* saved the media since (nothing reads that but properties).               *)
Task == [pc: {"out", "first", "second", "third"}, request: Requests \cup {None}, seen: Film, met: BOOLEAN]

Out == [pc |-> "out", request |-> None, seen |-> Unknown, met |-> FALSE]

(* todo: the qualities the phase has not handled; one: the one it handles;  *)
(* deferred: those to reset; orphans: requests it read with the media;      *)
(* declined: the one it has written and not committed, with the media it    *)
(* is going to save then if "saves".                                        *)
Scan == [pc: {"idle", "servers", "resets", "cleanup", "confirm", "clean", "decline"},
         list: [Qualities -> Holdings], todo: SUBSET Qualities, deferred: SUBSET Qualities,
         one: Qualities \cup {None}, orphans: SUBSET Requests,
         declined: Requests \cup {None}, seen: Film, saves: BOOLEAN]

NoScan == [pc |-> "idle", list |-> [q \in Qualities |-> "absent"], todo |-> {},
           deferred |-> {}, one |-> None, orphans |-> {},
           declined |-> None, seen |-> Unknown, saves |-> FALSE]

(* same: the media has not been updated since it was read.                  *)
Deletion == [pc: {"idle", "probed"}, gone: SUBSET Qualities, same: BOOLEAN]

NoDeletion == [pc |-> "idle", gone |-> {}, same |-> TRUE]

TypeOK ==
  /\ instance \in Instance
  /\ library \in [Qualities -> Holdings]
  /\ media \in Media
  /\ request \in [Requests -> RequestStatuses]
  /\ queued \in SUBSET Requests
  /\ handler \in [Requests -> Handler]
  /\ task \in [Actors -> Task]
  /\ scan \in Scan
  /\ deletion \in Deletion
  /\ ever \in SUBSET Qualities
  /\ reopened \in SUBSET Requests
  /\ revived \in SUBSET Requests

Init ==
  /\ instance \in Instances
  /\ library = instance.library
  /\ media = NoMedia
  /\ request = [r \in Requests |-> "none"]
  /\ queued = {}
  /\ handler = [r \in Requests |-> Resting]
  /\ task = [a \in Actors |-> Out]
  /\ scan = NoScan
  /\ deletion = NoDeletion
  /\ ever = {q \in Qualities : library[q] = "file"}
  /\ reopened = {} /\ revived = {}

-----------------------------------------------------------------------------
(* The tables *)

Active == {"pending", "approved"}

Ended == {"declined", "failed", "completed"}

Of(q) == {r \in Requests : QualityOf[r] = q}

(* The other requests for its quality that are not yet ended.               *)
Rivals(r, req) == {s \in Of(QualityOf[r]) \ {r} : req[s] \in Active}

(* isExactRequestDestination, between requests for one film.                *)
SameDestination(r) ==
  {s \in Of(QualityOf[r]) \ {r} : ProfileOf[s] = ProfileOf[r]}

(* Requests written by a transaction that is open.                          *)
Locked == {r \in Requests : handler[r].pc = "open" \/ scan.declined = r}

(* MediaSubscriber.afterUpdate: what saving the media does to its requests. *)
CompletedByAny(old, new, q) ==  \* mutant: the other quality counts
  \E p \in Qualities : new[p] # old[p] /\ new[p] \in {"available", "deleted"}

CompletedBy(old, new, q) == new[q] # old[q] /\ new[q] \in {"available", "deleted"}

PromotedBy(old, new, q) == old[q] = "pending" /\ new[q] = "available"

Cascade(old, new, req) ==
  [r \in Requests |->
     IF \/ req[r] \in {"approved", "failed"} /\ CompletedBy(old, new, QualityOf[r])
        \/ req[r] = "pending" /\ PromotedBy(old, new, QualityOf[r])
     THEN "completed" ELSE req[r]]

(* enqueue() and cancel(): a row that is being delivered is not cancelled;  *)
(* that of a removed request goes with it.                                  *)
Rows(rows, req) ==
  {r \in rows : \/ req[r] = "approved"
                \/ req[r] # "removed" /\ handler[r].op = "deliver"}

(* The requests became req; the media is saved as film, within the same     *)
(* transaction; "rows" have been enqueued.                                  *)
Save(film, req, own, rows) ==
  LET after == Cascade(media.film.status, film.status, req) IN
  /\ \A r \in Locked \ own : after[r] = request[r]
  /\ media' = [there |-> TRUE, film |-> film]
  /\ request' = after
  /\ queued' = Rows(rows, after)
  /\ deletion' = [deletion EXCEPT !.same = @ /\ media.there /\ film = media.film]

(* Requests become req, the media stays as it is.                           *)
SaveRequests(req, own, rows) ==
  /\ \A r \in Locked \ own : req[r] = request[r]
  /\ request' = req
  /\ queued' = Rows(rows, req)
  /\ UNCHANGED <<media, deletion>>

-----------------------------------------------------------------------------
(* The media's admission key *)

AtOnce == TRUE  \* mutant: the key is not waited for

MayEnter == \A a \in Actors : task[a].pc = "out"

Enter(a, r) ==
  /\ MayEnter
  /\ task' = [task EXCEPT ![a] = [Out EXCEPT !.pc = "first", !.request = r, !.seen = media.film]]

Leave(a) == task' = [task EXCEPT ![a] = Out]

Inside(a, pc) == task[a].pc = pc

-----------------------------------------------------------------------------
(* Creating a request *)

(* The film may be recorded as available with a request for another         *)
(* destination: which ones are is left open.                                *)
TrackedElsewhere(r) ==
  \E s \in Of(QualityOf[r]) \ SameDestination(r) :
     s # r /\ request[s] \notin {"none", "removed"}

Obtainable(r) == media.film.status[QualityOf[r]] # "available" \/ TrackedElsewhere(r)

UncoveredByPending(r) ==  \* mutant: what has been approved does not cover its destination
  \A s \in SameDestination(r) : request[s] # "pending"

(* isDestinationCoveredByActiveRequest does not hold.                       *)
Uncovered(r) == \A s \in SameDestination(r) : request[s] \notin Active

(* MediaRequest.requestUnlocked: a film that is there and a second active   *)
(* request for the same destination are refused.                            *)
CreateRead(r) ==
  /\ r \in instance.requests /\ request[r] = "none"
  /\ Obtainable(r) /\ Uncovered(r)
  /\ Enter("creator", r)
  /\ UNCHANGED <<instance, library, tables, handler, scan, ghosts>>

Requested(film, q) ==
  [film EXCEPT !.status[q] = IF @ \in {"unknown", "deleted"} THEN "pending" ELSE @]

AcceptedAs(film, q) ==  \* mutant: the status of the request is stored
  [film EXCEPT !.status[q] = IF @ \in {"available", "processing"} THEN @ ELSE "approved"]

(* updateParentStatus of an approved request.                               *)
Accepted(film, q) ==
  [film EXCEPT !.status[q] = IF @ \in {"available", "processing"} THEN @ ELSE "processing"]

(* Media and request are saved in one transaction; the requests of some     *)
(* users are approved at once.                                              *)
CreateSave ==
  LET r     == task["creator"].request
      asked == Requested(task["creator"].seen, QualityOf[r])
  IN
  /\ Inside("creator", "first") /\ request[r] = "none"
  /\ \/ Save(asked, [request EXCEPT ![r] = "pending"], {}, queued)
     \/ Save(Accepted(asked, QualityOf[r]), [request EXCEPT ![r] = "approved"], {}, queued \cup {r})
  /\ Leave("creator")
  /\ UNCHANGED <<instance, library, handler, scan, ghosts>>

(* An operator who asks for what is pending approves it, with the media's   *)
(* key and without the request's.                                           *)
PromoteRead(r) ==
  /\ "approve" \in instance.operations /\ instance.acts > 0
  /\ request[r] = "pending" /\ Obtainable(r)
  /\ Enter("creator", r)
  /\ instance' = [instance EXCEPT !.acts = @ - 1]
  /\ UNCHANGED <<library, tables, handler, scan, ghosts>>

Reopening(r) == reopened' = IF request[r] \in Active THEN reopened ELSE reopened \cup {r}

Approving(r) == [request EXCEPT ![r] = "approved"]

PromoteSave ==
  LET r        == task["creator"].request
      accepted == Accepted(task["creator"].seen, QualityOf[r])
  IN
  /\ Inside("creator", "first") /\ request[r] # "none"
  /\ IF accepted = task["creator"].seen
     THEN SaveRequests(Approving(r), {}, queued \cup {r})
     ELSE Save(accepted, Approving(r), {}, queued \cup {r})
  /\ Reopening(r)
  /\ Leave("creator")
  /\ UNCHANGED <<instance, library, handler, scan, ever, revived>>

-----------------------------------------------------------------------------
(* Handlers of operators, with the key of the request only *)

Rest(r) == handler' = [handler EXCEPT ![r] = Resting]

(* transitionPendingMediaRequest and the retry read the request, ...        *)
Judge(r, op) ==
  /\ op \in instance.operations /\ instance.acts > 0 /\ handler[r] = Resting
  /\ IF op = "retry" THEN request[r] \in Ended ELSE request[r] = "pending"
  /\ handler' = [handler EXCEPT ![r] = [Resting EXCEPT !.op = op, !.pc = "read"]]
  /\ instance' = [instance EXCEPT !.acts = @ - 1]
  /\ UNCHANGED <<library, tables, task, scan, ghosts>>

(* updateParentStatus of a declined request.                                *)
MayReject(r, film, req) ==
  film.status[QualityOf[r]] \notin {"available", "deleted"} /\ Rivals(r, req) = {}

Rejected(r, film, req) ==
  IF MayReject(r, film, req) THEN [film EXCEPT !.status[QualityOf[r]] = "unknown"] ELSE film

Open(r, op, film, saves) ==
  handler' = [handler EXCEPT ![r] = [op |-> op, pc |-> "open", seen |-> film, saves |-> saves]]

(* ... write it, and read the media in the same transaction.  A request     *)
(* that has been removed is inserted again, unless its media is gone.       *)
Write(r) ==
  LET op       == handler[r].op
      accepted == Accepted(media.film, QualityOf[r])
  IN
  /\ handler[r].pc = "read" /\ op # "deliver" /\ r \notin Locked
  /\ \/ ~media.there /\ Rest(r)
     \/ /\ media.there /\ op \in {"approve", "retry"}
        /\ Open(r, op, accepted, accepted # media.film)
     \/ /\ media.there /\ op = "decline"
        /\ Open(r, op, Rejected(r, media.film, request), MayReject(r, media.film, request))
  /\ UNCHANGED <<instance, library, tables, task, scan, ghosts>>

(* handleRemoveParentUpdate looks at both qualities.                        *)
Others(r, q) == {s \in Of(q) \ {r} : request[s] \in Active}

MayEmpty(r, q) == Others(r, q) = {} /\ media.film.status[q] # "available"

Emptied(r) ==
  LET came(q)  == QualityOf[r] = q /\ request[r] = "completed"
      stays(q) == \/ \E s \in Of(q) \ {r} : request[s] = "completed"
                  \/ media.film.status[q] = "deleted" /\ ~came(q)
  IN  [media.film EXCEPT !.status = [q \in Qualities |->
         IF ~MayEmpty(r, q) THEN @[q] ELSE IF stays(q) THEN "deleted" ELSE "unknown"]]

Remove(r) ==
  /\ "remove" \in instance.operations /\ instance.acts > 0 /\ handler[r] = Resting
  /\ request[r] \in Active \cup Ended /\ r \notin Locked
  /\ Open(r, "remove", Emptied(r), \E q \in Qualities : MayEmpty(r, q))
  /\ instance' = [instance EXCEPT !.acts = @ - 1]
  /\ UNCHANGED <<library, tables, task, scan, ghosts>>

Outcome(op) ==
  CASE op \in {"approve", "retry", "deliver"} -> "approved"
    [] op = "decline" -> "declined"
    [] op = "remove" -> "removed"

(* The end of the transaction: the request, then the media.                 *)
Conclude(r, rows) ==
  LET req == [request EXCEPT ![r] = Outcome(handler[r].op)] IN
  /\ handler[r].pc = "open"
  /\ IF handler[r].saves THEN Save(handler[r].seen, req, {r}, rows) ELSE SaveRequests(req, {r}, rows)
  /\ Rest(r)

Commit(r) ==
  LET status == Outcome(handler[r].op) IN
  /\ handler[r].op # "deliver"
  /\ Conclude(r, IF status = "approved" THEN queued \cup {r} ELSE queued)
  /\ IF status = "approved" THEN Reopening(r) ELSE UNCHANGED reopened
  /\ task' = [a \in Actors |-> [task[a] EXCEPT !.met = @ \/ (handler[r].saves /\ task[a].pc # "out")]]
  /\ UNCHANGED <<instance, library, scan, ever, revived>>

Fault == instance.faults > 0 /\ instance' = [instance EXCEPT !.faults = @ - 1]

Abort(r) ==
  /\ Fault
  /\ handler[r].pc = "open" /\ handler[r].op # "deliver" /\ Rest(r)
  /\ UNCHANGED <<library, tables, task, scan, ghosts>>

-----------------------------------------------------------------------------
(* Sending an approved request to Radarr: dispatchRequestById, sendToRadarr *)

Begin(r) ==
  /\ r \in queued /\ handler[r] = Resting
  /\ \/ /\ request[r] = "approved"
        /\ handler' = [handler EXCEPT ![r] = [Resting EXCEPT !.op = "deliver", !.pc = "read"]]
        /\ UNCHANGED queued
     \/ /\ request[r] # "approved"
        /\ queued' = queued \ {r}
        /\ UNCHANGED handler
  /\ UNCHANGED <<instance, library, media, request, deletion, task, scan, ghosts>>

(* Without its media it is attempted again.                                 *)
Admit(r) ==
  /\ handler[r].op = "deliver" /\ task["worker"].request # r
  /\ MayEnter
  /\ \/ media.there /\ Enter("worker", r) /\ UNCHANGED handler
     \/ ~media.there /\ Rest(r) /\ UNCHANGED task
  /\ UNCHANGED <<instance, library, tables, scan, ghosts>>

(* The worker writes the request it read, whatever has become of it.        *)
Finish(status) ==
  LET r == task["worker"].request IN
  /\ SaveRequests([request EXCEPT ![r] = status],
                  IF handler[r].pc = "open" THEN {r} ELSE {}, queued \ {r})
  /\ Leave("worker") /\ Rest(r)
  /\ UNCHANGED <<library, scan, ghosts>>

CompleteAvailable ==
  /\ Inside("worker", "first")
  /\ task["worker"].seen.status[QualityOf[task["worker"].request]] = "available"
  /\ Finish("completed")
  /\ UNCHANGED instance

(* addMovie(), after which the media is read again.                         *)
AddMovie ==
  LET r == task["worker"].request  q == QualityOf[r] IN
  /\ Inside("worker", "first") /\ task["worker"].seen.status[q] # "available"
  /\ library' = [library EXCEPT ![q] = IF @ \in {"absent", "idle"} THEN "monitored" ELSE @]
  /\ task' = [task EXCEPT !["worker"].pc = "second", !["worker"].seen = media.film,
                          !["worker"].met = FALSE]
  /\ UNCHANGED <<instance, tables, handler, scan, ghosts>>

(* The media is saved, ...                                                  *)
SaveSent ==
  LET q == QualityOf[task["worker"].request] IN
  /\ Inside("worker", "second")
  /\ Save([task["worker"].seen EXCEPT !.linked = @ \cup {q}], request, {}, queued)
  /\ task' = [task EXCEPT !["worker"].pc = "third"]
  /\ UNCHANGED <<instance, library, handler, scan, ghosts>>

(* ... then saveRequestServiceTarget saves the request, with the status it  *)
(* was read with: the row is written and the media is read, ...             *)
SaveTarget ==
  LET r        == task["worker"].request
      accepted == Accepted(media.film, QualityOf[r])
  IN
  /\ Inside("worker", "third") /\ handler[r].pc = "read" /\ r \notin Locked
  /\ Open(r, "deliver", accepted, accepted # media.film)
  /\ task' = [task EXCEPT !["worker"].met = FALSE]
  /\ UNCHANGED <<instance, library, tables, scan, ghosts>>

(* ... and after the commit the outbox deletes its row.                     *)
CommitSent ==
  LET r == task["worker"].request IN
  /\ Inside("worker", "third") /\ Conclude(r, queued \ {r})
  /\ revived' = IF request[r] \in Active THEN revived ELSE revived \cup {r}
  /\ Leave("worker")
  /\ UNCHANGED <<instance, library, scan, ever, reopened>>

DispatchFailed == Fault /\ ~Inside("worker", "out") /\ Finish("failed")

WorkerDies ==
  /\ Fault
  /\ ~Inside("worker", "out")
  /\ Leave("worker") /\ Rest(task["worker"].request)
  /\ UNCHANGED <<library, tables, scan, ghosts>>

-----------------------------------------------------------------------------
(* The scan of Radarr *)

Approved(q) == {r \in Of(q) : request[r] = "approved"}

StartScan ==
  /\ instance.scans # {} /\ scan.pc = "idle"
  /\ scan' = [NoScan EXCEPT !.pc = "servers", !.todo = instance.scans]
  /\ UNCHANGED <<instance, library, tables, handler, task, ghosts>>

(* didScanStandard and didScan4k: every server of the quality was scanned   *)
(* and has listed something.                                                *)
Scanned ==
  {q \in instance.scans \ instance.unsynced : scan.list[q] # "absent" \/ q \in instance.stocked}

(* After a phase has handled its qualities the next one begins.             *)
NextPhase ==
  /\ scan.one = None /\ scan.todo = {}
  /\ \/ /\ scan.pc = "servers"
        /\ scan' = [scan EXCEPT !.pc = "resets", !.todo = scan.deferred \cap Scanned,
                                !.deferred = {}]
     \/ /\ scan.pc = "resets"
        /\ scan' = [scan EXCEPT !.pc = "cleanup",
                                !.todo = {q \in Scanned : scan.list[q] = "absent"}]
     \/ /\ scan.pc = "cleanup"
        /\ scan' = NoScan
  /\ UNCHANGED <<instance, library, tables, handler, task, ghosts>>

(* getMovies() of the server of a quality.                                  *)
ListServer(q) ==
  /\ scan.pc = "servers" /\ scan.one = None /\ q \in scan.todo
  /\ scan' = [scan EXCEPT !.list[q] = library[q], !.todo = @ \ {q},
                          !.one = IF library[q] = "absent" THEN None ELSE q]
  /\ UNCHANGED <<instance, library, tables, handler, task, ghosts>>

EntryRead ==
  /\ scan.pc = "servers" /\ scan.one # None
  /\ Enter("scanner", None)
  /\ UNCHANGED <<instance, library, tables, handler, scan, ghosts>>

(* processMovie                                                             *)
DeferrableNever(status) == FALSE  \* mutant: what Radarr does not want is not reset

Deferrable(status) == status \in {"processing", "unknown"}

EntryStatus(held, status) ==
  CASE status = "available" \/ held = "file" -> "available"
    [] held = "monitored" /\ status \notin {"available", "deleted"} -> "processing"
    [] OTHER -> status

(* save() is called if something has changed; of a film that is neither     *)
(* wanted nor there nothing has.                                            *)
EntrySave ==
  LET q    == scan.one
      held == scan.list[q]
      seen == task["scanner"].seen
      film == [seen EXCEPT !.status[q] = EntryStatus(held, @), !.linked = @ \cup {q}]
  IN
  /\ Inside("scanner", "first") /\ scan.pc = "servers"
  /\ IF held = "idle" \/ (media.there /\ film = seen)
     THEN UNCHANGED tables
     ELSE Save(film, request, {}, queued)
  /\ scan' = [scan EXCEPT !.one = None, !.deferred =
                IF held = "idle" /\ media.there /\ Deferrable(seen.status[q]) THEN @ \cup {q} ELSE @]
  /\ Leave("scanner")
  /\ UNCHANGED <<instance, library, handler, ghosts>>

(* resolveDeferredMovieStatusResets: the media and its requests are read,   *)
(* what is approved is declined, without asking Radarr again.               *)
ResetRead(q) ==
  /\ scan.pc = "resets" /\ scan.one = None /\ q \in scan.todo /\ MayEnter
  /\ \/ /\ media.there /\ media.film.status[q] \in {"processing", "unknown"}
        /\ scan' = [scan EXCEPT !.one = q, !.todo = @ \ {q}, !.orphans = Approved(q)]
        /\ Enter("scanner", None)
     \/ /\ ~media.there \/ media.film.status[q] \notin {"processing", "unknown"}
        /\ scan' = [scan EXCEPT !.todo = @ \ {q}]
        /\ UNCHANGED task
  /\ UNCHANGED <<instance, library, tables, handler, ghosts>>

(* declineOrphanedRequests saves the requests as they were read: one that   *)
(* has been removed is inserted again.                                      *)
Declined(gone) == [r \in Requests |-> IF r \in gone THEN "declined" ELSE request[r]]

ResetWrite ==
  LET q     == scan.one
      reset == IF task["scanner"].seen.status[q] = "processing"
               THEN [task["scanner"].seen EXCEPT !.status[q] = "unknown"] ELSE media.film
      film  == IF \E r \in scan.orphans : MayReject(r, reset, Declined(scan.orphans))
               THEN [reset EXCEPT !.status[q] = "unknown"] ELSE reset
  IN
  /\ scan.pc = "resets" /\ Inside("scanner", "first")
  /\ Save(film, Declined(scan.orphans), {}, queued)
  /\ scan' = [scan EXCEPT !.one = None, !.orphans = {}]
  /\ Leave("scanner")
  /\ UNCHANGED <<instance, library, handler, ghosts>>

(* cleanupOrphanedMovies: what is processing and was not listed is read     *)
(* with its requests, ...                                                   *)
CleanupFind(q) ==
  /\ scan.pc = "cleanup" /\ scan.one = None /\ q \in scan.todo
  /\ scan' = IF media.there /\ media.film.status[q] = "processing"
             THEN [scan EXCEPT !.pc = "confirm", !.todo = @ \ {q}, !.one = q,
                               !.orphans = Approved(q)]
             ELSE [scan EXCEPT !.todo = @ \ {q}]
  /\ UNCHANGED <<instance, library, tables, handler, task, ghosts>>

Skipped == [scan EXCEPT !.pc = "cleanup", !.one = None, !.orphans = {}]

(* ... Radarr is asked again, ...                                           *)
Confirm ==
  /\ scan.pc = "confirm"
  /\ scan' = IF library[scan.one] = "absent" THEN [scan EXCEPT !.pc = "clean"] ELSE Skipped
  /\ UNCHANGED <<instance, library, tables, handler, task, ghosts>>

CleanRead ==
  /\ scan.pc = "clean" /\ MayEnter
  /\ IF media.there /\ media.film.status[scan.one] = "processing"
     THEN Enter("scanner", None) /\ UNCHANGED scan
     ELSE scan' = Skipped /\ UNCHANGED task
  /\ UNCHANGED <<instance, library, tables, handler, ghosts>>

(* ... the media is reset, ...                                              *)
CleanWrite ==
  /\ scan.pc = "clean" /\ Inside("scanner", "first")
  /\ Save([task["scanner"].seen EXCEPT !.status[scan.one] = "unknown"], request, {}, queued)
  /\ scan' = [scan EXCEPT !.pc = "decline"]
  /\ Leave("scanner")
  /\ UNCHANGED <<instance, library, handler, ghosts>>

(* ... and the requests are declined one by one, without the key: each is   *)
(* written and the media read; where it is gone that fails and ends the     *)
(* scan.                                                                    *)
Decline(r) ==
  /\ scan.pc = "decline" /\ scan.declined = None /\ r \in scan.orphans \ Locked
  /\ scan' = IF media.there
             THEN [scan EXCEPT !.orphans = @ \ {r}, !.declined = r,
                     !.seen = Rejected(r, media.film, Declined({r})),
                     !.saves = MayReject(r, media.film, Declined({r}))]
             ELSE NoScan
  /\ UNCHANGED <<instance, library, tables, handler, task, ghosts>>

CommitDeclined ==
  LET req == Declined({scan.declined}) IN
  /\ scan.declined # None
  /\ IF scan.saves THEN Save(scan.seen, req, {scan.declined}, queued)
                   ELSE SaveRequests(req, {scan.declined}, queued)
  /\ scan' = [scan EXCEPT !.declined = None, !.seen = Unknown, !.saves = FALSE]
  /\ task' = [a \in Actors |-> [task[a] EXCEPT !.met = @ \/ (scan.saves /\ task[a].pc # "out")]]
  /\ UNCHANGED <<instance, library, handler, ghosts>>

CleanEnd ==
  /\ scan.pc = "decline" /\ scan.declined = None /\ scan.orphans = {}
  /\ scan' = Skipped
  /\ UNCHANGED <<instance, library, tables, handler, task, ghosts>>

(* A call or a statement fails, or the process dies.                        *)
ScanFails ==
  /\ Fault
  /\ scan.pc # "idle"
  /\ scan' = NoScan /\ Leave("scanner")
  /\ UNCHANGED <<library, tables, handler, ghosts>>

-----------------------------------------------------------------------------
(* The reconciliation of deletions: LibraryDeletionReconciler.reconcile     *)

Gone == {q \in Qualities : library[q] = "absent"}

KnownCopy(film, q) == film.status[q] \in {"available", "deleted"} \/ q \in film.linked

Probe ==
  /\ instance.reconciled /\ deletion.pc = "idle" /\ Inside("reconciler", "out")
  /\ media.there /\ \E q \in Gone : KnownCopy(media.film, q)
  /\ deletion' = [pc |-> "probed", gone |-> Gone, same |-> TRUE]
  /\ UNCHANGED <<instance, library, media, request, queued, handler, task, scan, ghosts>>

(* With the keys the media is read and the services are probed again.       *)
ProbeAgain ==
  /\ deletion.pc = "probed" /\ Inside("reconciler", "out") /\ MayEnter
  /\ IF media.there /\ deletion.same /\ deletion.gone = Gone
     THEN Enter("reconciler", None) /\ UNCHANGED deletion
     ELSE deletion' = NoDeletion /\ UNCHANGED task
  /\ UNCHANGED <<instance, library, media, request, queued, handler, scan, ghosts>>

(* The transaction reads media and outbox, ...                              *)
CheckOutbox ==
  /\ Inside("reconciler", "first")
  /\ IF deletion.same /\ queued = {}
     THEN /\ task' = [task EXCEPT !["reconciler"].pc = "second"]
          /\ UNCHANGED deletion
     ELSE deletion' = NoDeletion /\ Leave("reconciler")
  /\ UNCHANGED <<instance, library, media, request, queued, handler, scan, ghosts>>

(* ... and updates the media without its subscriber, or deletes it with all *)
(* its requests unless somebody watches it.                                 *)
Known == {q \in deletion.gone : KnownCopy(task["reconciler"].seen, q)}

Unlinked ==
  [status |-> [q \in Qualities |-> IF q \in Known THEN "deleted" ELSE media.film.status[q]],
   linked |-> media.film.linked \ Known]

ApplyDeletion ==
  /\ Inside("reconciler", "second")
  /\ IF deletion.gone = Qualities
     THEN /\ Locked = {}
          /\ request' = [r \in Requests |-> IF request[r] = "none" THEN "none" ELSE "removed"]
          /\ queued' = {}
          /\ media' = IF instance.watched THEN [media EXCEPT !.film = Unlinked] ELSE NoMedia
     ELSE media' = [media EXCEPT !.film = Unlinked] /\ UNCHANGED <<request, queued>>
  /\ deletion' = NoDeletion
  /\ ever' = ever \cup Known
  /\ Leave("reconciler")
  /\ UNCHANGED <<instance, library, handler, scan, reopened, revived>>

-----------------------------------------------------------------------------
(* Radarr's library changes: a download ends, somebody adds or removes.     *)
LibraryChanges(q) ==
  /\ instance.changes > 0
  /\ \E held \in Holdings \ {library[q]} :
       /\ library' = [library EXCEPT ![q] = held]
       /\ ever' = IF held = "file" THEN ever \cup {q} ELSE ever
  /\ instance' = [instance EXCEPT !.changes = @ - 1]
  /\ UNCHANGED <<tables, handler, task, scan, reopened, revived>>

Create == (\E r \in Requests : CreateRead(r) \/ PromoteRead(r)) \/ CreateSave \/ PromoteSave

Handle(r) ==
  \/ \E op \in {"approve", "retry", "decline"} : Judge(r, op)
  \/ Write(r) \/ Remove(r) \/ Commit(r) \/ Abort(r)

Deliver ==
  \/ \E r \in Requests : Begin(r) \/ Admit(r)
  \/ CompleteAvailable \/ AddMovie \/ SaveSent \/ SaveTarget \/ CommitSent
  \/ DispatchFailed \/ WorkerDies

ScanRadarr ==
  \/ StartScan \/ NextPhase \/ EntryRead \/ EntrySave \/ ResetWrite
  \/ Confirm \/ CleanRead \/ CleanWrite \/ CommitDeclined \/ CleanEnd \/ ScanFails
  \/ \E q \in Qualities : ListServer(q) \/ ResetRead(q) \/ CleanupFind(q)
  \/ \E r \in Requests : Decline(r)

Reconcile == Probe \/ ProbeAgain \/ CheckOutbox \/ ApplyDeletion

Next ==
  \/ Create \/ Deliver \/ ScanRadarr \/ Reconcile
  \/ \E r \in Requests : Handle(r)
  \/ \E q \in Qualities : LibraryChanges(q)

(* Transactions and calls end, scans are repeated, the outbox is scanned    *)
(* and the queue for the media's key is first come, first served.  Nothing  *)
(* is assumed of users, operators, Radarr and faults.                       *)
Fairness ==
  /\ WF_vars(CreateSave \/ PromoteSave)
  /\ \A r \in Requests :
       WF_vars(Write(r) \/ Commit(r)) /\ WF_vars(Begin(r)) /\ SF_vars(Admit(r))
  /\ WF_vars(CompleteAvailable \/ AddMovie \/ SaveSent \/ SaveTarget \/ CommitSent)
  /\ WF_vars(StartScan \/ NextPhase \/ EntrySave \/ ResetWrite \/ Confirm \/ CleanWrite
             \/ CommitDeclined \/ CleanEnd
             \/ (\E q \in Qualities : ListServer(q) \/ CleanupFind(q))
             \/ (\E r \in Requests : Decline(r)))
  /\ SF_vars(EntryRead \/ CleanRead \/ \E q \in Qualities : ResetRead(q))
  /\ WF_vars(ProbeAgain \/ CheckOutbox \/ ApplyDeletion)

Spec == Init /\ [][Next]_vars /\ Fairness

-----------------------------------------------------------------------------
(* Safety *)

(* An exact destination of a film (quality, server, profile, root folder)   *)
(* has one active request, except those that became active again after they *)
(* had ended: an operator approved them, or a worker saved the status it    *)
(* had read before.  Creation looks for what covers the destination and     *)
(* saves under the media's key (MediaRequest.requestUnlocked).              *)
OneActive ==
  \A r \in Requests :
    request[r] \in Active /\ r \notin reopened \cup revived =>
      \A s \in SameDestination(r) : request[s] \in Active => s \in reopened \cup revived

(* A request is completed only if Radarr has had a file of its quality, or  *)
(* a reconciliation has recorded it as deleted, whatever the other quality, *)
(* stale saves and removals do to the media.                                *)
CompletedDelivered ==
  \A r \in Requests : request[r] = "completed" => QualityOf[r] \in ever

(* No task of the media's key takes back that a film is available: only the *)
(* save of a transaction that does not hold it does, an operator's or the   *)
(* scan's when it declines what it has cleaned up, and the reconciliation   *)
(* of deletions.  A task that such a save has met may put back what it read *)
(* before.                                                                  *)
AvailabilityKept ==
  [][\A q \in Qualities :
       media.film.status[q] = "available" =>
         \/ media'.film.status[q] = "available"
         \/ \E r \in Requests : handler[r].pc = "open" /\ handler[r].op # "deliver"
                               /\ handler'[r].pc = "idle"
         \/ scan.declined # None /\ scan'.declined = None
         \/ Inside("reconciler", "second")
         \/ \E a \in Actors : task[a].met]_vars

(* The scan declines what is approved only if Radarr neither has nor wants  *)
(* the film: disproved, adding it to the run shows it.                      *)
OrphansOnly ==
  [][\A r \in Requests :
       request[r] = "approved" /\ request'[r] = "declined" /\ scan' # scan =>
         library[QualityOf[r]] \in {"absent", "idle"}]_vars

(* The reconciliation never deletes a request that has been accepted and    *)
(* waits to be sent: disproved, adding it to the run shows it.              *)
AcceptedSpared ==
  [][Inside("reconciler", "second") /\ task'["reconciler"].pc = "out" =>
       \A r \in queued : request'[r] # "removed"]_vars

-----------------------------------------------------------------------------
(* Liveness *)

Follows(q) ==
  /\ library[q] = "file" => media.there /\ media.film.status[q] = "available"
                            /\ Approved(q) \subseteq revived
  /\ (library[q] = "idle" /\ q \notin instance.unsynced)
       \/ (library[q] = "absent" /\ q \in instance.stocked \ instance.unsynced) =>
       media.film.status[q] # "processing"

(* Once operators, library and faults rest the film's status comes to       *)
(* follow Radarr's library: a film that is there is available and has       *)
(* completed its requests, except those whose end a worker has overwritten, *)
(* and nothing stays processing that Radarr does not have or does not want, *)
(* if every server of its quality is scanned and, where the film is not     *)
(* listed, lists other films.                                               *)
LibraryFollowed ==
  \A q \in Qualities : q \in instance.scans => <>[]Follows(q)

=============================================================================
