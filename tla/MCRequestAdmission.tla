------------------------- MODULE MCRequestAdmission -------------------------
(* Instances of RequestAdmission for TLC.  Keys are ranked as the strings   *)
(* of the code are sorted: "request-...", then "service-config:radarr:0"    *)
(* before "service-config:radarr:collection", then "user-security:...".     *)
EXTENDS RequestAdmission, TLC

CONSTANTS p, q, handler, other, worker, settings, request, second,
        media, instance, collection, user, s1, s2

MCKeys == {request, second, media, instance, collection, user}

MCRank == (request :> 1) @@ (second :> 6) @@ (media :> 2) @@ (instance :> 3)
            @@ (collection :> 4) @@ (user :> 5)

Advisory(keys) == [first |-> "advisory", keys |-> keys]

Local(keys) == [first |-> "local", keys |-> keys]

(* PATCH of a request, or its retry *)
Handler == <<Advisory({user}), Advisory({request})>>

(* dispatchRequestById(): the services are selected under the admission of  *)
(* their collection, then used under that of the instance.                  *)
Selecting == <<Advisory({request}), Advisory({media}), Local({collection})>>
Sending   == <<Advisory({request}), Advisory({media}), Local({instance})>>

(* Settings of a service, saved by an authorised operator under the         *)
(* collection and all its instances                                         *)
Settings == <<Advisory({user}), Local({collection}), Local({instance})>>

(* The dispatch of another request, that no one else works on *)
Background == <<Advisory({second})>>

MCPrograms ==
  (handler :> {Handler}) @@ (other :> {Background}) @@ (worker :> {Selecting, Sending})
    @@ (settings :> {Settings})

RivalPrograms == (handler :> {Handler}) @@ (other :> {Handler}) @@ (worker :> {Selecting})

(* Handlers that start from a user and work that starts from a request or   *)
(* media have different slots.                                              *)
TwoSlots == [keys \in SUBSET MCKeys |-> IF user \in keys THEN s2 ELSE s1]

TwoProcesses == [t \in Tasks |-> IF t = worker THEN p ELSE q]

HandlerAndWorker == [t \in Tasks |-> IF t = other THEN q ELSE p]

BackgroundSpawned == [t \in Tasks |-> IF t = handler THEN {other} ELSE {}]

WorkerSpawned == [t \in Tasks |-> IF t = handler THEN {worker} ELSE {}]

(* The order in which every program above takes its locks: the key's level, *)
(* then the half that its scopes take first.                                *)
Level == (user :> 0) @@ (request :> 1) @@ (second :> 1) @@ (media :> 2)
           @@ (collection :> 3) @@ (instance :> 4)

AdvisoryFirst == {user, request, second, media}

MCOrder == [lock \in MCKeys \X Halves |->
  2 * Level[lock[1]]
    + IF (lock[2] = "advisory") <=> (lock[1] \in AdvisoryFirst) THEN 1 ELSE 2]

ASSUME ProgramsOrdered ==
  \A t \in Tasks : \A scopes \in Programs[t] : Disciplined(MCOrder, scopes)

ASSUME SpawnsNearby
=============================================================================
