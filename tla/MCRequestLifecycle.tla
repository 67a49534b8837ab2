-------------------------- MODULE MCRequestLifecycle --------------------------
(* Instances of RequestLifecycle for TLC.  r1 and r2 are for the same       *)
(* destination, r4 is for another profile of its quality, r3 for the other  *)
(* quality.                                                                 *)
EXTENDS RequestLifecycle, TLC

CONSTANTS r1, r2, r3, r4, standard, fourK, usual, other

MCQualityOf == [r \in Requests |-> IF r = r3 THEN fourK ELSE standard]

MCProfileOf == [r \in Requests |-> IF r = r4 THEN other ELSE usual]

Empty == (standard :> "absent") @@ (fourK :> "absent")

(* Two requests for one destination, created, judged and sent while the     *)
(* scan runs.                                                               *)
Rivalry(acts, changes) ==
  [requests |-> {r1, r2}, library |-> Empty, operations |-> {"approve", "decline", "retry"},
   scans |-> {standard}, unsynced |-> {}, stocked |-> {standard},
   reconciled |-> FALSE, watched |-> FALSE,
   acts |-> acts, changes |-> changes, faults |-> 0]

(* One request, its faults and the changes of the library.                  *)
Single(changes, faults) ==
  [requests |-> {r1}, library |-> Empty, operations |-> {"approve", "retry", "remove"},
   scans |-> {standard}, unsynced |-> {}, stocked |-> {standard},
   reconciled |-> FALSE, watched |-> FALSE,
   acts |-> 1, changes |-> changes, faults |-> faults]

(* A request for each quality of a film that is there in one of them, while *)
(* deletions are reconciled.                                                *)
BothQualities ==
  [requests |-> {r1, r3}, library |-> [Empty EXCEPT ![fourK] = "file"],
   operations |-> {"approve", "remove"},
   scans |-> {standard, fourK}, unsynced |-> {}, stocked |-> {standard, fourK},
   reconciled |-> TRUE, watched |-> FALSE,
   acts |-> 2, changes |-> 0, faults |-> 0]

(* A film that leaves the library, watched by somebody or not.              *)
Departure(watched) ==
  [requests |-> {r1}, library |-> [Empty EXCEPT ![standard] = "file"], operations |-> {"approve"},
   scans |-> {standard}, unsynced |-> {}, stocked |-> {standard},
   reconciled |-> TRUE, watched |-> watched,
   acts |-> 1, changes |-> 2, faults |-> 0]

(* Two requests for one quality with different profiles; another server of  *)
(* it is not scanned.                                                       *)
TwoProfiles ==
  [requests |-> {r1, r4}, library |-> Empty, operations |-> {"approve", "decline"},
   scans |-> {standard}, unsynced |-> {standard}, stocked |-> {standard},
   reconciled |-> FALSE, watched |-> FALSE,
   acts |-> 1, changes |-> 1, faults |-> 0]

(* A film that is alone in the library of its quality and leaves it.        *)
Alone ==
  [requests |-> {r1}, library |-> [Empty EXCEPT ![standard] = "monitored"],
   operations |-> {"approve", "decline"},
   scans |-> {standard}, unsynced |-> {}, stocked |-> {},
   reconciled |-> FALSE, watched |-> FALSE,
   acts |-> 1, changes |-> 2, faults |-> 0]

MCInstances ==
  {Rivalry(1, 0), Rivalry(0, 1), Single(2, 0), Single(1, 1), BothQualities, TwoProfiles, Alone,
   Departure(TRUE), Departure(FALSE)}
=============================================================================
