------------------------ MODULE MCNotificationOutbox ------------------------
(* The instance of NotificationOutbox that TLC checks. *)
EXTENDS NotificationOutbox

CONSTANTS p, q

(* Only the first notification is for more than one agent. *)
MCTargets == [n \in Notifications |-> IF n = 1 THEN Agents ELSE {1}]

(* A partial delivery by two processes, two notifications competing for one *)
(* place in the queue, one fault over PostgreSQL, and over SQLite.          *)
MCInstances == {
  [sqlite |-> FALSE, raised |-> {1},    faults |-> 0],
  [sqlite |-> FALSE, raised |-> {2, 3}, faults |-> 0],
  [sqlite |-> FALSE, raised |-> {2},    faults |-> 1],
  [sqlite |-> TRUE,  raised |-> {2, 3}, faults |-> 1]}
=============================================================================
