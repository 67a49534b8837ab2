-------------------------- MODULE MCDownloadRecovery --------------------------
(* The instance of DownloadRecovery that TLC checks. *)
EXTENDS DownloadRecovery, TLC

CONSTANTS p, q, r, s, film, series

(* The first three downloads are for one media. *)
MCMediaOf == [d \in Downloads |-> IF d <= 3 THEN film ELSE series]

(* A download that comes back, to one process or to two, an item that fails *)
(* beside those of another media, and two processes at once.                *)
MCInstances == {
  [processes |-> {p}, downloads |-> {1}, conditions |-> Conditions,
   arrivals |-> 2, ages |-> 1, faults |-> 1],
  [processes |-> {p, q}, downloads |-> {1}, conditions |-> {"failed"},
   arrivals |-> 2, ages |-> 0, faults |-> 0],
  [processes |-> {p}, downloads |-> {1, 2, 4}, conditions |-> {"failed"},
   arrivals |-> 0, ages |-> 0, faults |-> 1],
  [processes |-> {p, q}, downloads |-> {1, 2, 3}, conditions |-> {"failed"},
   arrivals |-> 0, ages |-> 0, faults |-> 0]}

=============================================================================
