------------------------------ MODULE FileLock ------------------------------
(***************************************************************************)
(* What withSettingsFileLock() promises: one operation at a time holds the *)
(* settings file, from the creation of the lock file to its removal, until *)
(* a process dies or a heartbeat is late.  Then others may be let in, and  *)
(* no more is promised than that they come and go one by one.              *)
(***************************************************************************)
CONSTANT Operations  \* mutations and saves of the settings

VARIABLES
  holders,  \* the operations that hold the settings file
  faulted   \* whether a process has died or a heartbeat been late

Init == holders = {} /\ ~faulted

Acquire(o) ==
  /\ faulted \/ holders = {}
  /\ o \notin holders
  /\ holders' = holders \cup {o}

Release(o) == o \in holders /\ holders' = holders \ {o}

(* A process dies and its operations with it, or a heartbeat is late.       *)
Fault == faulted' /\ \E dead \in SUBSET Operations : holders' = holders \ dead

Next ==
  \/ (\E o \in Operations : Acquire(o) \/ Release(o)) /\ UNCHANGED faulted
  \/ Fault

Spec == Init /\ [][Next]_<<holders, faulted>>
=============================================================================
