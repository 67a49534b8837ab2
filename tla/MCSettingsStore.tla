--------------------------- MODULE MCSettingsStore ---------------------------
(* Instances of SettingsStore for TLC: two processes, one of which may      *)
(* start again.                                                             *)
EXTENDS SettingsStore, TLC

CONSTANTS p1, p2, start, restart, begin, rename, retitle, toggle, main, jobs, secrets

MCProcessOf ==
  (start :> p1) @@ (restart :> p1) @@ (begin :> p2)
    @@ (rename :> p1) @@ (retitle :> p2) @@ (toggle :> p1)

MCSectionOf ==
  (start :> secrets) @@ (restart :> secrets) @@ (begin :> secrets)
    @@ (rename :> main) @@ (retitle :> main) @@ (toggle :> jobs)
=============================================================================
