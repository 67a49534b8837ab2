------------------------- MODULE MCSettingsFileLock -------------------------
(* Instances of SettingsFileLock for TLC. *)
EXTENDS SettingsFileLock, TLC

CONSTANTS p, q, r, load, save, change, here, there

(* Two processes on one host, one on another *)
MCHostOf == (p :> here) @@ (q :> here) @@ (r :> there)

MCPidOf == (p :> 1) @@ (q :> 2) @@ (r :> 1)

(* A load, a save and a change of the settings, two of them in one process. *)
MCProcessOf == (load :> p) @@ (save :> p) @@ (change :> r)
=============================================================================
