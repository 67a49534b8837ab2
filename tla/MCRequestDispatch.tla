-------------------------- MODULE MCRequestDispatch --------------------------
(* Instances of RequestDispatch for TLC: each request has two row ids, so   *)
(* that a row can be recreated while a task still refers to its old one.    *)
EXTENDS RequestDispatch, TLC

CONSTANTS r1, r2, a1, a2, b1, b2, p1, p2, t1, t2, t3, t4

MCRequestOf == [id \in RowIds |-> IF id \in {a1, a2} THEN r1 ELSE r2]

(* A movie or a book: a behaviour goes no further than the one request that *)
(* it creates first.                                                        *)
OneRequest == status[r1] = "none" \/ status[r2] = "none"

ProcessSymmetry == Permutations(Processes) \cup Permutations(Tokens)
=============================================================================
