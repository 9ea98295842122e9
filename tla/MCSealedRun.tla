---------------------------- MODULE MCSealedRun ----------------------------
(***************************************************************************)
(* An application task and a child it creates, two runs of one agent (one  *)
(* may be entered inside a tool of the other), three nodes, two managers   *)
(* beside the first and two changes behind the seals.                      *)
(***************************************************************************)
EXTENDS SealedRun, TLC

CONSTANTS t1, t2, r1, r2, n1, n2, m1, m2

MCNodes == (r1 :> {n1, n2}) @@ (r2 :> {n1})
MCManagers == (r1 :> {}) @@ (r2 :> {m1, m2})
MCMaxDepth == (t1 :> 3) @@ (t2 :> 1)

Symmetry == Permutations({m1, m2})
=============================================================================
