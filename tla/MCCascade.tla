------------------------------- MODULE MCCascade -------------------------------
(***************************************************************************)
(* The tree Cascade is checked on: a scan with a note, a note not yet      *)
(* made and a model; and a scan not yet made.                              *)
(***************************************************************************)
EXTENDS Cascade, TLC

CONSTANTS p, s1, s2, n1, n2, m1, t1, t2

MCHome == n1 :> s1 @@ n2 :> s1 @@ m1 :> s1 

\* Bound: a scan is rolled up a few times, and less often while a conflict is unresolved.
FewRollups == \A s \in Scans : rev[s] <= IF open = {} THEN 3 ELSE 2

\* Bound: one conflict at a time, and none of a scan.
FewConflicts == open \cap Scans = {} /\ Cardinality(open) <= 1

Symmetry == Permutations(Txs)
=============================================================================
