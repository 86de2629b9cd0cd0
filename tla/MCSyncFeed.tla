----------------------------- MODULE MCSyncFeed -----------------------------
(***************************************************************************)
(* Symmetry and a bound for checking SyncFeed with TLC. Resources are      *)
(* ordered by the snapshot and are not symmetric.                          *)
(***************************************************************************)
EXTENDS SyncFeed, TLC

Symmetry == Permutations(Writers)

\* Bound: once three numbers are out, transactions open at one time are on one resource.
OneRow ==
    last >= 3 =>
        \A v, w \in Writers :
            txn[v].pc # "closed" /\ txn[w].pc # "closed" => txn[v].res = txn[w].res
=============================================================================
