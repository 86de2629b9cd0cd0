------------------------------ MODULE MCSharing ------------------------------
(***************************************************************************)
(* Symmetry for checking Sharing with TLC: ids, users and requests are     *)
(* told apart only by equality.                                            *)
(***************************************************************************)
EXTENDS Sharing, TLC

Symmetry == Permutations(Users) \cup Permutations(Invites)
              \cup Permutations(Links) \cup Permutations(Requests)

\* Bounds: an invitation and a link are not both used in one behaviour, and only
\* one user becomes a viewer; which of them, and what the others try, is open. A scan
\* has one invitation: two that meet each other do so in the same way on a project.
OneWay == (\A i \in Invites : inv[i] = None) \/ (\A l \in Links : link[l] = None)
OneViewer == \A u, v \in Users : access[u] # None /\ access[v] # None => u = v
OnePerScan == scope = "scan" => \A i, j \in Invites : inv[i] # None /\ inv[j] # None => i = j

Bounds == OneWay /\ OneViewer /\ OnePerScan
=============================================================================
