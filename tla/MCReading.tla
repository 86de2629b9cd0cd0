------------------------------- MODULE MCReading -------------------------------
(***************************************************************************)
(* The projects Reading is checked on: any notes hang under the first      *)
(* scan, which is the one that may also be shared on its own.              *)
(***************************************************************************)
EXTENDS Reading

MCHome == [n \in Notes |-> 1]

\* Bound: once a viewer's access rows bear two marks, nothing further happens.
FewMarks ==
    \A v \in Viewers :
        Cardinality({<<w, m>> \in ({Project} \cup Shared) \X {"revoked", "removed"} :
                        m \in access[v][w]}) <= 1

\* Bound: behaviours are narrow, with two scans and all kinds of rows and lists, or broad,
\* with three scans created at different times, one deleted at most, and lists of scans only,
\* followed as long as no scan has left them.
Narrow == now = 0 /\ scan[3].state = "unborn"

Broad ==
    /\ walk # None => walk.what = "scans" /\ (moved => walk.page = 1 /\ walk.at = "rows")
    /\ \A n \in Notes : note[n] = "unborn"
    /\ \A v \in Viewers, s \in Shared : access[v][s] = {}
    /\ Cardinality({s \in Scans : scan[s].state = "dead"}) <= 1
    /\ Cardinality(listed) <= 1

NarrowOrBroad == Narrow \/ Broad
=============================================================================
