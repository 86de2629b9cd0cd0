----------------------------- MODULE ReadingProofs -----------------------------
(***************************************************************************)
(* What the lists and the queries of Reading guarantee for every set of    *)
(* users, scans and notes, every page size and every time: the variables   *)
(* keep their types, the queries that decide who sees what agree, no note  *)
(* is listed under a deleted scan, and a walk through the pages is         *)
(* complete.                                                               *)
(***************************************************************************)
EXTENDS Reading, FiniteSetTheorems, SequenceTheorems, TLAPS

-----------------------------------------------------------------------------
(* The operators of the pages. *)

\* SetToSeqs(S) holds sequences as long as S is large, without repetition.
LEMMA SeqsOfSet ==
    ASSUME NEW S, IsFiniteSet(S), NEW order \in SetToSeqs(S)
    PROVE  /\ Cardinality(S) \in Nat
           /\ order \in [1..Cardinality(S) -> S] /\ Len(order) = Cardinality(S)
           /\ DOMAIN order = 1..Cardinality(S)
           /\ \A i, j \in 1..Cardinality(S) : i # j => order[i] # order[j]
<1>1. Cardinality(S) \in Nat
  BY FS_CardinalityType
<1>2. /\ order \in [1..Cardinality(S) -> S]
      /\ \A i, j \in 1..Cardinality(S) : i # j => order[i] # order[j]
  BY DEF SetToSeqs
<1>3. order \in Seq(S)
  BY <1>1, <1>2
<1> QED
  BY <1>1, <1>2, <1>3

\* Every element of S is somewhere in them.
LEMMA SeqsOfSetOnto ==
    ASSUME NEW S, IsFiniteSet(S), NEW order \in SetToSeqs(S), NEW x \in S
    PROVE  \E i \in 1..Cardinality(S) : x = order[i]
<1> DEFINE D == 1..Cardinality(S)
<1>1. Cardinality(S) \in Nat /\ order \in [D -> S]
  BY SeqsOfSet
<1>2. order \in Injection(D, S)
  BY SeqsOfSet DEF Injection, IsInjective
<1>3. IsFiniteSet(D) /\ Cardinality(D) = Cardinality(S)
  <2>1. IsFiniteSet(D) /\ Cardinality(D) = (IF 1 > Cardinality(S) THEN 0 ELSE Cardinality(S) - 1 + 1)
    BY <1>1, FS_Interval, 1 \in Int, Cardinality(S) \in Int
  <2> QED
    BY <2>1, <1>1
<1>4. order \in Surjection(D, S)
  BY <1>2, <1>3, FS_Injection
<1> QED
  BY <1>4 DEF Surjection

\* More rows than the pages read hold means that there is a further page.
LEMMA MorePages ==
    ASSUME NEW total \in Nat, NEW page \in Nat, total > page * Limit
    PROVE  page < TotalPages(total)
<1>1. Limit \in Nat \ {0}
  BY ReadingAssumption
<1> QED
  BY <1>1 DEF TotalPages

-----------------------------------------------------------------------------
(* Type correctness. *)

LEMMA TypesOfScan == ASSUME TypeOK, NEW s \in Scans PROVE scan[s] \in Scan
  BY DEF TypeOK

LEMMA MatchesAreRows ==
    ASSUME NEW w PROVE Matches(w) \subseteq Scans \cup Notes
                       \/ w.what \notin {"scans", "notes", "model"}
  BY DEF Matches, Uploaded

LEMMA MatchesFinite ==
    ASSUME NEW w, w.what \in {"scans", "notes", "model"}
    PROVE  IsFiniteSet(Matches(w)) /\ Cardinality(Matches(w)) \in Nat
<1>1. IsFiniteSet(Scans \cup Notes)
  BY ReadingAssumption, FS_Union
<1>2. Matches(w) \in SUBSET (Scans \cup Notes)
  BY MatchesAreRows
<1> QED
  BY <1>1, <1>2, FS_Subset, FS_CardinalityType

LEMMA InitTypeOK == Init => TypeOK
<1> SUFFICES ASSUME Init PROVE TypeOK
  OBVIOUS
<1>1. 0 \in 0..MaxTime
  BY ReadingAssumption
<1> QED
  BY <1>1 DEF Init, TypeOK, Scan, State, Access

LEMMA NextTypeOK == TypeOK /\ [Next]_vars => TypeOK'
<1> SUFFICES ASSUME TypeOK, [Next]_vars PROVE TypeOK'
  OBVIOUS
<1>a. MaxTime \in Nat /\ Limit \in Nat \ {0} /\ Shared \subseteq Scans
  BY ReadingAssumption
<1>b. Dead \in Scan
  BY <1>a DEF Dead, Scan, State
<1>1. CASE Tick
  <2>1. now' \in 0..MaxTime
    BY <1>1, <1>a DEF Tick, TypeOK
  <2> QED
    BY <1>1, <2>1 DEF Tick, TypeOK
<1>2. ASSUME NEW s \in Scans, CreateScan(s) PROVE TypeOK'
  <2> DEFINE row == [scan[s] EXCEPT !.state = "live", !.at = now,
                                     !.admitted = (project = "live")]
  <2>1. scan' = [scan EXCEPT ![s] = row]
    BY <1>2 DEF CreateScan, TypeOK
  <2>2. row \in Scan
    <3>1. scan[s] \in Scan /\ now \in 0..MaxTime
      BY DEF TypeOK
    <3> QED
      BY <3>1 DEF Scan, State
  <2> HIDE DEF row
  <2>3. scan' \in [Scans -> Scan]
    BY <2>1, <2>2 DEF TypeOK
  <2> QED
    BY <1>2, <2>3 DEF CreateScan, TypeOK
<1>3. ASSUME NEW s \in Scans, CompleteUpload(s) PROVE TypeOK'
  <2> DEFINE row == [scan[s] EXCEPT !.uploaded = TRUE]
  <2>1. scan' = [scan EXCEPT ![s] = row]
    BY <1>3 DEF CompleteUpload
  <2>2. row \in Scan
    BY TypesOfScan DEF Scan
  <2> QED
    BY <1>3, <2>1, <2>2 DEF CompleteUpload, TypeOK
<1>4. ASSUME NEW s \in Scans, DeleteScan(s) PROVE TypeOK'
  BY <1>4, <1>b DEF DeleteScan, TypeOK, State
<1>14. ASSUME NEW s \in Scans, Reopen(s) PROVE TypeOK'
  <2> DEFINE row == [scan[s] EXCEPT !.uploaded = FALSE]
  <2>1. scan' = [scan EXCEPT ![s] = row]
    BY <1>14 DEF Reopen
  <2>2. row \in Scan
    BY TypesOfScan DEF Scan
  <2> QED
    BY <1>14, <2>1, <2>2 DEF Reopen, TypeOK
<1>15. CASE ListForDeletion
  BY <1>15 DEF ListForDeletion, TypeOK
<1>5. ASSUME NEW n \in Notes, CreateNote(n) \/ DeleteNote(n) PROVE TypeOK'
  BY <1>5 DEF CreateNote, DeleteNote, TypeOK, State
<1>6. CASE DeleteProject
  <2>1. scan' \in [Scans -> Scan] /\ note' \in [Notes -> State]
    BY <1>6, <1>b DEF DeleteProject, TypeOK, State
  <2>2. ASSUME NEW v \in Viewers PROVE RevokeAll(v) \in [{Project} \cup Shared -> Access]
    BY DEF RevokeAll, TypeOK, Access
  <2> QED
    BY <1>6, <2>1, <2>2 DEF DeleteProject, TypeOK
<1>7. ASSUME NEW v \in Viewers, NEW what \in {Project} \cup Shared,
             Accept(v, what) \/ Revoke(v, what) \/ Leave(v, what)
      PROVE  TypeOK'
  <2>1. PICK new \in Access : access' = [access EXCEPT ![v][what] = new]
    <3>1. CASE Accept(v, what)
      <4>1. {"granted"} \in Access
        BY DEF Access
      <4> QED
        BY <3>1, <4>1 DEF Accept
    <3>2. ASSUME NEW mark \in {"revoked", "removed"}, Mark(v, what, mark)
          PROVE  \E new \in Access : access' = [access EXCEPT ![v][what] = new]
      <4>1. access[v][what] \in Access /\ access[v][what] # {}
        BY <3>2 DEF Mark, TypeOK
      <4>2. PICK marks \in SUBSET {"revoked", "removed"} :
                 access[v][what] = {"granted"} \cup marks
        BY <4>1 DEF Access
      <4>3. access[v][what] \cup {mark} = {"granted"} \cup (marks \cup {mark})
        BY <4>2
      <4>4. marks \cup {mark} \in SUBSET {"revoked", "removed"}
        OBVIOUS
      <4>5. access[v][what] \cup {mark} \in Access
        BY <4>3, <4>4 DEF Access
      <4> QED
        BY <3>2, <4>5 DEF Mark
    <3> QED
      BY <1>7, <3>1, <3>2 DEF Revoke, Leave
  <2>2. access' \in [Viewers -> [{Project} \cup Shared -> Access]]
    BY <2>1 DEF TypeOK
  <2>3. UNCHANGED <<now, project, scan, note, listed, moved, walk>>
    BY <1>7 DEF Accept, Revoke, Leave, Mark
  <2> QED
    BY <2>2, <2>3 DEF TypeOK
<1>8. ASSUME NEW u \in Users, NEW what \in {"scans", "notes", "model"},
             NEW of \in {Project} \cup Scans, NEW ascending \in BOOLEAN,
             Ask(u, what, of, ascending)
      PROVE  TypeOK'
  <2>1. Role(u, what, of) \in {"OWNER", "VIEWER"}
    BY <1>8 DEF Ask, Role, ProjectRole, ScanRole
  <2>2. walk' \in Walk
    BY <1>8, <2>1 DEF Ask, Walk
  <2> QED
    BY <1>8, <2>2 DEF Ask, rows, TypeOK
<1>9. CASE ReadRows
  <2>1. walk \in Walk
    BY <1>9 DEF ReadRows, TypeOK
  <2>2. PICK order \in Orders(walk) : walk' = [walk EXCEPT
                    !.got = @ \cup {order[i] : i \in Slice(walk.page) \cap DOMAIN order},
                    !.had = IF walk.page = 1 /\ walk.what = "scans" THEN Matches(walk) ELSE @,
                    !.at = IF walk.what = "model" THEN "told" ELSE "count"]
    BY <1>9 DEF ReadRows
  <2> DEFINE seen == {order[i] : i \in Slice(walk.page) \cap DOMAIN order}
  <2>3. Matches(walk) \subseteq Scans \cup Notes /\ IsFiniteSet(Matches(walk))
    BY <2>1, MatchesAreRows, MatchesFinite DEF Walk
  <2>4. seen \subseteq Matches(walk)
    BY <2>3, SeqsOfSet DEF Orders
  <2>6. walk' \in Walk
    <3> DEFINE had == IF walk.page = 1 /\ walk.what = "scans" THEN Matches(walk) ELSE walk.had
               at == IF walk.what = "model" THEN "told" ELSE "count"
    <3>1. walk.got \cup seen \in SUBSET (Scans \cup Notes) /\ had \in SUBSET (Scans \cup Notes)
          /\ at \in {"rows", "count", "told"}
      BY <2>1, <2>3, <2>4 DEF Walk
    <3>2. walk' = [walk EXCEPT !.got = walk.got \cup seen, !.had = had, !.at = at]
      BY <2>2
    <3> HIDE DEF seen, had, at
    <3> QED
      BY <2>1, <3>1, <3>2 DEF Walk
  <2> QED
    BY <1>9, <2>6 DEF ReadRows, rows, TypeOK
<1>10. CASE ReadCount
  <2>1. walk \in Walk
    BY <1>10 DEF ReadCount, TypeOK
  <2>2. Cardinality(Matches(walk)) \in Nat
    BY <2>1, MatchesFinite DEF Walk
  <2>3. walk' \in Walk
    BY <1>10, <2>1, <2>2 DEF ReadCount, Walk
  <2> QED
    BY <1>10, <2>3 DEF ReadCount, rows, TypeOK
<1>11. CASE AskNext
  <2>1. walk \in Walk
    BY <1>11 DEF AskNext, TypeOK
  <2>2. PICK role \in {"OWNER", "VIEWER"} : role = Role(walk.user, walk.what, walk.of)
    BY <1>11 DEF AskNext, Role, ProjectRole, ScanRole
  <2>3. walk' = [walk EXCEPT !.role = role, !.page = walk.page + 1, !.at = "rows"]
    BY <1>11, <2>2 DEF AskNext
  <2>4. walk.page + 1 \in Nat \ {0}
    BY <2>1 DEF Walk
  <2>5. walk' \in Walk
    BY <2>1, <2>2, <2>3, <2>4 DEF Walk
  <2> QED
    BY <1>11, <2>5 DEF AskNext, rows, TypeOK
<1>12. CASE Stop
  BY <1>12 DEF Stop, rows, TypeOK
<1>13. CASE UNCHANGED vars
  BY <1>13 DEF vars, TypeOK
<1> QED
  BY <1>1, <1>2, <1>3, <1>4, <1>14, <1>15, <1>5, <1>6, <1>7, <1>8, <1>9, <1>10, <1>11,
     <1>12, <1>13 DEF Next

\* Every variable of the project and of the walk keeps the values its column or parameter
\* can have.
THEOREM TypeCorrect == Spec => []TypeOK
  BY InitTypeOK, NextTypeOK, PTL DEF Spec

-----------------------------------------------------------------------------
(* The queries agree. *)

\* What the deletion of the project has listed is deleted with it, and stays so.
ListedDie == project = "dead" => \A s \in listed \cap Scans : scan[s].state = "dead"

LEMMA NextListedDie == TypeOK /\ ListedDie /\ [Next]_vars => ListedDie'
<1> SUFFICES ASSUME TypeOK, ListedDie, [Next]_vars, project' = "dead",
                    NEW x \in Scans, x \in listed'
             PROVE  scan'[x].state = "dead"
  BY DEF ListedDie
<1>a. project = "dead" /\ x \in listed => scan[x].state = "dead"
  BY DEF ListedDie
<1>1. CASE scan' = scan /\ listed' = listed /\ project' = project
  BY <1>1, <1>a
<1>2. ASSUME NEW s \in Scans, CreateScan(s) PROVE scan'[x].state = "dead"
  <2>1. x # s /\ scan[x].state = "dead"
    BY <1>2, <1>a DEF CreateScan
  <2> QED
    BY <1>2, <2>1 DEF CreateScan, TypeOK
<1>3. ASSUME NEW s \in Scans, CompleteUpload(s) \/ Reopen(s) PROVE scan'[x].state = "dead"
  <2>1. PICK up \in BOOLEAN : scan' = [scan EXCEPT ![s].uploaded = up]
    BY <1>3 DEF CompleteUpload, Reopen
  <2>2. scan'[x].state = scan[x].state
    BY <2>1, TypesOfScan DEF TypeOK, Scan
  <2> QED
    BY <1>3, <1>a, <2>2 DEF CompleteUpload, Reopen
<1>4. ASSUME NEW s \in Scans, DeleteScan(s) PROVE scan'[x].state = "dead"
  BY <1>4, <1>a DEF DeleteScan, Dead, TypeOK
<1>5. CASE DeleteProject
  BY <1>5 DEF DeleteProject, Dead
<1>6. CASE ListForDeletion
  BY <1>6 DEF ListForDeletion
<1> QED
  BY <1>1, <1>2, <1>3, <1>4, <1>5, <1>6
     DEF Next, vars, rows, Tick, CreateNote, DeleteNote, Accept, Revoke, Leave, Mark, Ask,
         ReadRows, ReadCount, AskNext, Stop

\* Of the access rows there can be, the granted one is that which bears no mark.
LEMMA GrantedRow ==
    ASSUME NEW row \in Access
    PROVE  row = {"granted"} <=> row # {} /\ "removed" \notin row /\ "revoked" \notin row
  BY DEF Access

LEMMA DoorsFromListed == TypeOK /\ ListedDie => DoorsAgree
<1> SUFFICES ASSUME TypeOK, ListedDie PROVE DoorsAgree
  OBVIOUS
<1>a. Shared \subseteq Scans /\ Owner \notin Viewers /\ None \notin {"OWNER", "VIEWER"}
  BY ReadingAssumption
<1>1. ASSUME NEW v \in Viewers PROVE SharedProjectOpens(v) <=> ProjectRole(v) = "VIEWER"
  <2>1. access[v][Project] \in Access
    BY DEF TypeOK
  <2>2. project = "dead" \/ project = "live"
    BY DEF TypeOK
  <2> QED
    BY <1>a, <2>1, <2>2, GrantedRow DEF SharedProjectOpens, SharedStatus, ProjectRole, Sees
<1>2. ASSUME NEW v \in Viewers PROVE SharedProjectScans(v) = DetailScans(v)
  <2>1. ProjectRole(v) # "OWNER"
    BY <1>a DEF ProjectRole
  <2> QED
    BY <1>1, <2>1 DEF SharedProjectScans, DetailScans
<1>3. ASSUME NEW v \in Viewers, NEW s \in Shared, SharedScanOpens(v, s)
      PROVE  ScanRole(v, s) = "VIEWER" \/ (project = "dead" /\ s \notin listed)
  <2>1. access[v][s] \in Access
    BY DEF TypeOK
  <2>2. Live(s) /\ access[v][s] = {"granted"}
    BY <1>3, <2>1, GrantedRow DEF SharedScanOpens, SharedStatus
  <2>3. project = "dead" => s \notin listed
    BY <1>a, <2>2 DEF ListedDie, Live
  <2>4. project # "dead" => ScanRole(v, s) = "VIEWER"
    BY <1>a, <2>2 DEF ScanRole, Sees
  <2> QED
    BY <2>3, <2>4
<1>4. ASSUME NEW v \in Viewers, project = "live"
      PROVE  FeedOpens(v) <=> ProjectRole(v) = "VIEWER"
  BY <1>a, <1>4 DEF FeedOpens, ProjectRole, Sees
<1>5. ASSUME NEW u \in Users, NEW s \in DetailScans(u) PROVE ScanRole(u, s) # None
  BY <1>a DEF DetailScans, Uploaded, ProjectRole, ScanRole
<1>6. ASSUME NEW u \in Users, NEW n \in Notes, note[n] = "live", ScanRole(u, Home[n]) # None
      PROVE  NoteOpens(u, n)
  BY <1>6 DEF NoteOpens
<1> QED
  BY <1>1, <1>2, <1>3, <1>4, <1>5, <1>6 DEF DoorsAgree

\* "Shared With Me", the detail of a project, the permission services and the feed decide
\* alike, in every reachable state and for any number of users, scans and notes, but for
\* the scans that the deletion of their project has overlooked.
THEOREM QueriesAgree == Spec => []DoorsAgree
<1>1. Init => ListedDie
  BY DEF Init, ListedDie
<1>2. TypeOK /\ ListedDie /\ [Next]_vars => ListedDie'
  BY NextListedDie
<1>3. TypeOK /\ ListedDie => DoorsAgree
  BY DoorsFromListed
<1> QED
  BY <1>1, <1>2, <1>3, TypeCorrect, PTL DEF Spec

-----------------------------------------------------------------------------
(* What a page shows. *)

\* The rows a client has grow by a page of what matches when the page is read, and not
\* otherwise.
LEMMA GotGrows ==
    ASSUME TypeOK, [Next]_vars, walk # None, walk' # None
    PROVE  walk'.got \subseteq walk.got \cup Matches(walk)
<1>1. CASE ReadRows
  <2>1. walk \in Walk
    BY DEF TypeOK
  <2>2. PICK order \in Orders(walk) :
           walk'.got = walk.got \cup {order[i] : i \in Slice(walk.page) \cap DOMAIN order}
    BY <1>1, <2>1 DEF ReadRows, Walk
  <2>3. \A i \in DOMAIN order : order[i] \in Matches(walk)
    BY <2>1, MatchesFinite, SeqsOfSet DEF Walk, Orders
  <2> QED
    BY <2>2, <2>3
<1>2. CASE ReadCount \/ AskNext
  <2>1. walk \in Walk
    BY DEF TypeOK
  <2> QED
    BY <1>2, <2>1 DEF ReadCount, AskNext, Walk
<1>3. CASE walk' = walk
  BY <1>3
<1> QED
  BY <1>1, <1>2, <1>3
     DEF Next, vars, Tick, CreateScan, CompleteUpload, Reopen, DeleteScan, CreateNote,
         DeleteNote, ListForDeletion, DeleteProject, Accept, Revoke, Leave, Mark, Ask, Stop

\* No list shows a note under a scan that is deleted when the rows are read.
THEOREM DeadShowNothing == Spec => NothingUnderTheDead
<1>1. ASSUME TypeOK, [Next]_vars, walk # None, walk' # None,
             NEW n \in (walk'.got \ walk.got) \cap Notes
      PROVE  Live(Home[n])
  <2>1. n \in Matches(walk) /\ n \notin Scans
    BY <1>1, GotGrows, ReadingAssumption
  <2>2. walk \in Walk
    BY <1>1 DEF TypeOK
  <2> QED
    BY <2>1, <2>2 DEF Matches, Uploaded, Walk
<1>2. TypeOK /\ [Next]_vars =>
         [walk # None /\ walk' # None =>
            \A n \in (walk'.got \ walk.got) \cap Notes : Live(Home[n])]_vars
  BY <1>1
<1> QED
  BY <1>2, TypeCorrect, PTL DEF Spec, NothingUnderTheDead

-----------------------------------------------------------------------------
(* A walk is complete. *)

Begun(w) == w.page > 1 \/ w.at # "rows"
PagesRead(w) == IF w.at = "rows" THEN w.page - 1 ELSE w.page
Preds(w, x) == {y \in Matches(w) : Before(w, y, x)}

\* What the client had at the start of its walk matches as long as no scan has left, and
\* what it has not received is preceded by at least as many rows as the pages hold that it
\* has read.  If it lacks anything when told the total, there is a further page.
Covered(w) ==
    /\ w.had \subseteq Matches(w)
    /\ \A x \in w.had \ w.got : Cardinality(Preds(w, x)) >= PagesRead(w) * Limit
    /\ w.at = "told" /\ ~(w.had \subseteq w.got) => w.page < TotalPages(w.total)

\* The role a walk through the scans has is that of its user.
Sound(w) ==
    /\ w.role = IF w.user = Owner THEN "OWNER" ELSE "VIEWER"
    /\ Begun(w) /\ ~moved => Covered(w)

WalkInv == walk # None /\ walk.what = "scans" => Sound(walk)

\* A row has as many predecessors as there are positions before its own.
LEMMA Position ==
    ASSUME TypeOK, NEW w \in Walk, w.what = "scans", NEW order \in Orders(w),
           NEW i \in DOMAIN order
    PROVE  Cardinality(Preds(w, order[i])) = i - 1
<1> DEFINE M == Matches(w)
           N == Cardinality(M)
           P == Preds(w, order[i])
           f == [k \in 1..(i - 1) |-> order[k]]
<1>1. IsFiniteSet(M) /\ M \subseteq Scans /\ M \subseteq Nat
  <2>1. IsFiniteSet(M)
    BY MatchesFinite
  <2>2. M \subseteq Scans /\ Scans \subseteq Nat
    BY ReadingAssumption DEF Matches, Uploaded
  <2> QED
    BY <2>1, <2>2
<1>2. order \in SetToSeqs(M)
  BY DEF Orders
<1>3. /\ N \in Nat /\ order \in [1..N -> M] /\ Len(order) = N /\ DOMAIN order = 1..N
      /\ \A j, k \in 1..N : j # k => order[j] # order[k]
  BY <1>1, <1>2, SeqsOfSet
<1>4. \A j, k \in 1..N : j < k => ~Before(w, order[k], order[j])
  BY <1>3 DEF Orders
<1>5. ASSUME NEW a \in M, NEW b \in M, a # b PROVE Before(w, a, b) <=> ~Before(w, b, a)
  <2>1. a \in Nat /\ b \in Nat /\ scan[a].at \in Nat /\ scan[b].at \in Nat
    BY <1>1, ReadingAssumption, TypesOfScan DEF Scan
  <2> QED
    BY <1>5, <2>1 DEF Before
<1>6. ASSUME NEW a \in M PROVE ~Before(w, a, a)
  <2>1. a \in Nat /\ scan[a].at \in Nat
    BY <1>1, ReadingAssumption, TypesOfScan DEF Scan
  <2> QED
    BY <2>1 DEF Before
<1>7. \A k \in 1..N : order[k] \in P <=> k < i
  <2> SUFFICES ASSUME NEW k \in 1..N PROVE order[k] \in P <=> k < i
    OBVIOUS
  <2>1. order[k] \in M /\ order[i] \in M
    BY <1>3
  <2>2. CASE k < i
    <3>1. ~Before(w, order[i], order[k]) /\ order[i] # order[k]
      BY <1>3, <1>4, <2>2
    <3> QED
      BY <1>5, <2>1, <2>2, <3>1 DEF Preds
  <2>3. CASE k = i
    BY <1>6, <2>1, <2>3 DEF Preds
  <2>4. CASE i < k
    BY <1>3, <1>4, <2>4 DEF Preds
  <2> QED
    BY <1>3, <2>2, <2>3, <2>4
<1>8. f \in Bijection(1..(i - 1), P)
  <2>1. \A k \in 1..(i - 1) : k \in 1..N /\ f[k] = order[k]
    BY <1>3
  <2>2. f \in Injection(1..(i - 1), P)
    <3>1. f \in [1..(i - 1) -> P]
      BY <1>3, <1>7, <2>1
    <3>2. \A j, k \in 1..(i - 1) : f[j] = f[k] => j = k
      BY <1>3, <2>1
    <3> QED
      BY <3>1, <3>2 DEF Injection, IsInjective
  <2>3. ASSUME NEW x \in P PROVE \E k \in 1..(i - 1) : f[k] = x
    <3>1. x \in M
      BY <2>3 DEF Preds
    <3>2. PICK k \in 1..N : x = order[k]
      BY <1>1, <1>2, <3>1, SeqsOfSetOnto
    <3>3. k < i
      BY <1>7, <2>3, <3>2
    <3> QED
      BY <1>3, <2>1, <3>2, <3>3
  <2> QED
    BY <2>2, <2>3 DEF Bijection, Surjection, Injection
<1>9. i - 1 \in Nat
  BY <1>3
<1> QED
  <2>1. PICK Q : Q = P
    OBVIOUS
  <2>2. ExistsBijection(1..(i - 1), Q)
    BY <1>8, <2>1 DEF ExistsBijection
  <2>3. Cardinality(Q) = i - 1
    BY <1>9, <2>2, FS_CountingElements
  <2> QED
    BY <2>1, <2>3

\* The rows before one that matches are fewer than those that match.
LEMMA PredsFewer ==
    ASSUME TypeOK, NEW w \in Walk, w.what = "scans", NEW x \in Matches(w)
    PROVE  /\ Cardinality(Preds(w, x)) \in Nat /\ Cardinality(Matches(w)) \in Nat
           /\ Cardinality(Preds(w, x)) < Cardinality(Matches(w))
<1>1. IsFiniteSet(Matches(w)) /\ Cardinality(Matches(w)) \in Nat
  BY MatchesFinite
<1>2. Preds(w, x) \in SUBSET Matches(w)
  BY DEF Preds
<1>3. x \in Scans
  BY DEF Matches, Uploaded
<1>4. x \in Nat /\ scan[x].at \in Nat
  BY <1>3, ReadingAssumption, TypesOfScan DEF Scan
<1>5. x \notin Preds(w, x)
  BY <1>4 DEF Preds, Before
<1>6. /\ IsFiniteSet(Preds(w, x)) /\ Cardinality(Preds(w, x)) <= Cardinality(Matches(w))
      /\ Cardinality(Matches(w)) = Cardinality(Preds(w, x)) => Matches(w) = Preds(w, x)
  BY <1>1, <1>2, FS_Subset
<1>7. Cardinality(Preds(w, x)) \in Nat
  BY <1>6, FS_CardinalityType
<1> QED
  BY <1>1, <1>5, <1>6, <1>7

\* As long as no scan leaves a list, none changes its place in it.
ScansKept ==
    \A s \in Scans : Live(s) => /\ Live(s)' /\ (scan[s].at)' = scan[s].at
                                /\ scan[s].uploaded => (scan[s].uploaded)'

LEMMA ScansStep ==
    ASSUME TypeOK, [Next]_vars, walk' = walk
    PROVE  ~moved' => ~moved /\ ScansKept
<1>1. CASE scan' = scan /\ moved' = moved
  BY <1>1 DEF ScansKept, Live
<1>2. ASSUME NEW s \in Scans, CreateScan(s) PROVE ~moved' => ~moved /\ ScansKept
  <2>1. scan[s].state = "unborn" /\ moved' = moved
    BY <1>2 DEF CreateScan
  <2>2. \A x \in Scans : x # s => scan'[x] = scan[x]
    BY <1>2 DEF CreateScan, TypeOK
  <2> QED
    BY <2>1, <2>2 DEF ScansKept, Live
<1>3. ASSUME NEW s \in Scans, CompleteUpload(s) PROVE ~moved' => ~moved /\ ScansKept
  <2> DEFINE row == [scan[s] EXCEPT !.uploaded = TRUE]
  <2>1. scan' = [scan EXCEPT ![s] = row] /\ moved' = moved
    BY <1>3 DEF CompleteUpload
  <2>2. row.state = scan[s].state /\ row.at = scan[s].at /\ row.uploaded
    BY TypesOfScan DEF Scan
  <2>3. \A x \in Scans : scan'[x] = IF x = s THEN row ELSE scan[x]
    BY <2>1 DEF TypeOK
  <2> HIDE DEF row
  <2> QED
    BY <2>1, <2>2, <2>3 DEF ScansKept, Live
<1>4. ASSUME NEW s \in Scans, Reopen(s) \/ DeleteScan(s) PROVE moved'
  BY <1>4 DEF Reopen, DeleteScan
<1>5. CASE DeleteProject
  BY <1>5 DEF DeleteProject
<1>6. CASE ReadRows
  <2>1. walk \in Walk /\ walk.at = "rows"
    BY <1>6 DEF ReadRows, TypeOK
  <2>2. walk'.at # "rows"
    BY <1>6, <2>1 DEF ReadRows, Walk
  <2> QED
    BY <2>1, <2>2
<1> QED
  BY <1>1, <1>2, <1>3, <1>4, <1>5, <1>6
     DEF Next, vars, rows, Tick, CreateNote, DeleteNote, ListForDeletion, Accept, Revoke,
         Leave, Mark, Ask, ReadCount, AskNext, Stop

\* A walk that stands still stays sound, whatever is written.
LEMMA SoundKept ==
    ASSUME TypeOK, TypeOK', [Next]_vars, walk' = walk, NEW w \in Walk, w.what = "scans", Sound(w)
    PROVE  Sound(w)'
<1>1. ~moved' => ~moved /\ ScansKept
  BY ScansStep
<1>2. ASSUME Begun(w), ~moved' PROVE Covered(w)'
  <2>1. Covered(w)
    BY <1>1, <1>2 DEF Sound
  <2>2. ScansKept
    BY <1>1, <1>2
  <2>3. Matches(w) \subseteq Matches(w)' /\ Matches(w) \subseteq Scans
    BY <2>2 DEF ScansKept, Matches, Uploaded, Live
  <2>4. w.had \subseteq Matches(w)'
    BY <2>1, <2>3 DEF Covered
  <2>5. ASSUME NEW x \in w.had \ w.got
        PROVE  Cardinality(Preds(w, x)') >= PagesRead(w) * Limit
    <3>1. x \in Matches(w)
      BY <2>1 DEF Covered
    <3>2. \A y \in Matches(w) : scan'[y].at = scan[y].at
      BY <2>2, <2>3 DEF ScansKept, Matches, Uploaded, Live
    <3>3. Preds(w, x) \subseteq Preds(w, x)'
      BY <2>3, <3>1, <3>2 DEF Preds, Before
    <3>4. IsFiniteSet(Matches(w)') /\ Preds(w, x)' \in SUBSET Matches(w)'
      <4>1. Matches(w)' \in SUBSET Scans
        BY DEF Matches, Uploaded
      <4>2. Preds(w, x)' \in SUBSET Matches(w)'
        BY DEF Preds
      <4> QED
        BY <4>1, <4>2, FS_Subset, ReadingAssumption
    <3>5. IsFiniteSet(Preds(w, x)') /\ Cardinality(Preds(w, x)') \in Nat
      BY <3>4, FS_Subset, FS_CardinalityType
    <3>6. /\ Cardinality(Preds(w, x)) \in Nat
          /\ Cardinality(Preds(w, x)) <= Cardinality(Preds(w, x)')
      BY <3>3, <3>5, FS_Subset, FS_CardinalityType
    <3>7. Cardinality(Preds(w, x)) >= PagesRead(w) * Limit
      BY <2>1 DEF Covered
    <3>8. PagesRead(w) * Limit \in Nat
      <4>1. PagesRead(w) \in Nat /\ Limit \in Nat
        BY ReadingAssumption DEF PagesRead, Walk
      <4> QED
        BY <4>1
    <3> QED
      BY <3>5, <3>6, <3>7, <3>8
  <2> QED
    BY <2>1, <2>4, <2>5 DEF Covered, PagesRead
<1> QED
  BY <1>2 DEF Sound, Begun

\* Reading the rows of a page.
LEMMA RowsSound ==
    ASSUME TypeOK, WalkInv, ReadRows PROVE WalkInv'
<1> SUFFICES ASSUME walk.what = "scans" PROVE Sound(walk)'
  BY DEF ReadRows, WalkInv, TypeOK, Walk
<1>1. walk \in Walk /\ walk.at = "rows" /\ walk.page \in Nat \ {0} /\ Limit \in Nat \ {0}
  BY ReadingAssumption DEF ReadRows, TypeOK, Walk
<1>2. Sound(walk)
  BY DEF ReadRows, WalkInv
<1>3. PICK order \in Orders(walk) : walk' = [walk EXCEPT
                  !.got = @ \cup {order[i] : i \in Slice(walk.page) \cap DOMAIN order},
                  !.had = IF walk.page = 1 /\ walk.what = "scans" THEN Matches(walk) ELSE @,
                  !.at = IF walk.what = "model" THEN "told" ELSE "count"]
  BY DEF ReadRows
<1>4. scan' = scan /\ moved' = (moved /\ walk.page # 1)
  BY DEF ReadRows, rows
<1> DEFINE seen == {order[i] : i \in Slice(walk.page) \cap DOMAIN order}
<1>5. /\ walk'.user = walk.user /\ walk'.role = walk.role /\ walk'.what = "scans"
      /\ walk'.ascending = walk.ascending /\ walk'.page = walk.page
      /\ walk'.total = walk.total /\ walk'.at = "count" /\ walk'.got = walk.got \cup seen
      /\ walk'.had = (IF walk.page = 1 THEN Matches(walk) ELSE walk.had)
  BY <1>1, <1>3 DEF Walk
<1>6. Matches(walk)' = Matches(walk)
  BY <1>4, <1>5 DEF Matches, Uploaded, Live
<1>7. \A x : Preds(walk, x)' = Preds(walk, x)
  BY <1>4, <1>5, <1>6 DEF Preds, Before
<1>8. walk.page # 1 => Begun(walk)
  BY <1>1 DEF Begun
<1>9. ASSUME ~moved' PROVE Covered(walk)'
  <2>1. walk.page # 1 => Covered(walk)
    BY <1>2, <1>4, <1>8, <1>9 DEF Sound
  <2>2. walk'.had \subseteq Matches(walk)
    BY <1>5, <2>1 DEF Covered
  <2>3. ASSUME NEW x \in walk'.had \ walk'.got
        PROVE  Cardinality(Preds(walk, x)) >= walk.page * Limit
    <3>1. x \in Matches(walk) /\ IsFiniteSet(Matches(walk))
      BY <1>1, <2>2, MatchesFinite DEF Walk
    <3>2. order \in SetToSeqs(Matches(walk)) /\ Cardinality(Matches(walk)) \in Nat
          /\ DOMAIN order = 1..Cardinality(Matches(walk))
      BY <3>1, SeqsOfSet DEF Orders
    <3>3. PICK i \in DOMAIN order : x = order[i]
      BY <3>1, <3>2, SeqsOfSetOnto
    <3>4. i \notin Slice(walk.page) /\ i \in Nat \ {0}
      BY <1>5, <2>3, <3>2, <3>3
    <3>5. Cardinality(Preds(walk, x)) = i - 1
      BY <1>1, <3>3, Position
    <3>6. PICK n \in Nat : n = (walk.page - 1) * Limit
      <4>1. walk.page - 1 \in Nat /\ Limit \in Nat
        BY <1>1
      <4> QED
        BY <4>1
    <3>7. PICK m \in Nat : m = walk.page * Limit
      BY <1>1
    <3>8. i - 1 >= n
      <4>1. CASE walk.page = 1
        BY <1>1, <3>4, <3>6, <4>1
      <4>2. CASE walk.page # 1
        <5>1. x \in walk.had \ walk.got
          BY <1>5, <2>3, <4>2
        <5> QED
          BY <1>1, <2>1, <3>5, <3>6, <4>2, <5>1 DEF Covered, PagesRead
      <4> QED
        BY <4>1, <4>2
    <3>9. i \notin (n + 1)..m
      BY <3>4, <3>6, <3>7 DEF Slice
    <3> QED
      BY <3>4, <3>5, <3>7, <3>8, <3>9
  <2> QED
    BY <1>5, <1>6, <1>7, <2>2, <2>3 DEF Covered, PagesRead
<1> QED
  BY <1>2, <1>5, <1>6, <1>9 DEF Sound

\* Counting the rows.
LEMMA CountSound ==
    ASSUME TypeOK, WalkInv, ReadCount PROVE WalkInv'
<1> SUFFICES ASSUME walk.what = "scans" PROVE Sound(walk)'
  BY DEF ReadCount, WalkInv, TypeOK, Walk
<1>1. walk \in Walk /\ walk.at = "count" /\ walk.page \in Nat \ {0} /\ Limit \in Nat \ {0}
  BY ReadingAssumption DEF ReadCount, TypeOK, Walk
<1>2. Sound(walk)
  BY DEF ReadCount, WalkInv
<1>3. scan' = scan /\ moved' = moved
  BY DEF ReadCount, rows
<1>4. /\ walk'.user = walk.user /\ walk'.role = walk.role /\ walk'.what = "scans"
      /\ walk'.ascending = walk.ascending /\ walk'.page = walk.page
      /\ walk'.total = Cardinality(Matches(walk)) /\ walk'.at = "told"
      /\ walk'.got = walk.got /\ walk'.had = walk.had
  BY <1>1 DEF ReadCount, Walk
<1>5. Matches(walk)' = Matches(walk)
  BY <1>3, <1>4 DEF Matches, Uploaded, Live
<1>6. \A x : Preds(walk, x)' = Preds(walk, x)
  BY <1>3, <1>4, <1>5 DEF Preds, Before
<1>7. Begun(walk)
  BY <1>1 DEF Begun
<1>8. ASSUME ~moved PROVE Covered(walk)'
  <2>1. Covered(walk)
    BY <1>2, <1>7, <1>8 DEF Sound
  <2>2. ASSUME NEW x \in walk.had \ walk.got
        PROVE  walk.page < TotalPages(Cardinality(Matches(walk)))
    <3>1. x \in Matches(walk) /\ Cardinality(Preds(walk, x)) >= walk.page * Limit
      BY <1>1, <2>1 DEF Covered, PagesRead
    <3>2. /\ Cardinality(Preds(walk, x)) \in Nat /\ Cardinality(Matches(walk)) \in Nat
          /\ Cardinality(Preds(walk, x)) < Cardinality(Matches(walk))
      BY <1>1, <3>1, PredsFewer
    <3>3. walk.page * Limit \in Nat
      BY <1>1
    <3>4. Cardinality(Matches(walk)) > walk.page * Limit
      BY <3>1, <3>2, <3>3
    <3> QED
      BY <1>1, <3>2, <3>4, MorePages
  <2> QED
    BY <1>1, <1>4, <1>5, <1>6, <2>1, <2>2 DEF Covered, PagesRead
<1> QED
  BY <1>2, <1>3, <1>4, <1>5, <1>7, <1>8 DEF Sound

\* Asking for the next page.
LEMMA NextPageSound ==
    ASSUME TypeOK, WalkInv, AskNext PROVE WalkInv'
<1> SUFFICES ASSUME walk.what = "scans" PROVE Sound(walk)'
  <2>1. walk'.what = walk.what
    BY DEF AskNext, TypeOK, Walk
  <2> QED
    BY <2>1 DEF AskNext, WalkInv
<1>1. walk \in Walk /\ walk.at = "told" /\ walk.page \in Nat \ {0}
  BY DEF AskNext, TypeOK, Walk
<1>2. Sound(walk)
  BY DEF AskNext, WalkInv
<1>3. scan' = scan /\ moved' = moved
  BY DEF AskNext, rows
<1>4. /\ walk'.user = walk.user /\ walk'.role = ProjectRole(walk.user)
      /\ ProjectRole(walk.user) # None /\ walk'.what = "scans"
      /\ walk'.ascending = walk.ascending /\ walk'.page = walk.page + 1
      /\ walk'.total = walk.total /\ walk'.at = "rows"
      /\ walk'.got = walk.got /\ walk'.had = walk.had
  BY <1>1 DEF AskNext, Role, Walk
<1>5. walk'.role = (IF walk.user = Owner THEN "OWNER" ELSE "VIEWER") /\ walk'.role = walk.role
  BY <1>2, <1>4 DEF ProjectRole, Sound
<1>6. Matches(walk)' = Matches(walk)
  BY <1>3, <1>4, <1>5 DEF Matches, Uploaded, Live
<1>7. \A x : Preds(walk, x)' = Preds(walk, x)
  BY <1>3, <1>4, <1>6 DEF Preds, Before
<1>8. Begun(walk)
  BY <1>1 DEF Begun
<1>9. PagesRead(walk)' = PagesRead(walk)
  BY <1>1, <1>4 DEF PagesRead
<1>10. ~moved => Covered(walk)'
  BY <1>2, <1>4, <1>6, <1>7, <1>8, <1>9 DEF Sound, Covered
<1> QED
  BY <1>2, <1>3, <1>4, <1>5, <1>6, <1>8, <1>10 DEF Sound

LEMMA NextWalkInv == TypeOK /\ TypeOK' /\ WalkInv /\ [Next]_vars => WalkInv'
<1> SUFFICES ASSUME TypeOK, TypeOK', WalkInv, [Next]_vars PROVE WalkInv'
  OBVIOUS
<1>1. ASSUME NEW u \in Users, Ask(u, "scans", Project, TRUE) \/ Ask(u, "scans", Project, FALSE)
      PROVE  WalkInv'
  <2>1. /\ walk'.user = u /\ walk'.role = ProjectRole(u) /\ ProjectRole(u) # None
        /\ walk'.page = 1 /\ walk'.at = "rows"
    BY <1>1 DEF Ask, Role
  <2>2. walk'.role = IF walk'.user = Owner THEN "OWNER" ELSE "VIEWER"
    BY <2>1 DEF ProjectRole
  <2> QED
    BY <2>1, <2>2 DEF WalkInv, Sound, Begun
<1>2. ASSUME NEW u \in Users, NEW s \in Scans, NEW what \in {"notes", "model"},
             Ask(u, what, s, FALSE)
      PROVE  WalkInv'
  BY <1>2 DEF Ask, WalkInv
<1>3. CASE ReadRows
  BY <1>3, RowsSound
<1>4. CASE ReadCount
  BY <1>4, CountSound
<1>5. CASE AskNext
  BY <1>5, NextPageSound
<1>6. CASE Stop
  BY <1>6 DEF Stop, WalkInv
<1>7. CASE walk' = walk
  <2> SUFFICES ASSUME walk # None, walk.what = "scans" PROVE Sound(walk)'
    BY <1>7 DEF WalkInv
  <2>1. PICK w \in Walk : w = walk
    BY DEF TypeOK
  <2>2. Sound(w)
    BY <2>1 DEF WalkInv
  <2>3. Sound(w)'
    BY <1>7, <2>1, <2>2, SoundKept
  <2>4. w = walk'
    BY <1>7, <2>1
  <2> QED
    BY <2>3, <2>4
<1> QED
  BY <1>1, <1>2, <1>3, <1>4, <1>5, <1>6, <1>7
     DEF Next, vars, rows, Tick, CreateScan, CompleteUpload, Reopen, DeleteScan, CreateNote,
         DeleteNote, ListForDeletion, DeleteProject, Accept, Revoke, Leave, Mark

\* A client that has the last page it was told of has every scan it had at the start, for
\* every page size, number of scans and order of the writes, if none has left the list.
THEOREM WalksAreComplete == Spec => []WalkComplete
<1>1. Init => WalkInv
  BY DEF Init, WalkInv
<1>2. TypeOK /\ TypeOK' /\ WalkInv /\ [Next]_vars => WalkInv'
  BY NextWalkInv
<1>3. TypeOK /\ WalkInv => WalkComplete
  <2> SUFFICES ASSUME TypeOK, WalkInv, walk # None, walk.what = "scans", walk.at = "told",
                      walk.page >= TotalPages(walk.total), ~moved
               PROVE  walk.had \subseteq walk.got
    BY DEF WalkComplete
  <2>1. walk.page \in Nat /\ TotalPages(walk.total) \in Int
    BY ReadingAssumption DEF TypeOK, Walk, TotalPages
  <2>2. Covered(walk)
    BY DEF WalkInv, Sound, Begun
  <2> QED
    BY <2>1, <2>2 DEF Covered
<1> QED
  BY <1>1, <1>2, <1>3, TypeCorrect, PTL DEF Spec

=============================================================================
