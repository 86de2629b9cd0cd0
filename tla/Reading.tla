-------------------------------- MODULE Reading --------------------------------
(***************************************************************************)
(* What the API shows of a project: who may open the project, a scan or a  *)
(* note (viewableProjectWhere, viewableScanWhere, viewableNoteWhere and    *)
(* the permission services), what a viewer finds under "Shared With Me"    *)
(* and in the sync feed, and the lists, which are read page by page.       *)
(*                                                                         *)
(* A read of one resource is one query, and here an operator: it decides   *)
(* and reads at the same moment.  A list takes three: the reader's role,   *)
(* the rows of the page, and the total.  The last two are one transaction  *)
(* under READ COMMITTED, so each sees what is committed when it runs.      *)
(* Between any two of them, and between a client's pages, the owner and    *)
(* the viewer go on creating, deleting, sharing and leaving.               *)
(***************************************************************************)
EXTENDS Naturals, FiniteSets, SequencesExt

CONSTANTS
    Owner, Viewers,   \* the users
    Project,          \* the project
    Scans,            \* ids of its scans, in the order the database gives them
    Notes, Home,      \* ids of their notes, each with its scan
    Shared,           \* the scans that are also shared on their own
    None,             \* no role, nothing
    Limit,            \* the page size the client asks for
    MaxTime           \* bound: the last tick of createdAt

ASSUME ReadingAssumption ==
    /\ Scans \subseteq Nat /\ IsFiniteSet(Scans) /\ Shared \subseteq Scans
    /\ Owner \notin Viewers /\ Project \notin Scans
    /\ Home \in [Notes -> Scans] /\ Notes \cap Scans = {} /\ IsFiniteSet(Notes)
    /\ None \notin {"OWNER", "VIEWER"}
    /\ Limit \in Nat \ {0} /\ MaxTime \in Nat

Users == {Owner} \cup Viewers
State == {"unborn", "live", "dead"}

\* A scan's row: createdAt, deletedAt, and whether assetStatus is UPLOADED.  admitted: it
\* was there while the project stood, so that requests about it may have passed the check
\* of their user, which they do not repeat when they write.
Scan == [state : State, at : 0..MaxTime, uploaded : BOOLEAN, admitted : BOOLEAN]

\* An access row, {} where there is none: the owner revokes it, the viewer removes it from
\* their list, and an acceptance clears both.
Access == {{}} \cup {{"granted"} \cup marks : marks \in SUBSET {"revoked", "removed"}}

VARIABLES
    now,       \* the time
    project,   \* the project's row: live or dead
    scan,      \* the rows of the scans
    note,      \* the rows of the notes
    access,    \* the access rows of each viewer, to the project and to scans
    listed,    \* what the deletion of the project has read as live, before its claim
    moved,     \* a scan has left a list since the walk began to read it
    walk       \* a client walking the pages of a list

vars == <<now, project, scan, note, access, listed, moved, walk>>
rows == <<now, project, scan, note, access, listed>>

Live(s) == scan[s].state = "live"

-----------------------------------------------------------------------------
(* Who may read what. *)

\* `accesses: some VIEWER, revokedAt null, deletedAt null'
Sees(u, what) == u \in Viewers /\ access[u][what] = {"granted"}

\* ProjectPermissionService.requireView
ProjectRole(u) ==
    IF project = "dead" THEN None
    ELSE IF u = Owner THEN "OWNER"
    ELSE IF Sees(u, Project) THEN "VIEWER" ELSE None

\* ScanPermissionService.requireView; whoever may open a scan may open its notes.
ScanRole(u, s) ==
    IF ~Live(s) \/ project = "dead" THEN None
    ELSE IF u = Owner THEN "OWNER"
    ELSE IF Sees(u, Project) \/ (s \in Shared /\ Sees(u, s)) THEN "VIEWER" ELSE None

NoteOpens(u, n) == note[n] = "live" /\ ScanRole(u, Home[n]) # None

\* The scans a viewer is told of are those with an uploaded model.
Uploaded == {s \in Scans : Live(s) /\ scan[s].uploaded}

DetailScans(u) ==
    CASE ProjectRole(u) = "OWNER" -> {s \in Scans : Live(s)}
      [] ProjectRole(u) = "VIEWER" -> Uploaded
      [] OTHER -> {}

\* "Shared With Me" keeps what was revoked or deleted, with a status that says so; only
\* what the viewer has removed is gone from it.
SharedStatus(u, what, deleted) ==
    LET revoked == "revoked" \in access[u][what]
    IN  CASE access[u][what] = {} \/ "removed" \in access[u][what] -> "ABSENT"
          [] OTHER ->
               IF deleted THEN IF revoked THEN "DELETED" ELSE "TEMPORARILY_UNAVAILABLE"
               ELSE IF revoked THEN "REVOKED" ELSE "ACTIVE"

SharedProjectOpens(u) == SharedStatus(u, Project, project = "dead") = "ACTIVE"

SharedProjectScans(u) == IF SharedProjectOpens(u) THEN Uploaded ELSE {}

SharedScanOpens(u, s) == SharedStatus(u, s, ~Live(s)) = "ACTIVE"

\* The sync feed reads the project's changes by the access row alone.
FeedOpens(u) == Sees(u, Project)

-----------------------------------------------------------------------------
(* The owner's and the viewers' writes. *)

Init ==
    /\ now = 0
    /\ project = "live"
    /\ scan = [s \in Scans |-> [state |-> "unborn", at |-> 0,
                               uploaded |-> FALSE, admitted |-> FALSE]]
    /\ note = [n \in Notes |-> "unborn"]
    /\ access = [v \in Viewers |-> [w \in {Project} \cup Shared |-> {}]]
    /\ listed = {}
    /\ moved = FALSE
    /\ walk = None

Tick ==
    /\ now < MaxTime
    /\ now' = now + 1
    /\ UNCHANGED <<project, scan, note, access, listed, moved, walk>>

\* The owner is asked for before the insert, which does not look at the project again.
CreateScan(s) ==
    /\ scan[s].state = "unborn"
    /\ scan' = [scan EXCEPT ![s].state = "live", ![s].at = now,
                            ![s].admitted = (project = "live")]
    /\ UNCHANGED <<now, project, note, access, listed, moved, walk>>

\* The owner is asked for before storage is; the write asks for the asset alone.  (It may
\* be an asset inserted past the deletion of its scan.)
CompleteUpload(s) ==
    /\ scan[s].admitted
    /\ scan' = [scan EXCEPT ![s].uploaded = TRUE]
    /\ UNCHANGED <<now, project, note, access, listed, moved, walk>>

\* A session request that read the slot earlier overwrites its completed model.
Reopen(s) ==
    /\ scan[s].admitted /\ scan[s].uploaded
    /\ scan' = [scan EXCEPT ![s].uploaded = FALSE]
    /\ moved' = TRUE
    /\ UNCHANGED <<now, project, note, access, listed, walk>>

\* The transaction has read the scan as live: the note may come after its deletion.
CreateNote(n) ==
    /\ note[n] = "unborn" /\ scan[Home[n]].admitted
    /\ note' = [note EXCEPT ![n] = "live"]
    /\ UNCHANGED <<now, project, scan, access, listed, moved, walk>>

DeleteNote(n) ==
    /\ note[n] = "live"
    /\ note' = [note EXCEPT ![n] = "dead"]
    /\ UNCHANGED <<now, project, scan, access, listed, moved, walk>>

Dead == [state |-> "dead", at |-> 0, uploaded |-> FALSE, admitted |-> TRUE]

\* The claim asks for the revision the notes were read with, and a note moves it.
DeleteScan(s) ==
    /\ scan[s].admitted /\ Live(s)
    /\ scan' = [scan EXCEPT ![s] = Dead]
    /\ note' = [n \in Notes |-> IF Home[n] = s /\ note[n] = "live" THEN "dead" ELSE note[n]]
    /\ moved' = TRUE
    /\ UNCHANGED <<now, project, access, listed, walk>>

\* The deletion of the project reads what is live below it ...
ListForDeletion ==
    /\ project = "live"
    /\ listed' = {s \in Scans : Live(s)} \cup {n \in Notes : note[n] = "live" /\ Live(Home[n])}
    /\ UNCHANGED <<now, project, scan, note, access, moved, walk>>

RevokeAll(v) ==
    [access[v] EXCEPT ![Project] = IF @ = {"granted"} THEN @ \cup {"revoked"} ELSE @]

\* Mutant: the scans of the project are left to themselves.
BugDeleteProject ==
    /\ project = "live"
    /\ project' = "dead"
    /\ access' = [v \in Viewers |-> RevokeAll(v)]
    /\ UNCHANGED <<now, scan, note, listed, moved, walk>>

\* ... and claims its revision, which neither a new scan nor a new note moves, and deletes
\* what it has read.  The accesses to the project are revoked with it, those to its scans
\* are not.  (One granted since they were read stays: an Accept after this step.)
DeleteProject ==
    /\ project = "live"
    /\ project' = "dead"
    /\ scan' = [s \in Scans |-> IF s \in listed THEN Dead ELSE scan[s]]
    /\ note' = [n \in Notes |-> IF n \in listed THEN "dead" ELSE note[n]]
    /\ access' = [v \in Viewers |-> RevokeAll(v)]
    /\ moved' = TRUE
    /\ UNCHANGED <<now, listed, walk>>

\* Mutant: a mark is set on a row that nobody has.
BugMark(v, what, mark) ==
    /\ mark \notin access[v][what]
    /\ access' = [access EXCEPT ![v][what] = @ \cup {mark}]
    /\ UNCHANGED <<now, project, scan, note, listed, moved, walk>>

\* An invitation or link was made while there was something to share; it may be
\* accepted at any later time.
Shareable(what) ==
    \E s \in Scans : what \in {Project, s} /\ (scan[s].uploaded \/ scan[s].state = "dead")

Accept(v, what) ==
    /\ Shareable(what)
    /\ access[v][what] # {"granted"}
    /\ access' = [access EXCEPT ![v][what] = {"granted"}]
    /\ UNCHANGED <<now, project, scan, note, listed, moved, walk>>

\* A row that is not there, or has the mark already, is left as it is.
Mark(v, what, mark) ==
    /\ access[v][what] # {} /\ mark \notin access[v][what]
    /\ access' = [access EXCEPT ![v][what] = @ \cup {mark}]
    /\ UNCHANGED <<now, project, scan, note, listed, moved, walk>>

Revoke(v, what) == Mark(v, what, "revoked")

\* Removing from the list also works on what was revoked or deleted.
Leave(v, what) == Mark(v, what, "removed")

-----------------------------------------------------------------------------
(* A client walking a list. *)

\* What is asked for: the scans of the project, or the notes or the model of a scan.
\* page: the page asked for; got: the rows received; had: those the first
\* page was taken from; total: as last told.
Walk == [user : Users, what : {"scans", "notes", "model"}, of : {Project} \cup Scans,
         ascending : BOOLEAN, role : {"OWNER", "VIEWER"},
         at : {"rows", "count", "told"}, page : Nat \ {0},
         got : SUBSET (Scans \cup Notes), had : SUBSET (Scans \cup Notes),
         total : Nat]

Role(u, what, of) == IF what = "scans" THEN ProjectRole(u) ELSE ScanRole(u, of)

\* Mutant: the notes of a scan, whether or not it is still there.
BugMatches(w) ==
    CASE w.what = "scans" -> IF w.role = "VIEWER" THEN Uploaded ELSE {s \in Scans : Live(s)}
      [] w.what = "notes" -> {n \in Notes : note[n] = "live" /\ Home[n] = w.of}
      [] w.what = "model" -> {s \in Uploaded : s = w.of}

\* The where clause: the role was read before and is not asked for again.
Matches(w) ==
    CASE w.what = "scans" -> IF w.role = "VIEWER" THEN Uploaded ELSE {s \in Scans : Live(s)}
      [] w.what = "notes" -> {n \in Notes : note[n] = "live" /\ Home[n] = w.of /\ Live(w.of)}
      [] w.what = "model" -> {s \in Uploaded : s = w.of}

\* Mutant: no tie-breaker.
BugBefore(w, a, b) ==
    /\ w.what = "scans"
    /\ IF w.ascending THEN scan[a].at < scan[b].at ELSE scan[b].at < scan[a].at

\* orderBy createdAt and then id, in the same direction.  (Notes are ordered by updatedAt,
\* which is not modelled: any order.)
Before(w, a, b) ==
    /\ w.what = "scans"
    /\ LET less(x, y) == \/ scan[x].at < scan[y].at
                         \/ scan[x].at = scan[y].at /\ x < y
       IN  IF w.ascending THEN less(a, b) ELSE less(b, a)

\* The orders in which the database may give the rows.
Orders(w) ==
    {order \in SetToSeqs(Matches(w)) :
        \A i, j \in 1..Len(order) : i < j => ~Before(w, order[j], order[i])}

\* toSkipTake: the positions of a page.
Slice(page) == ((page - 1) * Limit + 1) .. (page * Limit)

\* toPaginationMeta
TotalPages(total) == (total + Limit - 1) \div Limit

Ask(u, what, of, ascending) ==
    /\ walk = None
    /\ Role(u, what, of) # None
    /\ walk' = [user |-> u, what |-> what, of |-> of, ascending |-> ascending,
                role |-> Role(u, what, of), at |-> "rows", page |-> 1,
                got |-> {}, had |-> {}, total |-> 0]
    /\ UNCHANGED <<rows, moved>>

ReadRows ==
    /\ walk # None /\ walk.at = "rows"
    /\ \E order \in Orders(walk) :
         walk' = [walk EXCEPT
                    !.got = @ \cup {order[i] : i \in Slice(walk.page) \cap DOMAIN order},
                    !.had = IF walk.page = 1 /\ walk.what = "scans" THEN Matches(walk) ELSE @,
                    !.at = IF walk.what = "model" THEN "told" ELSE "count"]
    /\ moved' = (moved /\ walk.page # 1)
    /\ UNCHANGED rows

ReadCount ==
    /\ walk # None /\ walk.at = "count"
    /\ walk' = [walk EXCEPT !.total = Cardinality(Matches(walk)), !.at = "told"]
    /\ UNCHANGED <<rows, moved>>

\* Each page is a request of its own, and its role is asked for again.
AskNext ==
    /\ walk # None /\ walk.at = "told" /\ walk.page < TotalPages(walk.total)
    /\ Role(walk.user, walk.what, walk.of) # None
    /\ walk' = [walk EXCEPT !.role = Role(walk.user, walk.what, walk.of),
                            !.page = @ + 1, !.at = "rows"]
    /\ UNCHANGED <<rows, moved>>

\* The client has the last page, is refused the next, or stops.
Stop ==
    /\ walk # None /\ walk.at = "told"
    /\ walk' = None
    /\ UNCHANGED <<rows, moved>>

Next ==
    \/ Tick
    \/ \E s \in Scans : CreateScan(s) \/ CompleteUpload(s) \/ Reopen(s) \/ DeleteScan(s)
    \/ \E n \in Notes : CreateNote(n) \/ DeleteNote(n)
    \/ ListForDeletion \/ DeleteProject
    \/ \E v \in Viewers, what \in {Project} \cup Shared :
          Accept(v, what) \/ Revoke(v, what) \/ Leave(v, what)
    \/ \E u \in Users, ascending \in BOOLEAN : Ask(u, "scans", Project, ascending)
    \/ \E u \in Users, s \in Scans, what \in {"notes", "model"} : Ask(u, what, s, FALSE)
    \/ ReadRows \/ ReadCount \/ AskNext \/ Stop

Spec == Init /\ [][Next]_vars

-----------------------------------------------------------------------------
(* Properties. *)

\* Every variable holds what the program can put in it.
TypeOK ==
    /\ now \in 0..MaxTime
    /\ project \in {"live", "dead"}
    /\ scan \in [Scans -> Scan]
    /\ note \in [Notes -> State]
    /\ access \in [Viewers -> [{Project} \cup Shared -> Access]]
    /\ listed \subseteq Scans \cup Notes
    /\ moved \in BOOLEAN
    /\ walk \in Walk \cup {None}

\* The rule who may see what is written down in several places, one query each, and they
\* agree in every reachable state: "Shared With Me" offers a project exactly to those who
\* may open it as viewers, with the same scans; the sync feed of a standing project is open
\* to the same users; whoever sees a scan in the project may open it, and its notes.  Of a
\* scan "Shared With Me" does not ask for the project, so that it may offer what cannot be
\* opened: only a scan that was created while its project was being deleted, past the
\* moment at which the deletion read what there was to delete.
DoorsAgree ==
    /\ \A v \in Viewers :
         /\ SharedProjectOpens(v) <=> ProjectRole(v) = "VIEWER"
         /\ SharedProjectScans(v) = DetailScans(v)
         /\ \A s \in Shared : SharedScanOpens(v, s) =>
               ScanRole(v, s) = "VIEWER" \/ (project = "dead" /\ s \notin listed)
         /\ project = "live" => (FeedOpens(v) <=> ProjectRole(v) = "VIEWER")
    /\ \A u \in Users : \A s \in DetailScans(u) : ScanRole(u, s) # None
    /\ \A u \in Users, n \in Notes :
         note[n] = "live" /\ ScanRole(u, Home[n]) # None => NoteOpens(u, n)

\* A client that walks to the last page the answers tell of has seen every scan that was
\* listed during the whole walk, in whichever direction and whatever was created, uploaded
\* or shared in between, unless a scan left the list meanwhile, deleted or without its
\* model (which moves the others up by one, past the client).  It needs the tie-breaker, the
\* offsets, the rounding and the total, which is counted after the rows, to be right
\* together.
WalkComplete ==
    walk # None /\ walk.what = "scans" /\ walk.at = "told"
        /\ walk.page >= TotalPages(walk.total)
        /\ ~moved
    => walk.had \subseteq walk.got

\* A list that outlives what it lists never shows a note under a scan that is deleted, not
\* even a note that was itself created past the deletion.
NothingUnderTheDead ==
    [][walk # None /\ walk' # None =>
         \A n \in (walk'.got \ walk.got) \cap Notes : Live(Home[n])]_vars
=============================================================================
