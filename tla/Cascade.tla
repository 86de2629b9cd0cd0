-------------------------------- MODULE Cascade --------------------------------
(***************************************************************************)
(* The project tree and the transactions that change it: a project, its    *)
(* scans, and the notes and model assets of the scans (prisma-project-,    *)
(* prisma-scan-, prisma-note- and prisma-scan-asset-repository, with the   *)
(* rollups of prisma-sync-writer).  A transaction runs statement by        *)
(* statement under READ COMMITTED: a read sees what is committed and the   *)
(* transaction's own writes, a write first waits for the row's lock and    *)
(* keeps it, and everything written becomes visible when it commits.  A    *)
(* change of a child ends by rolling the scan up, which increments the     *)
(* scan's revision, and then the project, which does not increment the     *)
(* project's.  A deletion lists the live descendants, claims its own row   *)
(* by revision and then deletes the rows it has listed.                    *)
(*                                                                         *)
(* The order of each resource's changes in the log is the order of the     *)
(* commits, since every one of them is written with the resource's row     *)
(* locked: `last' keeps the last change all readers of the project see.    *)
(* The owner's conflicts have rows of their own, locked like the others:   *)
(* a stale request opens its resource's conflict, an edit or deletion that *)
(* has claimed its row resolves it, and an acknowledgement of the feed     *)
(* resolves conflicts before it writes the project.  What a conflict's     *)
(* sender is told is the subject of SyncFeed.                              *)
(***************************************************************************)
EXTENDS Naturals, FiniteSets

CONSTANTS
    Project,      \* the row of the project
    Scans,        \* the rows of its scans
    Notes,        \* the rows of their notes
    Models,       \* the rows of their model assets
    Home,         \* the scan of each note and model
    Unborn,       \* the rows that are not yet inserted at first
    Contested,    \* the rows with an unresolved conflict at first
    Txs,          \* the transactions that may run at a time
    MaxRev        \* bound: the revision at which a row is no longer edited

ASSUME TreeAssumption ==
    /\ Project \notin Scans \cup Notes \cup Models
    /\ Scans \cap (Notes \cup Models) = {} /\ Notes \cap Models = {}
    /\ Home \in [Notes \cup Models -> Scans]
    /\ Unborn \subseteq Scans \cup Notes \cup Models
    /\ Contested \subseteq {Project} \cup Scans \cup Notes
    /\ \A r \in Notes \cup Models : Home[r] \in Unborn => r \in Unborn
    /\ \A m, k \in Models : Home[m] = Home[k] => m = k
    /\ MaxRev \in Nat

Children == Notes \cup Models
Rows == {Project} \cup Scans \cup Children

Status == {"PENDING", "UPLOADED", "FAILED"}
Shown == Status \cup {"NONE"}           \* Scan.assetStatus, from the model's status
Readiness == {"SYNCED", "FAILED", "PENDING"}

VARIABLES
    state,      \* of a row: unborn, live, dead
    rev,        \* its revision
    status,     \* of a model
    shows,      \* of a scan: assetStatus (syncStatus is computed with it)
    ready,      \* syncStatus of the project
    last,       \* the last change of each resource
    open,       \* the rows whose conflict of the owner is unresolved
    tx          \* what each transaction is doing

vars == <<state, rev, status, shows, ready, last, open, tx>>

Creates == {"note.create", "scan.create"}
Deletes == {"note.delete", "scan.delete", "project.delete"}
Edits == {"note.update", "scan.update", "project.update", "asset.mark", "acknowledge"}

\* What a change says: a tombstone has no data.
Change == [op : {"UPSERT"}, rev : Nat, says : Shown \cup Readiness]
            \cup [op : {"DELETE"}, rev : Nat]
Upsert(n, what) == [op |-> "UPSERT", rev |-> n, says |-> what]
Tombstone(n) == [op |-> "DELETE", rev |-> n]
Nothing == [op |-> "NOTHING"]

\* A transaction: its operation on the row `on', with the status it gives a model; the
\* revision asked for; the revisions of the descendants it has listed (0 for other rows);
\* the rows locked, and those whose conflict is locked to be resolved; what the rollups
\* have read; and the statement it is at.
Idle == [op |-> "none"]
Transaction ==
    [op : Creates \cup Deletes \cup Edits, on : Rows, to : Shown, expects : Nat,
     listed : [Rows -> Nat], holds : SUBSET Rows, marks : SUBSET Rows,
     model : Shown, ready : Readiness,
     at : {"mark", "list", "claim", "conflict", "take", "resolve", "model", "scan",
           "project", "commit"}]

Running(t) == tx[t] # Idle
Listed(t) == {r \in Rows : tx[t].listed[r] > 0}
Live(r) == state[r] = "live"
Free(t, r) == \A u \in Txs \ {t} : Running(u) => r \notin tx[u].holds
Unmarked(t, r) == \A u \in Txs \ {t} : Running(u) => r \notin tx[u].marks
ModelsOf(s) == {m \in Models : Home[m] = s}
Move(t, at) == tx' = [tx EXCEPT ![t].at = at]

-----------------------------------------------------------------------------
(* What a transaction sees of its own writes. *)

Inserted(t) ==
    IF tx[t].op \notin Creates THEN {}
    ELSE {tx[t].on} \cup (IF tx[t].to = "PENDING" THEN ModelsOf(tx[t].on) ELSE {})

Deleted(t) == IF tx[t].op \in Deletes THEN {tx[t].on} \cup Listed(t) ELSE {}

SeesLive(t, r) == (Live(r) \/ r \in Inserted(t)) /\ r \notin Deleted(t)

SeesStatus(t, m) == IF m = tx[t].on \/ m \in Inserted(t) THEN tx[t].to ELSE status[m]

\* Mutant: a scan without a model is not told apart.
BugShows(t, s) ==
    IF \E m \in ModelsOf(s) : SeesLive(t, m)
    THEN SeesStatus(t, CHOOSE m \in ModelsOf(s) : SeesLive(t, m))
    ELSE "UNKNOWN"

\* The status of the live model of a scan; a scan without one shows NONE.
Shows(t, s) ==
    IF \E m \in ModelsOf(s) : SeesLive(t, m)
    THEN SeesStatus(t, CHOOSE m \in ModelsOf(s) : SeesLive(t, m))
    ELSE "NONE"

\* A failed model is told first, then one that is missing or not yet uploaded.
SeesReady(t) ==
    LET all == {Shows(t, s) : s \in {s \in Scans : SeesLive(t, s)}}
    IN  CASE "FAILED" \in all -> "FAILED"
          [] all \cap {"NONE", "PENDING"} # {} /\ "FAILED" \notin all -> "PENDING"
          [] OTHER -> "SYNCED"

-----------------------------------------------------------------------------
(* The transactions. *)

Init ==
    /\ state = [r \in Rows |-> IF r \in Unborn THEN "unborn" ELSE "live"]
    /\ rev = [r \in Rows |-> IF r \in Unborn THEN 0 ELSE 1]
    /\ status = [m \in Models |-> "PENDING"]
    /\ shows = [s \in Scans |-> IF ModelsOf(s) \ Unborn = {} THEN "NONE" ELSE "PENDING"]
    /\ ready = IF Scans \subseteq Unborn THEN "SYNCED" ELSE "PENDING"
    /\ last = [r \in Rows |->
                  IF r \in Unborn THEN Nothing
                  ELSE Upsert(1, CASE r \in Scans -> shows[r] [] r = Project -> ready
                                   [] r \in Models -> "PENDING" [] OTHER -> "NONE")]
    /\ open = Contested
    /\ tx = [t \in Txs |-> Idle]

Tables == <<state, rev, status, shows, ready, last>>
Others == <<state, rev, status, shows, ready, last, open>>

\* Mutant: the note's edit touches the scan before the note.
BugBegin(t, op, r, to, at) ==
    /\ ~Running(t) /\ rev[r] < MaxRev
    /\ op = "note.update" => Free(t, Home[r])
    /\ tx' = [tx EXCEPT ![t] =
                [op |-> op, on |-> r, to |-> to, expects |-> rev[r],
                 listed |-> [x \in Rows |-> 0],
                 holds |-> CASE op \in Creates -> {r} [] op = "note.update" -> {Home[r]}
                             [] OTHER -> {},
                 marks |-> {}, model |-> "NONE", ready |-> "SYNCED", at |-> at]]
    /\ UNCHANGED Others

\* The first statement of a transaction; the request asks for the revision of the row.
Begin(t, op, r, to, at) ==
    /\ ~Running(t) /\ rev[r] < MaxRev
    /\ tx' = [tx EXCEPT ![t] =
                [op |-> op, on |-> r, to |-> to, expects |-> rev[r],
                 listed |-> [x \in Rows |-> 0],
                 holds |-> IF op \in Creates THEN {r} ELSE {},
                 marks |-> {}, model |-> "NONE", ready |-> "SYNCED", at |-> at]]
    /\ UNCHANGED Others

NotYet(r) == state[r] = "unborn" /\ \A u \in Txs : Running(u) => tx[u].on # r

\* The transaction asks whether the scan is live, without locking it, and inserts.
BeginNoteCreate(t, n) ==
    /\ NotYet(n) /\ Live(Home[n]) /\ Live(Project)
    /\ Begin(t, "note.create", n, "NONE", "model")

\* The permission was checked before; the uploads the scan is created with are inserted.
BeginScanCreate(t, s, to) ==
    /\ NotYet(s) /\ Live(Project)
    /\ Begin(t, "scan.create", s, to, "project")

BeginNoteEdit(t, n, op) == Live(n) /\ Begin(t, op, n, "NONE", "claim")

BeginAssetMark(t, m, to) ==
    /\ Live(m) /\ Live(Home[m]) /\ Live(Project)
    /\ Begin(t, "asset.mark", m, to, "claim")

BeginUpdate(t, r) ==
    /\ Live(r)
    /\ Begin(t, IF r = Project THEN "project.update" ELSE "scan.update", r, "NONE", "claim")

BeginDelete(t, r) ==
    /\ Live(r)
    /\ Begin(t, IF r = Project THEN "project.delete" ELSE "scan.delete", r, "NONE", "list")

\* A page of the feed is acknowledged, and some conflict was found unresolved.
BeginAcknowledge(t) == open # {} /\ Begin(t, "acknowledge", Project, "NONE", "mark")

\* One statement resolves the conflicts the acknowledged sequence reaches, any of those
\* unresolved, and locks them one after the other.
Mark(t, r) ==
    /\ Running(t) /\ tx[t].at = "mark" /\ r \in open \ tx[t].marks /\ Unmarked(t, r)
    /\ tx' = [tx EXCEPT ![t].marks = @ \cup {r}]
    /\ UNCHANGED Others

\* Then the project is read, and updated by id alone if it is live and all of its scans
\* have their model; otherwise the conflicts are all that it writes.
LookReady(t) ==
    /\ Running(t) /\ tx[t].at = "mark"
    /\ IF Live(Project) /\ SeesReady(t) = "SYNCED"
       THEN Move(t, "claim") /\ UNCHANGED Others
       ELSE /\ open' = open \ tx[t].marks
            /\ tx' = [tx EXCEPT ![t] = Idle]
            /\ UNCHANGED Tables

\* The live descendants of the row, by statements of their own after that of the row.
Descendants(r) ==
    LET scans == {s \in Scans : Live(s) /\ r \in {s, Project}}
    IN  (scans \ {r}) \cup {c \in Children : Live(c) /\ Home[c] \in scans \cup {r}}

List(t) ==
    /\ Running(t) /\ tx[t].at = "list"
    /\ tx' = [tx EXCEPT ![t].listed = [r \in Rows |-> IF r \in Descendants(tx[t].on)
                                                       THEN rev[r] ELSE 0],
                        ![t].at = "claim"]
    /\ UNCHANGED Others

\* Mutant: a deletion does not ask for the revision.
BugClaimable(t) ==
    LET r == tx[t].on IN
    CASE tx[t].op = "acknowledge" -> TRUE
      [] tx[t].op = "asset.mark" -> status[r] = "PENDING"
      [] tx[t].op = "note.update" -> /\ Live(r) /\ rev[r] = tx[t].expects
                                     /\ Live(Home[r]) /\ Live(Project)
      [] tx[t].op = "scan.update" -> Live(r) /\ rev[r] = tx[t].expects /\ Live(Project)
      [] OTHER -> Live(r)

\* The where of the guarded write of the transaction's own row.
Claimable(t) ==
    LET r == tx[t].on IN
    CASE tx[t].op = "acknowledge" -> TRUE
      [] tx[t].op = "asset.mark" -> status[r] = "PENDING"
      [] tx[t].op = "note.update" -> /\ Live(r) /\ rev[r] = tx[t].expects
                                     /\ Live(Home[r]) /\ Live(Project)
      [] tx[t].op = "scan.update" -> Live(r) /\ rev[r] = tx[t].expects /\ Live(Project)
      [] OTHER -> Live(r) /\ rev[r] = tx[t].expects

\* Where a transaction goes on once its own row is written.
AfterClaim(t) ==
    CASE tx[t].op = "acknowledge" -> "commit"
      [] tx[t].op = "asset.mark" -> "model"
      [] tx[t].op \in {"scan.delete", "project.delete"} -> "take"
      [] OTHER -> "resolve"

AtClaim(t) == Running(t) /\ tx[t].at = "claim" /\ Free(t, tx[t].on)

Claim(t) ==
    /\ AtClaim(t) /\ Claimable(t)
    /\ tx' = [tx EXCEPT ![t].holds = @ \cup {tx[t].on}, ![t].at = AfterClaim(t)]
    /\ UNCHANGED Others

\* An answer that a model has been marked, or a row deleted, before.
Answered(t) == tx[t].op = "asset.mark" \/ (tx[t].op \in Deletes /\ ~Live(tx[t].on))

Refuse(t) ==
    /\ AtClaim(t) /\ ~Claimable(t)
    /\ IF Answered(t) THEN tx' = [tx EXCEPT ![t] = Idle] ELSE Move(t, "conflict")
    /\ UNCHANGED Others

\* A stale request opens its row's conflict, and is answered.
RecordConflict(t) ==
    /\ Running(t) /\ tx[t].at = "conflict" /\ Unmarked(t, tx[t].on)
    /\ open' = open \cup {tx[t].on}
    /\ tx' = [tx EXCEPT ![t] = Idle]
    /\ UNCHANGED Tables

\* Where a transaction goes on once it has resolved its row's conflict.
AfterResolve(t) ==
    CASE tx[t].on \in Children -> "model"
      [] tx[t].on \in Scans -> "project"
      [] OTHER -> "commit"

\* The conflict of the row, if there is one, is resolved: its row is locked too.
Resolve(t) ==
    /\ Running(t) /\ tx[t].at = "resolve" /\ Unmarked(t, tx[t].on)
    /\ tx' = [tx EXCEPT ![t].marks = @ \cup ({tx[t].on} \cap open), ![t].at = AfterResolve(t)]
    /\ UNCHANGED Others

\* A deletion writes the rows it has listed, by id alone: the notes, the assets, the scans.
Left(t) ==
    LET left == Listed(t) \ tx[t].holds
    IN  CASE left \cap Notes # {} -> left \cap Notes
          [] left \cap Notes = {} /\ left \cap Models # {} -> left \cap Models
          [] OTHER -> left

Take(t, r) ==
    /\ Running(t) /\ tx[t].at = "take" /\ r \in Left(t) /\ Free(t, r)
    /\ tx' = [tx EXCEPT ![t].holds = @ \cup {r}]
    /\ UNCHANGED Others

TakenAll(t) ==
    /\ Running(t) /\ tx[t].at = "take" /\ Left(t) = {}
    /\ Move(t, "resolve")
    /\ UNCHANGED Others

\* The rollup of the scan reads the model's status, and then writes the scan by id alone.
ReadModel(t) ==
    /\ Running(t) /\ tx[t].at = "model"
    /\ tx' = [tx EXCEPT ![t].model = Shows(t, Home[tx[t].on]), ![t].at = "scan"]
    /\ UNCHANGED Others

RollUpScan(t) ==
    /\ Running(t) /\ tx[t].at = "scan" /\ Free(t, Home[tx[t].on])
    /\ tx' = [tx EXCEPT ![t].holds = @ \cup {Home[tx[t].on]}, ![t].at = "project"]
    /\ UNCHANGED Others

\* The rollup of the project reads the models of its live scans.
ReadScans(t) ==
    /\ Running(t) /\ tx[t].at = "project"
    /\ tx' = [tx EXCEPT ![t].ready = SeesReady(t), ![t].at = "commit"]
    /\ UNCHANGED Others

\* Mutant: a new note does not roll its scan up.
BugRolled(t) ==
    IF tx[t].on \in Children /\ tx[t].op # "note.create" THEN {Home[tx[t].on]} ELSE {}

\* What a transaction has written when it commits.
Rolled(t) == IF tx[t].on \in Children THEN {Home[tx[t].on]} ELSE {}

Written(t) == {tx[t].on} \cup Inserted(t) \cup Listed(t) \cup Rolled(t)

\* Mutant: the rollup of a scan does not increment its revision.
BugNewRev(t, r) == IF r \in Rolled(t) THEN rev[r] ELSE rev[r] + 1

NewRev(t, r) == rev[r] + 1

NewShows(t, s) ==
    CASE s \in Rolled(t) -> tx[t].model
      [] s \in Inserted(t) -> tx[t].to
      [] OTHER -> shows[s]

\* The revision of a tombstone: the one asked for, or the one listed, and one more.
Buried(t, r) == IF r = tx[t].on THEN tx[t].expects + 1 ELSE tx[t].listed[r] + 1

\* The last statement writes the project, its syncStatus only, and the changes.
Commit(t) ==
    /\ Running(t) /\ tx[t].at = "commit" /\ Free(t, Project)
    /\ state' = [r \in Rows |-> CASE r \in Deleted(t) -> "dead"
                                  [] r \in Inserted(t) -> "live"
                                  [] OTHER -> state[r]]
    /\ rev' = [r \in Rows |-> IF r \in Written(t) THEN NewRev(t, r) ELSE rev[r]]
    /\ status' = [m \in Models |-> SeesStatus(t, m)]
    /\ shows' = [s \in Scans |-> NewShows(t, s)]
    /\ ready' = IF tx[t].op \in {"project.update", "project.delete"} THEN ready ELSE tx[t].ready
    /\ last' = [r \in Rows |->
                  CASE r \in Deleted(t) -> Tombstone(Buried(t, r))
                    [] r \in (Written(t) \cup {Project}) \ Deleted(t) ->
                           Upsert(rev'[r], CASE r \in Scans -> shows'[r]
                                             [] r = Project -> ready'
                                             [] r \in Models -> status'[r]
                                             [] OTHER -> "NONE")
                    [] OTHER -> last[r]]
    /\ open' = open \ tx[t].marks
    /\ tx' = [tx EXCEPT ![t] = Idle]

\* A transaction is rolled back: its process dies, it takes too long, or it is the victim
\* the database chooses among transactions that wait for one another.
Abort(t) ==
    /\ Running(t)
    /\ tx' = [tx EXCEPT ![t] = Idle]
    /\ UNCHANGED Others

Begins(t) ==
    \/ \E n \in Notes : \/ BeginNoteCreate(t, n)
                        \/ \E op \in {"note.update", "note.delete"} : BeginNoteEdit(t, n, op)
    \/ \E m \in Models, to \in {"UPLOADED", "FAILED"} : BeginAssetMark(t, m, to)
    \/ \E s \in Scans, to \in {"NONE", "PENDING"} : BeginScanCreate(t, s, to)
    \/ \E r \in Scans \cup {Project} : BeginUpdate(t, r) \/ BeginDelete(t, r)
    \/ BeginAcknowledge(t)

Next ==
    \E t \in Txs :
       \/ Begins(t)
       \/ LookReady(t) \/ List(t) \/ Claim(t) \/ Refuse(t) \/ RecordConflict(t)
       \/ \E r \in Rows : Take(t, r) \/ Mark(t, r)
       \/ TakenAll(t) \/ Resolve(t) \/ ReadModel(t) \/ RollUpScan(t) \/ ReadScans(t)
       \/ Commit(t) \/ Abort(t)

Spec == Init /\ [][Next]_vars

-----------------------------------------------------------------------------
(* Properties. *)

\* The type of every variable.
TypeOK ==
    /\ state \in [Rows -> {"unborn", "live", "dead"}]
    /\ rev \in [Rows -> Nat]
    /\ status \in [Models -> Shown]
    /\ shows \in [Scans -> Shown]
    /\ ready \in Readiness
    /\ last \in [Rows -> Change \cup {Nothing}]
    /\ open \subseteq {Project} \cup Scans \cup Notes
    /\ tx \in [Txs -> Transaction \cup {Idle}]

\* As long as the project stands, every change of a scan, note or asset carries a larger
\* revision than the one before it, by which readers tell an old change from a new one.
RevisionsGrow ==
    [][Live(Project)' =>
          \A r \in Rows \ {Project} :
             last'[r] # last[r] /\ last[r] # Nothing => last'[r].rev > last[r].rev]_vars

\* As long as the project stands, the last change of a deleted note is a tombstone at the
\* revision of its row, though a scan's deletion writes notes it has read before it
\* locked anything: every change of a note moves the revision the deletion claims.
NotesBuried ==
    Live(Project) =>
       \A n \in Notes : state[n] = "dead" => last[n] = Tombstone(rev[n])

\* A scan's deletion takes with it every note and asset that is live when it commits.
ChildrenDieWithScan ==
    [][\A s \in Scans, c \in Children :
          (/\ Live(Project) /\ Live(Project)' /\ Home[c] = s
           /\ Live(s) /\ state'[s] = "dead" /\ Live(c)) => state'[c] = "dead"]_vars

\* The rows a transaction waits for.
Wants(t) ==
    CASE ~Running(t) -> {}
      [] Running(t) /\ tx[t].at = "claim" -> {tx[t].on}
      [] Running(t) /\ tx[t].at = "take" -> Left(t)
      [] Running(t) /\ tx[t].at = "scan" -> {Home[tx[t].on]}
      [] Running(t) /\ tx[t].at = "commit" -> {Project}
      [] OTHER -> {}

\* The conflicts a transaction waits for.
WantsMark(t) ==
    CASE ~Running(t) -> {}
      [] Running(t) /\ tx[t].at = "mark" -> open \ tx[t].marks
      [] Running(t) /\ tx[t].at \in {"conflict", "resolve"} -> {tx[t].on}
      [] OTHER -> {}

WaitsFor(t, u) ==
    /\ t # u /\ Running(u)
    /\ Wants(t) \cap tx[u].holds # {} \/ WantsMark(t) \cap tx[u].marks # {}

Circle(C) == C # {} /\ \A t \in C : \E u \in C : WaitsFor(t, u)

\* Transactions wait for one another only with a deletion of a scan or of the project, or an
\* acknowledgement, among them.  All others lock a child, its scan and the project in this
\* order and a conflict only after its row; a deletion locks downwards, and an
\* acknowledgement locks conflicts first and the project after them.
EditsDoNotDeadlock ==
    \A C \in SUBSET Txs :
       Circle(C) => \E t \in C : tx[t].op \in {"scan.delete", "project.delete", "acknowledge"}

\* What document/api-conventions.md:757 says: a scan shows UPLOADED when its model's
\* upload is completed (and FAILED when it has failed).
ScanShowsModel ==
    \A m \in Models : Live(m) /\ Live(Home[m]) => shows[Home[m]] = status[m]
=============================================================================
