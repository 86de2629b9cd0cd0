---------------------------- MODULE AssetUpload ----------------------------
(***************************************************************************)
(* One (scan, asset type) slot of the scan-asset component: the ScanAsset  *)
(* row, the object in storage under the slot's key, the owner's requests   *)
(* (create session, complete, fail), the client's PUT to the presigned     *)
(* URL, the two jobs that sweep the slot (upload-session expiry and        *)
(* orphan-asset cleanup) and the two deletions that reach it: that of the  *)
(* scan and that of its project.                                           *)
(*                                                                         *)
(* An action is the code between two awaits that another process can       *)
(* interleave with: a read of the database, a call to storage, or a whole  *)
(* transaction (its statements hold the row's lock until the commit).      *)
(* Handlers that end without writing anything (a replayed receipt, a 4xx)  *)
(* are the guards of these actions.                                        *)
(*                                                                         *)
(* buildObjectKey is a function of scan and type, so every session of the  *)
(* slot, old or new, writes the same object.                               *)
(***************************************************************************)
EXTENDS Integers

CONSTANTS
    None,        \* no row, no object, no key
    Requests,    \* requests the API may be serving at one time
    Cleaners,    \* runs of the cleanup job that may overlap
    Keys,        \* Idempotency-Key values clients send
    Sizes,       \* declared sizes (and types) of an upload
    AssetType,   \* the slot's type: "MODEL" or "THUMBNAIL"
    TTL,         \* uploadUrlTtlSeconds
    Grace,       \* graceSeconds of the two jobs
    MaxClock     \* bound: time stops here

NoExpiry == -1   \* uploadUrlExpiresAt is null

Status == {"PENDING", "UPLOADED", "FAILED"}

Row == [id: Nat, status: Status, expiry: Int, rev: Nat, size: Sizes, deleted: BOOLEAN]

\* A row without what AssetLifecycle leaves out.
Outline == [id: Nat, status: Status, rev: Nat, deleted: BOOLEAN]

Change == [op: {"UPSERT", "DELETE"}, id: Nat, rev: Nat]

\* What the project's deletion selects of a live row, if it finds one.
Mark == [id: Nat, rev: Nat]

ASSUME ConstantsOK ==
    /\ AssetType \in {"MODEL", "THUMBNAIL"}
    /\ TTL \in Nat \ {0}
    /\ Grace \in Nat \ {0}
    /\ MaxClock \in Nat
    /\ None \notin Sizes /\ None \notin Keys
    /\ None \notin Nat /\ None \notin Row /\ None \notin Outline /\ None \notin Change
    /\ None \notin Mark

VARIABLES
    clock,       \* the time every process reads
    scanLive,    \* neither the scan nor its project is deleted
    deletion,    \* what the project's deletion has read of the slot
    thumbnail,   \* the scan's thumbnail points at the slot's object
    row,         \* the ScanAsset row, or None
    opened,      \* rows inserted so far; a row's id is its number
    object,      \* the size of the object under the slot's key, or None
    urls,        \* until when each presigned PUT URL given out is good
    receipts,    \* idempotency keys with a committed receipt
    feed,        \* the slot's last sync change, or None
    req,         \* what each request has read and where it stands
    issued,      \* the expiry of the session started last
    expirer,     \* the row the expiry job has selected, or None
    cleaner      \* the candidate each cleanup run is working on

vars == <<clock, scanLive, deletion, thumbnail, row, opened, object, urls, receipts, feed,
          req, issued, expirer, cleaner>>

\* A request that has read a row and has no session to save.
Holding(pc, snap) ==
    [pc |-> pc, key |-> None, size |-> None, until |-> NoExpiry, snap |-> snap]

Idle == Holding("idle", None)

Request == [pc: {"idle", "reuse", "begin", "write", "verify", "mark", "markFailed",
                 "fail", "display"},
            key: Keys \cup {None},
            size: Sizes \cup {None},
            until: Int,
            snap: Row \cup {None}]

Resting == [pc |-> "idle", cand |-> None]

Run == [pc: {"idle", "listed", "erased", "found"}, cand: Row \cup {None}]

Listing == [pc: {"idle", "listed"}, cand: Mark \cup {None}]

(***************************************************************************)
(* The row, the change log and the conditions the queries put on them.     *)
(***************************************************************************)
LiveRow == row # None /\ ~row.deleted

\* Mutant: the queries look for the status an upload under way should have.
BugStuck(x) == x.status = "UPLOADING"

\* No code in src/ ever writes UPLOADING: of the two stuck statuses one occurs.
Stuck(x) == x.status = "PENDING"

\* The cutoff of both jobs: the session ran out more than Grace ago.
PastCutoff(x) == x.expiry # NoExpiry /\ x.expiry <= clock - Grace

Overdue == LiveRow /\ Stuck(row) /\ PastCutoff(row)

BugGuarded(id) == row # None /\ row.id = id

\* The condition of updateGuarded(id, [PENDING, UPLOADING], ...). It does not
\* look at deletedAt, nor at the session the caller read.
Guarded(id) == row # None /\ row.id = id /\ Stuck(row)

BugSave(new) ==
    /\ row' = new
    /\ feed' = [op |-> "UPSERT", id |-> new.id, rev |-> IF row = None THEN 1 ELSE row.rev]

\* Write the row and, in the same transaction, its change-log entry.
Save(new) ==
    /\ row' = new
    /\ feed' = [op |-> "UPSERT", id |-> new.id, rev |-> new.rev]

BugSettled(status, expiry, size) ==
    [id |-> row.id, status |-> IF status = "FAILED" THEN "EXPIRED" ELSE status,
     expiry |-> expiry, rev |-> row.rev + 1, size |-> size, deleted |-> row.deleted]

\* The row as the next write leaves it: its identity stays, its revision moves.
Settled(status, expiry, size) ==
    [id |-> row.id, status |-> status, expiry |-> expiry, rev |-> row.rev + 1,
     size |-> size, deleted |-> row.deleted]

Step(r, pc) == req' = [req EXCEPT ![r].pc = pc]

End(r) == req' = [req EXCEPT ![r] = Idle]

Init ==
    /\ clock = 0
    /\ scanLive = TRUE
    /\ deletion = Resting
    /\ thumbnail = FALSE
    /\ object = None
    /\ receipts = {}
    /\ req = [r \in Requests |-> Idle]
    /\ expirer = None
    /\ cleaner = [c \in Cleaners |-> Resting]
    /\ \/ /\ row = None                          \* scan created without uploads
          /\ opened = 0
          /\ issued = 0
          /\ urls = {}
          /\ feed = None
       \/ \E s \in Sizes :                       \* scan created with this upload
          /\ row = [id |-> 1, status |-> "PENDING", expiry |-> TTL, rev |-> 1,
                    size |-> s, deleted |-> FALSE]
          /\ opened = 1
          /\ issued = TTL
          /\ urls = {TTL}
          /\ feed = [op |-> "UPSERT", id |-> 1, rev |-> 1]

(***************************************************************************)
(* Create upload session: read, then write in one transaction.             *)
(***************************************************************************)

\* A key with a receipt replays it and a completed model answers 409. An active
\* session is reused as it stands; otherwise the slot gets a new expiry. The clock
\* counts milliseconds: no two sessions of a slot start in the same one.
CreateRead(r, k, s) ==
    LET seen   == IF LiveRow THEN row ELSE None
        active == seen # None /\ Stuck(seen) /\ seen.expiry > clock
    IN  /\ req[r].pc = "idle"
        /\ k \notin receipts
        /\ ~(AssetType = "MODEL" /\ LiveRow /\ row.status = "UPLOADED")
        /\ IF active
           THEN UNCHANGED issued
           ELSE /\ clock + TTL > issued
                /\ clock + TTL + Grace <= MaxClock
                /\ issued' = clock + TTL
        /\ req' = [req EXCEPT ![r] =
                     [pc    |-> IF active THEN "reuse" ELSE "begin",
                      key   |-> k,
                      size  |-> s,
                      until |-> IF active THEN seen.expiry ELSE clock + TTL,
                      snap  |-> seen]]
        /\ UNCHANGED <<clock, scanLive, deletion, thumbnail, row, opened, object, urls,
                       receipts, feed, expirer, cleaner>>

\* The receipt and the response, whose URL outlives the request.
Respond(r) ==
    /\ receipts' = receipts \cup {req[r].key}
    /\ urls' = urls \cup {u \in {req[r].until} : u > clock}

\* Reuse: the transaction only stores the receipt, and checks nothing again.
CreateReuse(r) ==
    /\ req[r].pc = "reuse"
    /\ req[r].key \notin receipts
    /\ Respond(r)
    /\ End(r)
    /\ UNCHANGED <<clock, scanLive, deletion, thumbnail, row, opened, object, feed,
                   issued, expirer, cleaner>>

\* The transaction reads the scan (without locking it) ...
CreateBegin(r) ==
    /\ req[r].pc = "begin"
    /\ scanLive
    /\ req[r].key \notin receipts
    /\ Step(r, "write")
    /\ UNCHANGED <<clock, scanLive, deletion, thumbnail, row, opened, object, urls,
                   receipts, feed, issued, expirer, cleaner>>

\* ... and inserts the row, or overwrites the one read earlier if it still has
\* that id. The status of the row at that moment is not a condition.
CreateWrite(r) ==
    LET was     == req[r].snap
        session == [id |-> opened + 1, status |-> "PENDING", expiry |-> req[r].until,
                    rev |-> 1, size |-> req[r].size, deleted |-> FALSE]
    IN  /\ req[r].pc = "write"
        /\ req[r].key \notin receipts
        /\ \/ /\ was = None /\ row = None
              /\ Save(session)
              /\ opened' = opened + 1
           \/ /\ was # None /\ row # None /\ row.id = was.id
              /\ Save(Settled("PENDING", req[r].until, req[r].size))
              /\ UNCHANGED opened
        /\ Respond(r)
        /\ End(r)
        /\ UNCHANGED <<clock, scanLive, deletion, thumbnail, object, issued, expirer,
                       cleaner>>

(***************************************************************************)
(* Complete and fail: read the row, ask storage, write under the guard.    *)
(***************************************************************************)

\* A settled thumbnail re-applies its display URL; a settled model is answered
\* as it is; a FAILED row whose session has not run out goes on to storage.
CompleteRead(r) ==
    /\ req[r].pc = "idle"
    /\ LiveRow
    /\ IF row.status = "UPLOADED"
       THEN AssetType = "THUMBNAIL"
       ELSE row.expiry > clock
    /\ req' = [req EXCEPT ![r] =
                 Holding(IF row.status = "UPLOADED" THEN "display" ELSE "verify", row)]
    /\ UNCHANGED <<clock, scanLive, deletion, thumbnail, row, opened, object, urls,
                   receipts, feed, issued, expirer, cleaner>>

\* statObject: the object is there and is what the session read declared.
Verified(r) == object = req[r].snap.size

VerifyObject(r) ==
    /\ req[r].pc = "verify"
    /\ Step(r, IF Verified(r) THEN "mark" ELSE "markFailed")
    /\ UNCHANGED <<clock, scanLive, deletion, thumbnail, row, opened, object, urls,
                   receipts, feed, issued, expirer, cleaner>>

\* A guarded write that matched nothing reads the row again: if another request
\* settled it as UPLOADED, the answer is that of a repeated completion.
Reread(r) ==
    /\ UNCHANGED <<thumbnail, row, feed>>
    /\ IF LiveRow /\ row.id = req[r].snap.id /\ row.status = "UPLOADED"
          /\ AssetType = "THUMBNAIL"
       THEN Step(r, "display")
       ELSE End(r)

\* The request may carry the size to record (data.sizeBytes ?? asset.sizeBytes).
CompleteMark(r) ==
    /\ req[r].pc = "mark"
    /\ IF Guarded(req[r].snap.id)
       THEN /\ \E s \in Sizes : Save(Settled("UPLOADED", NoExpiry, s))
            /\ thumbnail' = (thumbnail \/ AssetType = "THUMBNAIL")
            /\ End(r)
       ELSE Reread(r)
    /\ UNCHANGED <<clock, scanLive, deletion, opened, object, urls, receipts, issued,
                   expirer, cleaner>>

CompleteMarkFailed(r) ==
    /\ req[r].pc = "markFailed"
    /\ IF Guarded(req[r].snap.id)
       THEN /\ Save(Settled("FAILED", row.expiry, row.size))
            /\ UNCHANGED thumbnail
            /\ End(r)
       ELSE Reread(r)
    /\ UNCHANGED <<clock, scanLive, deletion, opened, object, urls, receipts, issued,
                   expirer, cleaner>>

\* updateThumbnail, on a scan that is still there.
PersistThumbnail(r) ==
    /\ req[r].pc = "display"
    /\ thumbnail' = (thumbnail \/ scanLive)
    /\ End(r)
    /\ UNCHANGED <<clock, scanLive, deletion, row, opened, object, urls, receipts, feed,
                   issued, expirer, cleaner>>

FailRead(r) ==
    /\ req[r].pc = "idle"
    /\ LiveRow
    /\ row.status # "UPLOADED"
    /\ req' = [req EXCEPT ![r] = Holding("fail", row)]
    /\ UNCHANGED <<clock, scanLive, deletion, thumbnail, row, opened, object, urls,
                   receipts, feed, issued, expirer, cleaner>>

FailMark(r) ==
    /\ req[r].pc = "fail"
    /\ IF Guarded(req[r].snap.id)
       THEN Save(Settled("FAILED", row.expiry, row.size))
       ELSE UNCHANGED <<row, feed>>
    /\ End(r)
    /\ UNCHANGED <<clock, scanLive, deletion, thumbnail, opened, object, urls, receipts,
                   issued, expirer, cleaner>>

\* Storage is unavailable, a unique key or a missing row aborts the transaction,
\* the scan is gone, or the server dies: the request ends with nothing written.
Abandon(r) ==
    /\ req[r].pc # "idle"
    /\ End(r)
    /\ UNCHANGED <<clock, scanLive, deletion, thumbnail, row, opened, object, urls,
                   receipts, feed, issued, expirer, cleaner>>

(***************************************************************************)
(* The world around: the client's upload, the two deletions, time.         *)
(***************************************************************************)
\* The URL is signed for the key and a time, not for what is sent.
Put(u) ==
    /\ u > clock
    /\ \E s \in Sizes : object' = s
    /\ UNCHANGED <<clock, scanLive, deletion, thumbnail, row, opened, urls, receipts,
                   feed, req, issued, expirer, cleaner>>

\* The row with deletedAt set, as a deletion leaves it.
Entombed == [Settled(row.status, row.expiry, row.size) EXCEPT !.deleted = TRUE]

\* Deleting the scan entombs the row. What it read is what it finds: every write of
\* a row moves the scan's revision, which the deletion claims.
DeleteScan ==
    /\ scanLive
    /\ scanLive' = FALSE
    /\ IF LiveRow
       THEN /\ row' = Entombed
            /\ feed' = [op |-> "DELETE", id |-> row.id, rev |-> row.rev + 1]
       ELSE UNCHANGED <<row, feed>>
    /\ UNCHANGED <<clock, deletion, thumbnail, opened, object, urls, receipts, req,
                   issued, expirer, cleaner>>

\* The project's deletion reads the tree under the project ...
ListForDeletion ==
    /\ deletion.pc = "idle"
    /\ scanLive
    /\ deletion' = [pc   |-> "listed",
                    cand |-> IF LiveRow THEN [id |-> row.id, rev |-> row.rev] ELSE None]
    /\ UNCHANGED <<clock, scanLive, thumbnail, row, opened, object, urls, receipts,
                   feed, req, issued, expirer, cleaner>>

\* Rows are written by the id that was read, deleted in between or not.
Reached == row # None /\ row.id = deletion.cand.id

\* ... and claims the project's revision only, which no write of an asset moves. The
\* tombstone is one revision on from the one read, whatever the row has come to.
DeleteProject ==
    /\ deletion.pc = "listed"
    /\ scanLive' = FALSE
    /\ deletion' = Resting
    /\ IF deletion.cand # None
       THEN /\ row' = IF Reached THEN Entombed ELSE row
            /\ feed' = [op |-> "DELETE", id |-> deletion.cand.id,
                         rev |-> deletion.cand.rev + 1]
       ELSE UNCHANGED <<row, feed>>
    /\ UNCHANGED <<clock, thumbnail, opened, object, urls, receipts, req, issued,
                   expirer, cleaner>>

Tick ==
    /\ clock < MaxClock
    /\ clock' = clock + 1
    /\ urls' = {u \in urls : u > clock + 1}
    /\ UNCHANGED <<scanLive, deletion, thumbnail, row, opened, object, receipts, feed,
                   req, issued, expirer, cleaner>>

(***************************************************************************)
(* Upload-session expiry job: select the row, then fail it under the guard.*)
(***************************************************************************)
ExpirySelects == Overdue

ExpirySelect ==
    /\ expirer = None
    /\ ExpirySelects
    /\ expirer' = row.id
    /\ UNCHANGED <<clock, scanLive, deletion, thumbnail, row, opened, object, urls,
                   receipts, feed, req, issued, cleaner>>

ExpiryFail ==
    /\ expirer # None
    /\ IF Guarded(expirer)
       THEN Save(Settled("FAILED", row.expiry, row.size))
       ELSE UNCHANGED <<row, feed>>
    /\ expirer' = None
    /\ UNCHANGED <<clock, scanLive, deletion, thumbnail, opened, object, urls, receipts,
                   req, issued, cleaner>>

ExpiryDies ==
    /\ expirer # None
    /\ expirer' = None
    /\ UNCHANGED <<clock, scanLive, deletion, thumbnail, row, opened, object, urls,
                   receipts, feed, req, issued, cleaner>>

(***************************************************************************)
(* Orphan-asset cleanup job: select a candidate, delete its object, and    *)
(* only then remove the row, if it still is what was selected.             *)
(***************************************************************************)
BugIsOrphan == Overdue

IsOrphan == LiveRow /\ (row.status = "FAILED" \/ (Stuck(row) /\ PastCutoff(row)))

CleanupSelect(c) ==
    /\ cleaner[c].pc = "idle"
    /\ IsOrphan
    /\ cleaner' = [cleaner EXCEPT ![c] = [pc |-> "listed", cand |-> row]]
    /\ UNCHANGED <<clock, scanLive, deletion, thumbnail, row, opened, object, urls,
                   receipts, feed, req, issued, expirer>>

\* The object goes first, whatever the row has become since it was selected.
CleanupErase(c) ==
    /\ cleaner[c].pc = "listed"
    /\ object' = None
    /\ cleaner' = [cleaner EXCEPT ![c].pc = "erased"]
    /\ UNCHANGED <<clock, scanLive, deletion, thumbnail, row, opened, urls, receipts,
                   feed, req, issued, expirer>>

BugClaimable(c) ==
    LiveRow /\ row.id = cleaner[c].cand.id /\ row.status = cleaner[c].cand.status

\* The condition of deleteOrphanAsset: the row has the status and the expiry it
\* was selected under.
Claimable(c) ==
    /\ LiveRow
    /\ row.id = cleaner[c].cand.id
    /\ row.status = cleaner[c].cand.status
    /\ row.expiry = cleaner[c].cand.expiry

\* deleteOrphanAsset reads the row and its revision ...
CleanupFind(c) ==
    /\ cleaner[c].pc = "erased"
    /\ cleaner' = [cleaner EXCEPT ![c] = IF Claimable(c)
                                         THEN [pc |-> "found", cand |-> row]
                                         ELSE Resting]
    /\ UNCHANGED <<clock, scanLive, deletion, thumbnail, row, opened, object, urls,
                   receipts, feed, req, issued, expirer>>

BugTombstoneRevision(c) == cleaner[c].cand.rev

TombstoneRevision(c) == cleaner[c].cand.rev + 1

\* ... and removes it under the same condition, with a tombstone one revision on.
CleanupClaim(c) ==
    /\ cleaner[c].pc = "found"
    /\ IF Claimable(c)
       THEN /\ row' = None
            /\ feed' = [op |-> "DELETE", id |-> row.id, rev |-> TombstoneRevision(c)]
       ELSE UNCHANGED <<row, feed>>
    /\ cleaner' = [cleaner EXCEPT ![c] = Resting]
    /\ UNCHANGED <<clock, scanLive, deletion, thumbnail, opened, object, urls, receipts,
                   req, issued, expirer>>

\* Storage refuses (the row is kept for the next run) or the run dies.
CleanupSkips(c) ==
    /\ cleaner[c].pc # "idle"
    /\ cleaner' = [cleaner EXCEPT ![c] = Resting]
    /\ UNCHANGED <<clock, scanLive, deletion, thumbnail, row, opened, object, urls,
                   receipts, feed, req, issued, expirer>>

Create(r)   == (\E k \in Keys, s \in Sizes : CreateRead(r, k, s))
                  \/ CreateReuse(r) \/ CreateBegin(r) \/ CreateWrite(r)
Complete(r) == CompleteRead(r) \/ VerifyObject(r) \/ CompleteMark(r)
                  \/ CompleteMarkFailed(r) \/ PersistThumbnail(r)
FailUpload(r) == FailRead(r) \/ FailMark(r)
Expiry      == ExpirySelect \/ ExpiryFail \/ ExpiryDies
Cleanup(c)  == CleanupSelect(c) \/ CleanupErase(c) \/ CleanupFind(c) \/ CleanupClaim(c)
                  \/ CleanupSkips(c)
Deletions   == DeleteScan \/ ListForDeletion \/ DeleteProject
World       == (\E u \in urls : Put(u)) \/ Deletions \/ Tick

Next ==
    \/ \E r \in Requests : Create(r) \/ Complete(r) \/ FailUpload(r) \/ Abandon(r)
    \/ Expiry
    \/ \E c \in Cleaners : Cleanup(c)
    \/ World

Spec == Init /\ [][Next]_vars

\* An external scheduler starts the jobs again and again, so a run that dies or
\* finds storage down is followed by another; clients owe nothing.
Fairness ==
    /\ WF_vars(Tick)
    /\ WF_vars(ExpirySelect)
    /\ SF_vars(ExpiryFail)
    /\ \A c \in Cleaners : /\ WF_vars(CleanupSelect(c))
                           /\ SF_vars(CleanupErase(c))
                           /\ SF_vars(CleanupFind(c))
                           /\ SF_vars(CleanupClaim(c))

FairSpec == Spec /\ Fairness

-----------------------------------------------------------------------------
(***************************************************************************)
(* Properties.                                                             *)
(***************************************************************************)

\* Every variable holds what the program can put in it.
TypeOK ==
    /\ clock \in 0..MaxClock
    /\ scanLive \in BOOLEAN
    /\ deletion \in Listing
    /\ thumbnail \in BOOLEAN
    /\ row \in Row \cup {None}
    /\ opened \in Nat
    /\ object \in Sizes \cup {None}
    /\ urls \subseteq Int
    /\ receipts \subseteq Keys
    /\ feed \in Change \cup {None}
    /\ req \in [Requests -> Request]
    /\ issued \in Nat
    /\ expirer \in Nat \cup {None}
    /\ cleaner \in [Cleaners -> Run]

\* The slot's row only moves as AssetLifecycle allows: settled once per session
\* and never from a settled state, whatever requests and jobs race; removed only
\* while it holds no upload; every write counted by the revision.
Lifecycle == INSTANCE AssetLifecycle
    WITH asset <- IF row = None THEN None
                  ELSE [id |-> row.id, status |-> row.status, rev |-> row.rev,
                        deleted |-> row.deleted],
         opened <- opened

LifecycleSpec == Lifecycle!Spec

\* The cleanup claim: a row disappears only if it is a candidate at that very
\* moment. A session renewed after it was selected is never taken away.
CleanupSparesSessions == [][row # None /\ row' = None => IsOrphan]_vars

\* As long as the scan stands, the last change in the log is the state of the
\* slot: an UPSERT at the row's revision, or a DELETE once the row is gone.
LogShowsSlot ==
    scanLive =>
        IF row # None
        THEN feed = [op |-> "UPSERT", id |-> row.id, rev |-> row.rev]
        ELSE opened = 0 \/ (feed # None /\ feed.op = "DELETE" /\ feed.id = opened)

\* The project's deletion writes of a row that was written or removed since it was read.
Outrun ==
    /\ deletion.pc = "listed" /\ deletion.cand # None
    /\ deletion' # deletion
    /\ row = None \/ deletion.cand # [id |-> row.id, rev |-> row.rev]

\* The log goes back in one way only. Each change of the slot is about the newest row
\* and, for the same row, carries a higher revision than the change before it, the
\* tombstones of the cleanup job and of a scan's deletion too, and writes to a row
\* already deleted; all but the tombstone of a project's deletion that was outrun.
LogMovesForward ==
    [][feed # None /\ feed' # feed /\ ~Outrun =>
          /\ feed'.id >= feed.id
          /\ feed'.id = feed.id => feed'.rev > feed.rev]_vars

\* An UPLOADED asset, for which download URLs are issued, has its object.
UploadedHasObject == LiveRow /\ row.status = "UPLOADED" => object # None

(***************************************************************************)
(* The inductive invariant behind the safety properties.                   *)
(***************************************************************************)

\* A request about to write holds what it is going to write with.
RequestsHold ==
    \A r \in Requests :
        /\ req[r].pc \in {"reuse", "begin", "write"} =>
              req[r].key # None /\ req[r].size # None
        /\ req[r].pc \in {"verify", "mark", "markFailed", "fail"} => req[r].snap # None

\* A cleanup run holds a row that was, and by its own status and expiry still is,
\* an orphan: no session is renewed under an expiry that has passed.
CandidatesOrphaned ==
    \A c \in Cleaners :
        cleaner[c].pc # "idle" =>
            /\ cleaner[c].cand # None
            /\ \/ cleaner[c].cand.status = "FAILED"
               \/ Stuck(cleaner[c].cand) /\ PastCutoff(cleaner[c].cand)

\* The row in the slot is the one inserted last.
NewestRow == row # None => row.id = opened

Inv == TypeOK /\ RequestsHold /\ CandidatesOrphaned /\ NewestRow /\ LogShowsSlot

\* A request holding the expiry of a session it is about to write.
Writing(r) == req[r].pc \in {"begin", "write"}

\* Every session has an expiry of its own, so that the expiry a cleanup run found
\* tells the session it found from every session that is or will be written.
SessionsDiffer ==
    /\ row # None => row.expiry <= issued
    /\ \A r \in Requests : Writing(r) =>
          /\ req[r].until \in 0..issued
          /\ row # None => row.expiry # req[r].until
          /\ \A q \in Requests : Writing(q) /\ q # r => req[q].until # req[r].until
    /\ \A c \in Cleaners : cleaner[c].pc = "found" =>
          /\ cleaner[c].cand.expiry <= issued
          /\ \A r \in Requests : Writing(r) => req[r].until # cleaner[c].cand.expiry

\* A row that was written since a cleanup run found it can no longer be claimed.
FoundRows ==
    \A c \in Cleaners :
        LET cand == cleaner[c].cand
        IN  cleaner[c].pc = "found" =>
              /\ cand.id <= opened
              /\ row # None /\ row.id = cand.id =>
                    \/ row.rev = cand.rev /\ row.status = cand.status
                    \/ row.deleted
                    \/ row.expiry # cand.expiry
                    \/ row.status = "UPLOADED"
                    \/ row.status = "FAILED" /\ Stuck(cand)

\* No change tells a revision the row in the slot has not had.
FeedMatches ==
    feed # None =>
        /\ feed.id <= opened
        /\ row # None /\ row.id = feed.id => feed.rev <= row.rev

\* What the project's deletion read is a row the slot has had, not a later one.
ListedRow ==
    deletion.cand # None =>
        /\ deletion.cand.id <= opened
        /\ row # None /\ row.id = deletion.cand.id => deletion.cand.rev <= row.rev

LogInv == SessionsDiffer /\ FoundRows /\ FeedMatches /\ ListedRow

\* Without cleanup runs nothing takes an object away, so that a request past its
\* verification may rely on it.
ObjectStays ==
    Cleaners = {} =>
        /\ row # None /\ row.status = "UPLOADED" => object # None
        /\ \A r \in Requests : req[r].pc = "mark" => object # None

\* A session that ran out does not stay open for ever: one job fails it or the other takes
\* its row away, whatever their runs come to and whoever renews it in between.
OverdueSessionsSettle ==
    (LiveRow /\ row.status = "PENDING" /\ PastCutoff(row)) ~>
        ~(LiveRow /\ row.status = "PENDING" /\ PastCutoff(row))

\* A failed upload does not keep its row: it is renewed or cleaned up.
FailedRowsGo == (LiveRow /\ row.status = "FAILED") ~> ~(LiveRow /\ row.status = "FAILED")
=============================================================================
