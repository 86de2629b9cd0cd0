# RoomScan backend: TLA+ models and proofs

This directory holds a formal model of the RoomScan backend (Express, Prisma,
PostgreSQL, S3-compatible storage): TLA+ modules translated from the code under
`src/src/`, TLC configurations that check them on small instances, and theorems
that the TLA+ proof system checks for every instance. `PROJECT.json` indexes all
of it: components, runs, the code lines of every definition, the divergences
found, the hazards, and the theorems.

## The system

A user owns **projects**; a project has **scans**; a scan has at most one
**asset** of each type (MODEL, THUMBNAIL) and any number of **notes**. Other
users see a project or a scan through an **access**, granted by accepting an
**invitation** or a **share link**. Every write is also a row of an append-only
**sync log** that clients read with cursors, and creates are made safe to retry by
**idempotency receipts**. PostgreSQL is the only shared state between API
processes and the three jobs an external scheduler starts; transactions run at
its default isolation, READ COMMITTED, so a row read is not a row locked. Bytes
live in object storage, which clients write to directly through presigned URLs.

| Component | State it keeps | Operations | Talks to | What is hard |
|---|---|---|---|---|
| scan-asset uploads (`modules/scan-asset`, `prisma-scan-asset-repository`) | `ScanAsset` row: status, expiry, size, revision, deletedAt | create session, complete, fail, list, download URL | storage, scans, sync writer, idempotency | a handler reads, waits for storage, then writes under a guard that may no longer hold |
| orphan-asset cleanup (`jobs/orphan-asset-cleanup.job`) | none | select candidates, delete object, claim row | storage, asset rows | runs overlap with requests and with each other; object and row cannot go together |
| upload-session expiry (`jobs/upload-session-expiry.job`) | none | select overdue, fail each | asset rows | selection is stale when it writes |
| scans, projects, notes (`modules/{scan,project,note}`) | rows with revision and tombstone; status rollups | create, guarded update, soft delete of a subtree, rollup | sync writer, idempotency, permissions | cascades over rows others insert or change; lock order; conflict branches that re-read |
| sync writer (`prisma-sync-writer`) | `SyncChange` log, `SyncConflict` ledger | append change, record or resolve conflict, rollups, bootstrap | every writer | numbers are given at the insert and seen at the commit |
| sync feed (`modules/sync`, `prisma-sync-repository`) | none beyond the log; the client holds the cursor | snapshot pages, incremental pages, acknowledge, status | log, ledger | cursors race with commits; acknowledgement in two steps |
| idempotency (`common/idempotency`, `prisma-idempotency`) | receipts | lookup, execute | every create | the same key twice at once, a lost response, an insert that waits behind another |
| sharing (`modules/share`, `shared-projects`, `shared-scans`) | invitations, links, accesses | create, resend, accept, decline, revoke, remove | mail, sync writer | five ways to settle one invitation; checks made before the write |
| invitation expiry (`jobs/invitation-expiry.job`) | none | revoke expired | invitations | races with accept and resend |
| auth (`modules/auth`, `prisma-refresh-token-repository`, the jose issuer and verifiers) | refresh tokens | sign in, rotate | users | two refreshes with one token; lost response; a process that dies between two statements |
| users (`prisma-user-repository`) | user rows, public ids | upsert at sign-in | – | a drawn id that is taken, two first sign-ins at once |
| the way of a request (`app.ts`, the routers, `common/middleware`) | the limiters' counters, in the process | limit, authenticate, validate, handle, map errors | every service | the order of the stack, errors a router does not know |
| reading (permission services, `viewableProjectWhere` and its kin, `common/pagination`) | none | detail, lists, "Shared With Me", visible changes | rows of all components | a rule written down once per query; pages into a list that changes |
| mail | none | hand over the mail of an invitation | after the commit of its creation | a retry, a crash after the commit |
| crypto, config, OpenAPI, landing page, seeds, server start | none | – | – | not modelled: cryptography, static data, wiring |

### What makes each component correct

- **Uploads and their jobs.** A session is settled once; a settled row is not
  reopened by a race; a row goes only while it holds nothing; bytes are there when a
  row says so; every write of the row is in the log, in order; nothing stays pending
  for ever.
- **Sync feed.** A client that pages the log ends with what the server has: no change
  behind its cursor is missing, the changes of one row arrive in the order of its
  revisions, a tombstone stays the last word, a conflict is resolved only for a client
  that has been shown the refresh, and is resolved eventually.
- **Tree of projects, scans, notes, assets.** A deletion takes with it what is live below
  the deleted node; the last change of what it takes is a tombstone with its final
  revision; revisions of a resource only grow; a rollup agrees with the rows it sums up;
  transactions that edit do not wait for each other in a circle, over rows or conflicts.
- **Sharing.** An invitation is settled once, by one of accept, decline, revoke and
  expiry; an access exists only on the strength of an invitation or link valid when it
  was granted; a viewer is told of every access granted or ended, in order.
- **Idempotency.** A key's work is done at most once, with its receipt in one commit; no
  request is told that it conflicts with itself, and every request ends.
- **Sessions.** A session has one live refresh token; each is exchanged once; a public
  id stays with its user.
- **The way of a request.** Every error a handler throws has a status; a limiter of one
  route counts only callers who are somebody.
- **Reading.** All queries that decide who may see what agree; a client that walks a
  list to its end misses nothing; no list shows what hangs under a deleted scan.

## Plan

| Order | Module | Models | State |
|---|---|---|---|
| 1 | `AssetLifecycle` | abstract: what the upload component promises of a slot | done |
| 2 | `AssetUpload` | one (scan, type) slot: requests, storage, both jobs, the deletions of scan and project; implements 1 | done |
| 3 | `AssetUploadProofs` | its theorems, with those about the log | done |
| 4 | `SyncFeed` | log, guarded writes, writes by id, conflict ledger, devices | done |
| 5 | `SyncFeedProofs` | type correctness, the order of edits, paging, acknowledgements | done |
| 6 | `InvitationLifecycle` | abstract: an invitation is sent once and settled once | done |
| 7 | `Sharing` | invitations, links and accesses of one project or scan; implements 6 | done |
| 8 | `SharingProofs` | its theorems | done |
| 9 | `Cascade` | project, scans, notes and models with row locks: edits, deletions of a subtree, inserts beside them, both rollups, the locks of conflicts | done |
| 10 | `CascadeProofs` | type correctness, the order of locks, the tree | done |
| 11 | `CreateOnce` | abstract: a key creates once, and its claim stays | done |
| 12 | `Idempotency` | any number of keys and requests: lookups, unique indexes, receipt, crash, mail; implements 11 | done |
| 13 | `IdempotencyProofs` | its theorems | done |
| 14 | `SessionLifecycle` | abstract: a session goes on from token to token | done |
| 15 | `Sessions` | sign-in and refresh; implements 14 | done |
| 16 | `Gateway` | the stack of middleware and the routes, composed with 15 | done |
| 17 | `SessionsProofs`, `GatewayProofs` | their theorems | done |
| 18 | `Reading` | who may see what, the lists and their pages | done |
| 19 | `ReadingProofs` | its theorems | done |

Each `MC` module gives one of these its instance and the bounds that belong to the
instance only.

The modules share no variables, except that `Gateway` extends `Sessions`. What one takes
from another: `SyncFeed` takes as given that a write's row, change and conflict commit
together, which `AssetUpload` and `Cascade` model at the writer; `Cascade` takes of a
completed upload only its guarded update (`AssetUpload` has the rest) and of a conflict
only that its row is locked, opened and resolved (what its sender is told is in
`SyncFeed`); `Reading` takes accesses as `Sharing` leaves them, and lets a note or an
upload appear under what was deleted before, as `Cascade` and `AssetUpload` do. Runs are
kept to two minutes or so: two requests per race, since every hazard found in the code is
between two actors, plus the jobs and the clients.

What is left to do: tokens in `Sharing`; the bootstrap of a new viewer in the sync feed.
Every invariant a passing run checks is also proved.

## Uploads: `AssetLifecycle`, `AssetUpload`

`AssetUpload` is one (scan, asset type) slot. An action is what the code does between
two awaits that another process can interleave with: a read, a call to storage, or a
whole transaction.

| State | Code |
|---|---|
| `row`, `opened` | the `ScanAsset` of the slot (`@@unique([scanId, assetType])`); its identity is the number of rows inserted so far |
| `scanLive`, `thumbnail` | `Scan.deletedAt`, `Scan.thumbnailUrl` |
| `deletion` | a project's `softDelete` between its read of the tree and its claim, with the id and revision it read of the row |
| `object`, `urls` | the object under the slot's key (`buildObjectKey` depends on scan and type alone) and the presigned URLs given out |
| `receipts` | `IdempotencyReceipt` rows of session requests |
| `feed` | the last `SyncChange` of the slot |
| `req[r]` | a request in `createUploadSessionIdempotently`, `completeUpload` or `failUpload`, with what it has read |
| `expirer`, `cleaner[c]` | a run of each job, with the row it selected |
| `clock`, `issued` | time, and the expiry given to the last session |

| Actions | Code |
|---|---|
| `CreateRead`, `CreateReuse`, `CreateBegin`, `CreateWrite` | read the slot, sign a URL, save in a transaction: answer from the receipt, return the active session, or insert or overwrite the row |
| `CompleteRead`, `VerifyObject`, `CompleteMark`, `CompleteMarkFailed`, `PersistThumbnail` | read, ask storage, guarded update to UPLOADED or FAILED, thumbnail |
| `FailRead`, `FailMark` | the client's failure report |
| `Abandon` | a request that throws or dies |
| `Put`, `Tick` | the client's upload, time |
| `DeleteScan` | the scan's cascade as the slot meets it: what the transaction read still holds when the scan's revision is claimed |
| `ListForDeletion`, `DeleteProject` | the project's: what it read may be outrun, since it claims the project's revision only; it writes by id and entombs at the revision read and one more |
| `ExpirySelect`, `ExpiryFail`, `ExpiryDies` | `upload-session-expiry.job` |
| `CleanupSelect`, `CleanupErase`, `CleanupFind`, `CleanupClaim`, `CleanupSkips` | `orphan-asset-cleanup.job` |

`AssetLifecycle` says what a reader of the row may rely on: it is opened, renewed,
settled from PENDING only, entombed or discarded, never discarded while UPLOADED or a
tombstone, and every write moves the revision by one. The mapping forgets everything
but the row and `opened`.

| Run | Properties | Shows |
|---|---|---|
| `upload_safety` | `TypeOK`, `LogShowsSlot`, `LifecycleSpec`, `CleanupSparesSessions`, `LogMovesForward` | two requests, a cleanup run, the expiry job and both deletions racing for a MODEL slot |
| `upload_jobs` | `FailedRowsGo`, `OverdueSessionsSettle` | FAILED rows go and overdue sessions are settled, although runs die and storage refuses |
| `upload_dangling` (violation) | `UploadedHasObject` | see Findings; `ObjectsKept` proves it where no cleanup runs |

`LogMovesForward` excepts one write, `Outrun`: the tombstone of a project's deletion whose
row was written or removed after it was read. It happens (see Known departures; without the
exception TLC refutes the property). The property shows that no other change, of any of the
writers, goes back, and that changes after it go on from the row.

*Bounds.* Two requests (one beside the cleanup run in `upload_jobs`), one cleanup run, two
keys, one size, TTL and grace of one tick, a clock of three or four ticks: enough for a
session to be opened, to expire, to be selected, renewed and to expire again while the
selection is still held. In `upload_safety` the project's deletion is over once the clock
is past one (`EarlyDeletion`): it is outrun within the first two sessions already. The
theorems have no such bound. `MaxClock` stops time; two sessions of one slot never start
in the same millisecond (`issued`), because the code tells sessions apart by their expiry
and nothing rules the coincidence out; it is in the list of hazards. The UPLOADING status
is written by no code and does not occur.

*Fairness.* Time passes; both jobs are started again and again by a scheduler, so
selection is weakly fair and each later step strongly fair: a run may die or be
refused, not every one at the same point. Clients and storage owe nothing.
*Deadlock* is not checked: at `MaxClock`, with the scan deleted, nothing needs to move.

## Sync feed: `SyncFeed`

One owner's resources, write transactions and devices. A resource is a note, a scan or the
project (`Project`, 0 if it is not among them). A transaction is cut where
READ COMMITTED lets others in: each statement sees what is committed when it runs,
a guarded write waits for the transaction holding the row and then looks again, and
a change's number is taken at its insert and seen at the commit.

| State | Code |
|---|---|
| `rows`, `locks` | committed revision and `deletedAt` of a project, scan or note; rows an open transaction has written |
| `last`, `log` | the `sync_changes` id sequence (never rolled back) and the committed rows |
| `ledger` | `SyncConflict.refreshChangeId` of the unresolved conflict of a resource, 0 if none |
| `txn[w]` | an open `$transaction` of `create`, `update`/`#updateOwned`, `softDelete`/`delete`, or one below the resource that rolls it up |
| `dev[d]` | a client's cursor and the pull it has under way in `sync.service` |

| Actions | Code |
|---|---|
| `Create`, `Request` | insert; PATCH or DELETE with any revision the row has had |
| `Look`, `ClaimWins`, `ClaimLoses`, `Relook` | the read before, the guarded `updateMany`, and the read after it failed (a note update has none) |
| `Report`, `Append`, `CommitWrite`, `CommitConflict`, `Abort` | the refresh of a lost write, the insert of the change, the commit with the conflict recorded or resolved, a rollback |
| `SnapshotMark`, `SnapshotPage` | `#snapshot`: watermark, pages by resource, hand-over to the incremental cursor |
| `Rollup`, `Touch` | `refreshScanRollup`, `refreshProjectRollup`: the row was live when it was read, and is then written by id; a scan's revision counts it, the project's does not (`Count`) |
| `Pull`, `AckResolve`, `AckProject`, `AckTouch`, `AckLook`, `AckReread`, `AckAppend`, `AckCommit` | `acknowledge`: list outside the transaction, resolve, mark the project synced (by id, if it was read live and ready), copy each row, commit |
| `Mark`, `Page` | the watermark and the page of `#incremental` |
| `Drop`, `DropSnapshot` | a pull whose answer is lost; the device asks again with its old cursor |

| Run | Properties | Shows |
|---|---|---|
| `sync_feed` | `TypeOK`, `EditsInOrder`, `OnlyLateChangesSkipped`, `AcksWhatWasShown` | two transactions on a note and its project, a device paging one at a time and acknowledging |
| `sync_settles` | `ConflictsSettle` | every conflict is resolved for a device that keeps pulling |
| `sync_tombstone` (violation) | `TombstoneStays` | see Findings |

`EditsInOrder` says what the log guarantees although the project and scans are also
written by id: the order of changes is that of the revisions, the last of them tells the
row's revision, and there is one deletion exactly if the row is deleted. That the deletion
is the last change is claimed of notes only, which nobody writes by id; of the project and of
scans it is false (see Known departures). Whether the project is ready when it
is rolled up or acknowledged is left open here: either answer is followed.

*Bounds.* Two resources: a note, because the conflict branches of notes differ from the
others', and the project, because it is written by id and its roll-ups repeat a revision;
a scan differs from it in that its roll-ups count, which the theorems cover; two
transactions, since a race is over one row; one device, as devices share nothing but the
ledger; a page of one change, so every boundary between pages occurs; no new write once
`MaxSeq` numbers are out (transactions under way and acknowledgements may still take some;
here `MaxSeq` is 4); and once three are out, open transactions are on one resource
(`OneRow`). The liveness run has the project alone and `MaxSeq = 3`: a row, a later write,
and a conflict with its copies.

`OnlyLateChangesSkipped` is what paging does guarantee: it names the one way a change
can be lost (its transaction was open when a watermark was read beyond its number)
and shows there is no other (the promise without that exception does not hold, see
Known departures). The history in `dev[d].got` and `dev[d].open` records ids only, for these
properties; no guard reads it.

*Fairness.* An open transaction ends, by Prisma's timeout if by nothing else. Devices
go on pulling; a statement that waits for a row is served when its turn comes (`SF` of
`AckResolve` and `AckTouch`), and from some time on a device loses no more pulls:
without that no client need ever get an answer.
That writers stop at `MaxSeq` matters to `ConflictsSettle`: a client that answered each
conflict with another stale write would have a new one for ever.
*Deadlock* is not checked: when the log is full and devices are fresh nothing is owed.

## Sharing: `InvitationLifecycle`, `Sharing`

`Sharing` is one project or scan (`scope`, fixed at the start) and who may view it. A
request is cut at its awaits: it looks at a row and checks it, may look at its user's
access, and then writes in one statement or transaction.

| State | Code |
|---|---|
| `inv`, `link` | `Invitation` and `ShareLink` rows; the recipient of an invitation is a user or, for an email address, `Anyone` who holds the link |
| `access` | per user the `ProjectAccess` or `ScanAccess` row: its revision, `revokedAt`, `deletedAt`; a scan's has no revision (0 here) |
| `told` | the last `PROJECT_ACCESS` change targeted at the user |
| `live` | `deletedAt` of what is shared, or of the project around it |
| `req[r]` | a request of `share.service`, `shared-projects.service` or `shared-scans.service`, with what it has read |
| `deleter` | a project's `softDelete` between its read of the accesses and its claim |

| Actions | Code |
|---|---|
| `CreateLook`, `CreateInsert` | owner and clock, then one transaction: expired invitations of the recipient give way, the partial unique index admits one that is open |
| `ResendLook`, `ResendWrite`, `RevokeLook`, `RevokeWrite` | read, check, update guarded by the status |
| `AcceptLook`, `AcceptCheck`, `Accept` | read and check, no access yet, then claim, upsert of the access and changes in one transaction |
| `DeclineLook`, `DeclineCheck`, `Decline` | the same reads, update guarded by the status |
| `ExpireInvitations` | `invitation-expiry.job`, a single update |
| `CreateLink`, `RevokeLink`, `JoinLook`, `JoinCheck`, `Join` | share links; the grant looks at the link no more |
| `ExpelLook`, `Expel`, `LeaveLook`, `Leave` | the owner ends an access under `revokedAt: null`, the viewer under the revision read |
| `DeleteLook`, `DeleteProject`, `DeleteFails`, `DeleteScan` | the deletion as the accesses meet it |
| `Drop`, `Tick` | a request that is refused or dies, time |

`InvitationLifecycle` keeps of an invitation its recipient, status and acceptor: sent
once, settled once from PENDING, accepted by nobody it is not addressed to, one open for
each recipient. A resend and the clock are stutters.

| Run | Properties | Shows |
|---|---|---|
| `sharing` | `TypeOK`, `LogShowsAccess`, `LifecycleSpec`, `GrantsAreWarranted` | two requests of any kind beside the job and the deletion |

*Bounds.* Two users, two invitations, one link, two requests; one tick, with a lifetime
of two and a TTL of one, so that a resend made early and written late shortens the life
of an invitation somebody is about to accept. `MaxRev` keeps users from joining through
a link again and again. `MCSharing` adds three bounds for the size of the state space: in
one behaviour invitations are used or links, only one of the users becomes a viewer, and
a scan has one invitation.
The theorems have none of these. No fairness is assumed. *Deadlock* is not checked: what
has been deleted stays so.

Tokens are left out: a request holds an invitation, not the token of one. What `Sharing`
therefore does not show is that the token a resend replaced still accepts, if the row was
read before the resend; it is in the list of hazards.

## The tree: `Cascade`

A project, its scans, and the notes and model assets of the scans, with the owner's
conflicts about them and the transactions that change them, statement by statement. A read
sees what is committed and the transaction's own writes; a write first waits for the row's
lock and keeps it to the end; what was written is seen at the commit.

| State | Code |
|---|---|
| `state`, `rev` | `deletedAt` (or not yet inserted) and `revision` of every row |
| `status`, `shows`, `ready` | `ScanAsset.status` of a model, `Scan.assetStatus`, `Project.syncStatus` (`Scan.syncStatus` is computed with `assetStatus`) |
| `last` | the last `SyncChange` of a resource that all readers of the project see |
| `open` | the rows about which the owner has an unresolved `SyncConflict` |
| `tx[t]` | a transaction: its operation, the revision asked for, the descendants it has listed with their revisions, the rows (`holds`) and conflicts (`marks`) it has locked, what its rollups have read, and its next statement |

| Actions | Code |
|---|---|
| `BeginNoteCreate`, `BeginScanCreate` | the insert after a look at the parent that locks nothing |
| `BeginNoteEdit`, `BeginUpdate`, `BeginAssetMark`, `BeginDelete` | PATCH, DELETE and the completion or failure of an upload, up to the guarded write |
| `List` | a deletion reads its live descendants |
| `Claim`, `Refuse` | the guarded `updateMany` of the transaction's own row, once it has the row's lock |
| `RecordConflict`, `Resolve` | `upsertSyncConflict` after a lost claim, `resolveSyncConflict` after a claim that was won (a deletion of a subtree: after the subtree) |
| `BeginAcknowledge`, `Mark`, `LookReady` | `acknowledge`: the conflicts are locked by one `updateMany`, then the project is read, and updated by id if it is live and ready (by `Claim`, which asks for nothing here) |
| `Take`, `TakenAll` | a deletion writes what it has listed, by id alone: notes, assets, scans |
| `ReadModel`, `RollUpScan`, `ReadScans`, `Commit` | `refreshScanRollup` and `refreshProjectRollup`: read, then write by id; the project last, then the commit |
| `Abort` | a rollback: the process dies, the transaction takes too long, or the database chooses it as the victim of a deadlock |

| Run | Properties | Shows |
|---|---|---|
| `cascade` | `TypeOK`, `NotesBuried`, `EditsDoNotDeadlock`, `ChildrenDieWithScan`, `RevisionsGrow` | two transactions of any kind on one tree |
| `cascade_rollup` (violation) | `ScanShowsModel` | see Findings |

`NotesBuried` is what makes a cascade that locks nothing when it reads come out right:
every change of a note increments the revision of its scan, so a deletion that has listed
a note's old revision fails its claim of the scan. `RevisionsGrow`, `ChildrenDieWithScan`
and `NotesBuried` speak of a project that stands: a project's deletion asks only for the
project's revision, which its children do not increment, and then a child that commits
later rolls up what is deleted (see Known departures).

`EditsDoNotDeadlock` says of every circle of waiting transactions, over rows and conflicts
alike, that a deletion of a scan or of the project is in it, or an acknowledgement. Both
exceptions happen: an acknowledgement locks conflicts and then the project, a PATCH of
the project the project and then its conflict. A request that waited for a row
and then lost keeps no lock here, where PostgreSQL may keep the row it has rechecked: it goes
on to that row's conflict and nothing else, which an edit, too, asks for only while it
holds the row.

*Bounds.* One scan with a note, a note to be made and a model, one scan to be made, two
transactions: with fewer children one of a deletion's three groups is missing, and a third
transaction adds waiting only. A row is edited up to `MaxRev = 2` and a scan rolled up to
revision 4, or 3 while a conflict is unresolved (`FewRollups`): enough for a stale request
and for a rollup on either side of a deletion. The project has a conflict at first
(`Contested`); one may be open at a time, of the project or a note (`FewConflicts`), which
is enough for a PATCH and an acknowledgement to wait for each other. `CascadeProofs` has
none of these bounds. *Deadlock* in TLC's sense is not checked (everything may be
deleted); deadlock of the database is `EditsDoNotDeadlock`. `deleteOrphanAsset` and
`saveUploadSession` are in `AssetUpload`, not here.

## Sessions and the way of a request: `SessionLifecycle`, `Sessions`, `Gateway`

`Sessions` cuts sign-in and refresh at their awaits; `Gateway` puts them behind the
stack of middleware of `app.ts`, with the routes of all modules.

| State | Code |
|---|---|
| `publicId` | `User.publicId`, unique; no id, no user |
| `token` | the `RefreshToken` rows by `jti`: owner, revoked or not, when issued; and, kept for the properties, the sign-in they go back to |
| `given` | tokens that have reached a client |
| `req[r]` | a request in `signInWithApple` or `refresh`, with the pair it has issued |
| `hits`, `call[r]` | the counters of `express-rate-limit`, in the process; the request's route, the middleware it still has to pass, its token and user |

| Actions | Code |
|---|---|
| `SignIn`, `Upsert`, `Collide` | Apple's token is verified; `upsertAppleUser`, with another id drawn on a collision |
| `Issue`, `SaveToken` | `issueTokens`, `saveToken` |
| `Refresh`, `Rotate`, `Refuse` | the token is verified; both rows in one transaction, guarded by the row |
| `Answer`, `Lose`, `Crash` | the client gets its tokens; a request, an answer or the whole process is lost |
| `Arrive`, `Count`, `Authenticate`, `Enter`, `Respond`, `Reject`, `Leave` | a request passes the stack of its route and its handler answers |
| `Tick`, `Clock` | time; with it any of the limiters' windows may end |

`SessionLifecycle` promises that a session is headed by one token at a time, and that
only its head is exchanged, for a token nobody had. The mapping takes the live token of a
session for its head and the revoked ones for spent.

`NoErrorIsUnknown` compares two tables translated from the code: what each route's
service throws, and what its router's error mapping knows. What a request has come
through does not change the tables, so a request at any handler stands for all of them;
the property is here because nothing in the code keeps the two tables together.

*Bounds.* Two requests, one user who signs in beside one who did before, two public ids,
three tokens, so that one session has two exchanges or two sessions one; lifetimes of one
tick and one tick of time; limits of one to three requests, and three of the routes
(`Served`, by name: the two of `auth` and one with a limiter of its own; the other routes
differ in name only). The theorems have none of these. No fairness is assumed; nothing
here must happen.

## Idempotent creates: `CreateOnce`, `Idempotency`

| State | Code |
|---|---|
| `receipt` | the request hash of each key's `IdempotencyReceipt` |
| `made`, `mails` | counters for the properties: resources created and mails handed over under a key |
| `pending` | recipients with a pending invitation, which a partial unique index allows once |
| `legacy` | scans whose `clientMutationId` was used before there were receipts |
| `req[r]` | a request: key, payload, and the next step of `createIdempotently` |

| Actions | Code |
|---|---|
| `Send` | a client sends a request, or sends it again, with any payload |
| `First`, `Again`, `Recheck` | `lookup` before the permission, in `execute`, and after P2002 |
| `Permit`, `Refuse` | the service's checks in between |
| `Insert`, `InsertReceipt`, `Commit`, `Fail` | the transaction: work, receipt, commit or rollback; an insert waits for another transaction with the same value of a unique index |
| `SendMail` | the mail of a new invitation, after the commit |
| `Answer`, `Crash` | the answer reaches the client, or the process dies |
| `Settle` | an invitation is accepted, declined, revoked or expires |

`CreateOnce` has one action: a free key is claimed for a payload and one resource made.
Everything else a request does is a stutter.

*Bounds.* Three keys, one of each kind (an invitation, a scan, a plain resource), two
payloads, two requests. A third request could only queue behind the same index. Requests
may be sent for ever. The theorems hold for any number of each.
*Fairness.* A request that can go on does: `WF_vars(Serve(r))`. The server runs it to its
end, and a transaction that waits fails at the latest at Prisma's timeout (`Fail`).
Crashes and clients owe nothing. What `RequestsEnd` adds is that no path of the
executor leads back into itself. *Deadlock* is checked.

## Reading: `Reading`

One project with an owner and viewers. The operators `ProjectRole`, `ScanRole`,
`NoteOpens`, `SharedStatus`, `FeedOpens` and `DetailScans` are the queries that decide
who may see what, one per place in the code; the list is a process: role, rows and total are
three queries, and each page is a request of its own.

| State | Code |
|---|---|
| `project`, `scan`, `note` | the rows as readers tell them apart: deleted or not, `createdAt`, an uploaded model; and whether the scan was there while the project stood (`admitted`), so that a request about it may have passed its check of the owner |
| `access` | `ProjectAccess` and `ScanAccess`: granted, `revokedAt`, `deletedAt` |
| `listed` | what a project's `softDelete` has read as live before its claim |
| `moved` | a history variable: a scan has left a list since the walk's first page was read |
| `walk` | a client on its way through the pages of a list, and the page being served |

| Actions | Code |
|---|---|
| `CreateScan`, `CompleteUpload`, `Reopen`, `CreateNote`, `DeleteNote`, `DeleteScan` | the owner's writes, as the lists meet them; a completion asks neither for the scan nor for the project when it writes, and a session request may overwrite a completed model |
| `ListForDeletion`, `DeleteProject` | the project's deletion: what it read is deleted, what was created since is not |
| `Accept`, `Revoke`, `Leave` | a viewer's access begins, is taken away, is removed from "Shared With Me" |
| `Ask`, `ReadRows`, `ReadCount`, `AskNext`, `Stop` | the role, `findMany`, `count`, the next page |

| Run | Properties | Shows |
|---|---|---|
| `reading` | `TypeOK`, `DoorsAgree`, `WalkComplete`, `NothingUnderTheDead` | an owner and a viewer write, share and revoke beside a client that lists scans, page by page, notes or a model |

`DoorsAgree` relates the queries to each other. It names the one way in which they differ:
a scan that the deletion of its project did not list stays live, may be completed and
accepted, and is then ACTIVE under "Shared With Me", which does not ask for the project,
and refused everywhere else. `WalkComplete` follows a client to the last page; it excepts
walks during which a scan left the list, deleted or with its model back to PENDING:
offsets then move (see Known departures). `NothingUnderTheDead` holds although notes may be
inserted under a scan deleted before.

*Bounds.* One viewer, pages of two rows. A behaviour is narrow or broad (`NarrowOrBroad`):
narrow, it has two scans, one also shared on its own, one note, and lists of all kinds, since
the doors tell rows apart one at a time; broad, it has three scans, so that there is a
boundary between pages and a rounded total, two values of `createdAt`, so that ties occur, and
lists of scans only, followed until a scan leaves them, as `WalkComplete` excepts what comes
then. `FewMarks` stops a behaviour once the viewer's accesses bear two marks. The theorems have
none of these. *Deadlock* is not checked: all may be deleted and nobody asking.

## Findings

Each is a run of its own that TLC refutes, with the trace as evidence.

1. `upload_dangling`: the cleanup job deletes the object and claims the row afterwards,
   so a completion in between leaves an UPLOADED asset without its object.
2. `sync_tombstone`: a stale note update that read the note before its deletion
   committed logs an UPSERT after the tombstone.
3. `cascade_rollup`: a note's transaction that read the model's status before the upload
   was completed writes it over the scan's UPLOADED afterwards, and so it stays until
   another child of the scan changes.

## Known departures

Behaviours of the models (and, by translation, of the code) that a document promises
otherwise or a reader would not expect. No run asks for the opposite; a model lets each
of them happen, and the properties above are stated so as to hold beside them.

- A session request that read the slot before its model was completed overwrites the
  completed model with PENDING (`prisma-scan-asset-repository.ts:257`); `architecture.md:283`
  calls an uploaded model immutable. `AssetLifecycle!Renew` allows it.
- The expiry job fails a session that was renewed after the job selected it
  (`prisma-scan-asset-repository.ts:405`); `architecture.md:838` says it only ever acts on rows that
  still match.
- A change that commits late, below a watermark already read, is delivered by no page and
  no later pull (`sync.service.ts:165`); `architecture.md:331` freezes a watermark and
  orders by sequence. `OnlyLateChangesSkipped` shows it is the only loss.
- A viewer who joins after the deletion of a project has read its accesses stays an active
  viewer of it (`prisma-project-repository.ts:439`); `api-conventions.md:540` says the
  deletion revokes active access. `DoorsAgree` shows that such an access opens nothing but
  the feed of what is deleted.
- A scan created between that read and the claim stays live under the deleted project
  (`prisma-project-repository.ts:539`), with what it holds. Most doors ask for the project
  and refuse it. "Shared With Me" does not: once the scan is completed (the write asks for
  the asset only, `prisma-scan-asset-repository.ts:342`) and accepted, it is offered as ACTIVE
  and refused by its own endpoints, while `api-conventions.md:1670` says that an active viewer
  can open it. `DoorsAgree` shows that no other scan is offered so.
- A roll-up of a change below a project or scan (`prisma-sync-writer.ts:427`, `:472`), or an
  acknowledgement that marks the project synced (`prisma-sync-repository.ts:365`), found the row
  live and writes it by id after its deletion has committed: the log ends with an UPSERT
  of what is deleted, and a later snapshot delivers it. `architecture.md:369` has no stale
  mutation clear a tombstone. `EditsInOrder` shows that the order of revisions is kept even so,
  and that notes are safe from it.
- A project's deletion claims the project's revision, which no upload moves, and entombs
  each asset at the revision it listed and one more (`prisma-project-repository.ts:531`). An
  asset completed, renewed or deleted in between gets a tombstone whose revision is not its
  own, and may be no newer than the UPSERT before it; `architecture.md:323` has each event
  store the resource's revision. `LogMovesForward` shows that it is the only such change.
- An acknowledgement locks the conflicts it resolves and then the project
  (`prisma-sync-repository.ts:337`, `:365`), a PATCH of the project the project and then its
  conflict (`prisma-project-repository.ts:405`): the two can deadlock, and PostgreSQL ends
  one of them, whose client has to ask again. So can a deletion of a subtree and an edit
  in it. `EditsDoNotDeadlock` shows there is no third kind.
- A note (`prisma-note-repository.ts:297`) or an asset (`prisma-scan-asset-repository.ts:228`)
  whose transaction has seen its scan live is inserted although the scan is
  deleted meanwhile, and stays live for ever; `architecture.md:231` has the deletion take
  the active descendants. `NothingUnderTheDead` shows that no list of notes shows it.
- A concurrent retry of an invitation meets the recipient's unique index and is answered
  409 `INVITATION_ALREADY_SENT` (`prisma-share-repository.ts:513`); `api-conventions.md:307`
  promises the first answer again. A retry made after the first is answered gets it.
- A crash between the commit of an invitation and its mail loses the mail
  (`share.service.ts:555`): a replay does not send it. The owner may resend.
- A list decides with a role it read before (`scan.service.ts:171`): a viewer revoked in
  between still gets that one page; `api-conventions.md:1327` takes access away immediately.
- The rows of a page and the total are two statements under READ COMMITTED
  (`architecture.md:217` stresses a stable order), so they may disagree; and a deletion
  between two pages, or for a viewer a model that goes back to PENDING, moves the rest up by
  one, past the client.

## What is proved

All theorems hold for every value of the constants that satisfies the assumption of the
module. For `AssetUpload` it asks that `None` be no row, change, key or size and that TTL
and grace be positive, which the schema of `config/env.ts` requires too; for `SyncFeed`
that resources be positive numbers, notes and (if any) the project among them, and the
page size positive, which the query schema requires; for `Sharing` that `None` and
`Anyone` be nobody and no row, and that lifetimes and TTL be positive; for `Sessions` that
`NoToken` and `NoId` name no token and no id and that somebody signs in; for `Idempotency`
that `None` be no payload; for `Cascade` that the rows form a tree, with one model for a
scan at most, and that conflicts are about the project, scans and notes; for `Gateway`
that limits be numbers and `NoUser` nobody; for `Reading` that ids of scans be numbers,
each note have one scan, scans and notes be finitely many, the owner be no viewer, and the
page size be positive, which `paginationQuerySchema` requires.

- `AssetUploadProofs`. The inductive invariant is `Inv` = `TypeOK`, `RequestsHold` (a
  request past a read has the row it read), `CandidatesOrphaned` (what a cleanup run
  holds was an orphan and, time being what it is, is still one by its own
  fields), `NewestRow`, `LogShowsSlot`. From it: `TypeCorrect`, `LogCorrect`,
  `SparesSessions`, and `Implements`, that every step is a step of `AssetLifecycle` or
  leaves its state alone. `LogAdvances` needs more: a tombstone's revision comes from a row
  read earlier, so one has to know that a row written since can no longer be claimed.
  `LogInv` = `SessionsDiffer` (expiries tell sessions apart), `FoundRows` (what a run
  found is the row, or the claim's condition fails), `FeedMatches` (no change in the log is
  ahead of the row). That a project's deletion has not been outrun is what its step
  asks of what it has read (`Buries`). `ObjectsKept` proves
  `UploadedHasObject` for `Cleaners = {}`, with `ObjectStays`.
- `SyncFeedProofs`. `TypeCorrect`, with two facts about open transactions and copies.
  `OrderCorrect` proves `EditsInOrder` through `Ordered`: a transaction that has written
  a row holds it alone, one revision above the committed one or, for a roll-up of the project,
  at it (`LocksHold`), and so does an acknowledgement that has marked the project
  (`AckHolds`); who rolls up writes no tombstone (`RollupReady`), so that a deletion is the only one
  of a row that was live under its lock; numbers never exceed the sequence (`Numbered`), and a
  number taken while holding the row is beyond those of all earlier writes of the row
  (`NextInLine`).
  `FeedInv` adds what a device knows. `NumbersDiffer`: no two changes, committed or not, have
  one number. `Paging`: a number a device has gone by, or has read a watermark beyond, is in
  the log or was still open when the watermark was read (`LateKnown`), so a change that comes
  later below the cursor is one the property excepts; and every change up to the cursor is
  accounted for, resource by resource while the snapshot lasts (`SnapshotCovers`), by number
  afterwards (`CursorCovers`). `AcksInv`: what is
  in the ledger is in the log (`LedgerInLog`), and what a pull acknowledges lies at or below
  its cursor and is nobody else's (`TakenIsShown`). Hence `PagingComplete`, which proves
  `OnlyLateChangesSkipped`,
  and `AcksCorrect`, which proves `AcksWhatWasShown`.
- `SharingProofs`. `Inv` = `TypeOK`, `RequestsHold` (what a request has read is of rows
  that are never deleted, and its user is one the invitation is addressed to),
  `DeleterHolds`, `OnePendingEach`. Three lemmas say how a step moves invitations
  (`LettersMove`), accesses (`AccessesMove`) and requests (`RequestsMove`); from them
  follow `TypeCorrect`, `LogCorrect`, `AccessWarranted`, and `Implements`, the refinement
  of `InvitationLifecycle`.
- `IdempotencyProofs`. `Inv` adds to the properties `ClaimedIsMade` (a key is claimed
  exactly when its resource is made), `CommitsAlone` (who is about to commit holds the
  key's receipt alone, and the key is free), `DuplicatesHaveReasons` (who has met a
  duplicate knows why) and `MailsAlone`. Most steps write no row, and one lemma
  (`QuietMove`) says what a request has to show where it arrives. Theorems: `TypeCorrect`,
  `AnswersTrue`, `MailOnce`, and `Implements`, the refinement of `CreateOnce`.
- `SessionsProofs`. `SessionsInv` = `SessionsTypeOK`, `IdsDistinct`, `AllSound` (the token a
  request has issued is in no row and in no other request, the one it exchanges is in
  the table), `Rooted` (a row goes back to the row of a sign-in), `OneLiveToken`. The refinement
  rests on `HeadsRight`, that a session's head is its live token. `GatewayProofs` shows
  that every step of `Gateway` is one of `Sessions`, or a crash, which ends all requests
  at once and is treated on its own: `ServedOneLiveToken`, `ServedImplements`,
  `ServedIdsStay`. The limiters need `GatewayInv` = `GatewayTypeOK` and `UserBeforeOwn`: a
  request without a user has the check of the token before every limiter of a single route
  that is left to it (`CheckedFirst`), which holds of the stacks of all routes, table by table
  (`RoutesWired`), and of what remains of a stack (`Passed`). Hence `ServedTypes` and
  `StrangersStopped`. `ErrorsKnown` compares the two tables of errors (`RoutesAnswer`); it says
  nothing of a state that TLC does not, since the tables have no parameters.
- `CascadeProofs`. `Inv` = `TypeOK` and `InOrder` (which rows and conflicts a transaction may
  hold at each of its statements: `Fits` says where a kind of transaction can stand,
  `Straight` what it holds there). Hence `TypeCorrect`. `LocksInOrder`, which proves
  `EditsDoNotDeadlock`, adds that a row is held by one transaction (`HeldOnce`). Outside the
  deletions and acknowledgements a transaction waits only for a row further up the tree than
  those it holds, or for the conflict of a row it holds while it has no other; who holds that
  conflict holds the row too. So of a circle of waiting transactions the
  one that waits highest has nobody to wait for. The other three need `TreeInv`, which adds what a
  transaction knows: what it is about to write is locked or not there yet
  (`HoldsWhatItWrites`, `KnowsRows`), the row it has claimed is as it was
  claimed (`ClaimStands`), and as long as a scan has the revision its deletion asks for,
  the list made of its children is right (`ListStands`): nobody writes a child without
  writing its scan (`ScanIsTold`). Hence `NotesStayBuried`, `RevisionsOnlyGrow` and
  `ChildrenFollow`, the other properties of the tree.

- `ReadingProofs`. `DoorsAgree` rests on `ListedDie`: once the project is deleted, so is every
  scan its deletion had listed. `WalkComplete` rests on
  `WalkInv`. As long as no scan has left a list (`moved`), what the client had at the start still matches,
  and of what it has not received, each row is preceded by at least as many rows as the pages
  read hold (`Covered`): rows that appear in between push others back, never forward. In
  whichever order the rows come that respects `Before`, a row has as many predecessors as
  there are positions before its own (`Position`, which needs the tie-breaker: without it
  two rows are not comparable and the lemma fails), so a row with too many of them for this
  page is on a later one, and the total, counted after the rows, says there is one
  (`MorePages`). Theorems: `TypeCorrect`, `QueriesAgree`, `WalksAreComplete`,
  `DeadShowNothing`.

Model-checked only: the liveness properties (`OverdueSessionsSettle`, `FailedRowsGo`,
`ConflictsSettle`, `RequestsEnd`), which are out of the prover's reach, and the violations
of Findings, which TLC shows by a trace.

## Not modelled

In sharing: tokens (a request holds an invitation, not the token of one), the untargeted
copy of an access change, and the bootstrap of a new viewer. In the sync feed: the `since`
mode and the status summary. Of users: the display name. Of requests: the parsing and
validation of bodies, which touch nothing before the handler. Of lists: search, and the
order of notes by `updatedAt` (any order is allowed). In storage: the bucket's set-up and
the local adapter's constant answers.

Not at all: signatures, hashes and encryption (payloads are compared for equality),
configuration, the landing page and OpenAPI, the seeds, the start and shutdown of the
server, and the content and delivery of mail: I/O, cryptography or static data, without
state of their own that a step could corrupt.
