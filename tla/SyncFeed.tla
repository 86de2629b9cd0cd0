------------------------------ MODULE SyncFeed ------------------------------
(***************************************************************************)
(* One owner's view of the change log: the owner's guarded writes, the     *)
(* conflicts they lose, and the devices that follow the log with cursors.  *)
(*                                                                         *)
(* Transactions run at READ COMMITTED: a statement sees what is committed  *)
(* when it runs, a write waits for the transaction that holds the row. A   *)
(* change gets its sequence number when it is inserted and is seen by      *)
(* others when its transaction commits, so the two orders may differ, and  *)
(* an aborted transaction leaves a gap in the numbers.                     *)
(*                                                                         *)
(* A resource is the project, or a scan or note of it, as its own PATCH    *)
(* and DELETE see it, and as the writes do that reach it by its id: the    *)
(* roll-up of a change below it and the acknowledgement that marks the     *)
(* project synced. Whether the project is ready for that is left open.     *)
(***************************************************************************)
EXTENDS Integers, FiniteSets

CONSTANTS
    Resources,   \* ids, in the order the snapshot pages them
    Notes,       \* the resources that are notes
    Project,     \* the one that is the project, or 0 if it is not among them
    Writers,     \* transactions that may be open at one time
    Devices,     \* the owner's clients
    Limit,       \* the page size clients ask for
    MaxSeq       \* bound: no new write once the log has come this far

ASSUME ConstantsOK ==
    /\ Resources \subseteq Nat \ {0}
    /\ Notes \subseteq Resources
    /\ Project \in (Resources \ Notes) \cup {0}
    /\ Limit \in Nat \ {0}
    /\ MaxSeq \in Nat

VARIABLES
    rows,     \* the committed rows; revision 0: not created yet
    locks,    \* rows an open transaction has inserted or updated
    last,     \* the last sequence number given out
    log,      \* the committed changes
    ledger,   \* per resource the refreshChangeId of its unresolved conflict, or 0
    txn,      \* the owner's write transactions
    dev       \* the devices, each with the pull it has under way

vars == <<rows, locks, last, log, ledger, txn, dev>>

Op == {"UPSERT", "DELETE"}

RowRecord == [rev: Nat, deleted: BOOLEAN]

\* A SyncChange. Targeted changes repeat a row's state for one user.
Change == [id: Nat, res: Resources, op: Op, rev: Nat, targeted: BOOLEAN]

Closed == [pc |-> "closed", res |-> 0, op |-> "UPSERT", rev |-> 0, gone |-> FALSE,
           id |-> 0, targeted |-> FALSE, clears |-> FALSE]

\* A write transaction: the revision it expects, has seen or writes, whether the
\* row it read was deleted, its change, and whether it has resolved the conflict.
Transaction == [pc: {"closed", "look", "claim", "relook", "report", "touch", "append",
                     "commit"},
                res: Resources \cup {0}, op: Op, rev: Nat, gone: BOOLEAN,
                id: Nat, targeted: BOOLEAN, clears: BOOLEAN]

\* A device: its cursor (cursor; during a snapshot base and after), the pull's
\* watermark and acknowledgement (todo, taken, copies, and seen: the row it is
\* copying), and, as history, the ids it was given and the ids that were not
\* committed when it read a watermark beyond them.
Device == [pc: {"new", "snapshot", "ready", "resolve", "sync", "touch", "copy", "reread",
                "append", "mark", "page"},
           cursor: Nat, base: Nat, after: Nat, mark: Nat,
           todo: SUBSET Resources, taken: SUBSET Resources, copies: SUBSET Change,
           seen: [res: Resources \cup {0}, rev: Nat, gone: BOOLEAN],
           got: SUBSET Nat, open: SUBSET Nat]

Unseen == [res |-> 0, rev |-> 0, gone |-> FALSE]

Fresh == [pc |-> "new", cursor |-> 0, base |-> 0, after |-> 0, mark |-> 0,
          todo |-> {}, taken |-> {}, copies |-> {}, seen |-> Unseen,
          got |-> {}, open |-> {}]

(***************************************************************************)
(* Queries on the log.                                                     *)
(***************************************************************************)
Ids(changes) == {c.id : c \in changes}

\* The largest committed id, whatever is still open below it.
IsWatermark(m) == \A i \in Ids(log) : i <= m

\* S up to u is a page: the Limit smallest of S, or all of S if it has fewer.
LastOfPage(S, u) ==
    LET page == {i \in S : i <= u}
    IN  /\ Cardinality(page) <= Limit
        /\ Cardinality(page) < Limit => page = S

Newest(changes, c) == \A d \in changes : d.res = c.res => d.id <= c.id

\* The latest change of every resource up to the watermark, if it is an UPSERT.
Snapshot(mark) ==
    LET visible == {c \in log : c.id <= mark}
    IN  {c \in visible : c.op = "UPSERT" /\ Newest(visible, c)}

(***************************************************************************)
(* Write transactions.                                                     *)
(***************************************************************************)
\* The transaction has written its row and not yet committed.
Holds(w) == txn[w].pc \in {"append", "commit"} /\ ~txn[w].targeted

ConflictLocked(x) ==
    \/ \E w \in Writers : txn[w].res = x /\ txn[w].clears
    \/ \E d \in Devices : x \in dev[d].taken

Becomes(w, state) == txn' = [txn EXCEPT ![w] = state]

Go(w, pc) == Becomes(w, [txn[w] EXCEPT !.pc = pc])

Close(w) == Becomes(w, Closed)

\* A resource is inserted: nobody else can have seen it.
Create(w, x) ==
    /\ txn[w].pc = "closed"
    /\ last < MaxSeq
    /\ rows[x].rev = 0 /\ x \notin locks
    /\ locks' = locks \cup {x}
    /\ Becomes(w, [Closed EXCEPT !.pc = "append", !.res = x, !.rev = 1])
    /\ UNCHANGED <<rows, last, log, ledger, dev>>

\* PATCH or DELETE with If-Match: e, a revision the row has had. Deletes and note
\* updates read the row first, project and scan updates go straight to the claim.
Request(w, x, op, e) ==
    /\ txn[w].pc = "closed"
    /\ last < MaxSeq
    /\ Becomes(w, [Closed EXCEPT
           !.pc = IF op = "DELETE" \/ x \in Notes THEN "look" ELSE "claim",
           !.res = x, !.op = op, !.rev = e])
    /\ UNCHANGED <<rows, locks, last, log, ledger, dev>>

\* #updateOwned keeps what it read for the conflict branch; a delete answers at
\* once if the row is gone and reports the conflict if the revision is another.
Look(w) ==
    LET t == txn[w]
        x == rows[t.res]
    IN  /\ t.pc = "look"
        /\ CASE t.op = "UPSERT" ->
                  Becomes(w, [t EXCEPT !.gone = x.deleted, !.pc = "claim"])
             [] t.op = "DELETE" /\ x.deleted -> Close(w)
             [] t.op = "DELETE" /\ ~x.deleted ->
                  Go(w, IF x.rev = t.rev THEN "claim" ELSE "report")
        /\ UNCHANGED <<rows, locks, last, log, ledger, dev>>

BugMatches(w) == ~rows[txn[w].res].deleted

\* The condition of the guarded write.
Matches(w) == ~rows[txn[w].res].deleted /\ rows[txn[w].res].rev = txn[w].rev

\* The guarded write waits for the row; an update that wins resolves the conflict.
ClaimWins(w) ==
    LET t       == txn[w]
        pending == ledger[t.res] # 0 /\ t.op = "UPSERT"
    IN  /\ t.pc = "claim" /\ t.res \notin locks
        /\ Matches(w)
        /\ pending => ~ConflictLocked(t.res)
        /\ locks' = locks \cup {t.res}
        /\ Becomes(w, [t EXCEPT !.pc = "append", !.rev = t.rev + 1, !.clears = pending])
        /\ UNCHANGED <<rows, last, log, ledger, dev>>

\* A row that is not the expected one is not waited for. A note update then goes by
\* the row it read first, the others read the row again.
ClaimLoses(w) ==
    LET t == txn[w]
    IN  /\ t.pc = "claim"
        /\ ~Matches(w)
        /\ Go(w, IF t.op = "UPSERT" /\ t.res \in Notes THEN "report" ELSE "relook")
        /\ UNCHANGED <<rows, locks, last, log, ledger, dev>>

Relook(w) ==
    LET t == txn[w]
        x == rows[t.res]
    IN  /\ t.pc = "relook"
        /\ IF t.op = "DELETE" /\ x.deleted
           THEN Close(w)
           ELSE Becomes(w, [t EXCEPT !.gone = x.deleted, !.pc = "report"])
        /\ UNCHANGED <<rows, locks, last, log, ledger, dev>>

BugReport(w) ==
    LET t == txn[w]
    IN  /\ t.pc = "report"
        /\ Becomes(w, [t EXCEPT !.pc = "append", !.targeted = TRUE,
                                 !.rev = rows[t.res].rev, !.op  = "CONFLICT"])
        /\ UNCHANGED <<rows, locks, last, log, ledger, dev>>

\* The lost write's refresh: a tombstone if the row read was deleted, otherwise
\* write*Upsert, which reads the row once more and not its deletedAt.
Report(w) ==
    LET t == txn[w]
    IN  /\ t.pc = "report"
        /\ Becomes(w, [t EXCEPT !.pc = "append", !.targeted = TRUE,
                                 !.rev = rows[t.res].rev,
                                 !.op  = IF t.gone THEN "DELETE" ELSE "UPSERT"])
        /\ UNCHANGED <<rows, locks, last, log, ledger, dev>>

\* A change below x: its transaction found x live ...
Rollup(w, x) ==
    /\ txn[w].pc = "closed"
    /\ last < MaxSeq
    /\ x \notin Notes /\ rows[x].rev # 0 /\ ~rows[x].deleted
    /\ Becomes(w, [Closed EXCEPT !.pc = "touch", !.res = x])
    /\ UNCHANGED <<rows, locks, last, log, ledger, dev>>

\* A roll-up counts in the revision of a scan and not in that of the project.
Count(x) == IF x = Project THEN 0 ELSE 1

\* ... and refreshScanRollup or refreshProjectRollup updates it by id once its row is
\* free, deleted or not, and writes an UPSERT of it.
Touch(w) ==
    LET t == txn[w]
    IN  /\ t.pc = "touch" /\ t.res \notin locks
        /\ locks' = locks \cup {t.res}
        /\ Becomes(w, [t EXCEPT !.pc = "append", !.rev = rows[t.res].rev + Count(t.res)])
        /\ UNCHANGED <<rows, last, log, ledger, dev>>

\* The change is inserted and takes its number.
Append(w) ==
    /\ txn[w].pc = "append"
    /\ last' = last + 1
    /\ Becomes(w, [txn[w] EXCEPT !.id = last + 1, !.pc = "commit"])
    /\ UNCHANGED <<rows, locks, log, ledger, dev>>

ChangeOf(t) == [id |-> t.id, res |-> t.res, op |-> t.op, rev |-> t.rev,
                targeted |-> t.targeted]

\* The write is seen: its row, its change and the conflict it resolves. No write lifts
\* deletedAt. A delete resolves conflicts after its change, so whatever it then finds.
CommitWrite(w) ==
    LET t == txn[w]
        x == t.res
    IN  /\ t.pc = "commit" /\ ~t.targeted
        /\ t.op = "DELETE" /\ ledger[x] # 0 => ~ConflictLocked(x)
        /\ log' = log \cup {ChangeOf(t)}
        /\ rows' = [rows EXCEPT ![x] = [rev     |-> t.rev,
                                            deleted |-> @.deleted \/ t.op = "DELETE"]]
        /\ ledger' = IF t.clears \/ t.op = "DELETE"
                     THEN [ledger EXCEPT ![x] = 0] ELSE ledger
        /\ locks' = locks \ {x}
        /\ Close(w)
        /\ UNCHANGED <<last, dev>>

\* upsertSyncConflict, and the 409 that tells the client.
CommitConflict(w) ==
    LET t == txn[w]
    IN  /\ t.pc = "commit" /\ t.targeted
        /\ ~ConflictLocked(t.res)
        /\ log' = log \cup {ChangeOf(t)}
        /\ ledger' = [ledger EXCEPT ![t.res] = t.id]
        /\ Close(w)
        /\ UNCHANGED <<rows, locks, last, dev>>

\* The process dies, a statement fails or the transaction times out.
Abort(w) ==
    /\ txn[w].pc # "closed"
    /\ locks' = IF Holds(w) THEN locks \ {txn[w].res} ELSE locks
    /\ Close(w)
    /\ UNCHANGED <<rows, last, log, ledger, dev>>

(***************************************************************************)
(* Devices: a snapshot, then incremental pulls.                            *)
(***************************************************************************)
Pulls(d, state) ==
    /\ dev' = [dev EXCEPT ![d] = state]
    /\ UNCHANGED <<rows, locks, last, log, ledger, txn>>

\* What was not committed below the watermark is remembered as history only.
Marked(d, m) == [dev[d] EXCEPT !.mark = m, !.open = @ \cup ((1..m) \ Ids(log))]

SnapshotMark(d) ==
    /\ dev[d].pc = "new"
    /\ \E m \in Ids(log) \cup {0} :
          /\ IsWatermark(m)
          /\ Pulls(d, [Marked(d, m) EXCEPT !.pc = "snapshot", !.base = m])

Given(v, changes) == [v EXCEPT !.got = @ \cup Ids(changes)]

\* A page of the snapshot: at most Limit resources after the last one given. The
\* last page hands over the incremental cursor.
SnapshotPage(d) ==
    LET v     == dev[d]
        rest  == {c \in Snapshot(v.mark) : c.res > v.after}
        names == {c.res : c \in rest}
    IN  /\ v.pc = "snapshot"
        /\ IF Cardinality(names) <= Limit
           THEN Pulls(d, [Given(v, rest) EXCEPT !.pc = "ready", !.cursor = v.mark,
                                                !.mark = 0, !.after = 0])
           ELSE \E x \in names :
                  /\ LastOfPage(names, x)
                  /\ Pulls(d, [Given(v, {c \in rest : c.res <= x}) EXCEPT !.after = x])

BugAcknowledged(d) == {x \in Resources : ledger[x] # 0}

BugOffByOne(d) == {x \in Resources : ledger[x] # 0 /\ ledger[x] < dev[d].cursor}

\* The unresolved conflicts a pull with the device's cursor acknowledges.
Acknowledged(d) == {x \in Resources : ledger[x] # 0 /\ ledger[x] <= dev[d].cursor}

\* The conflicts are listed outside the transaction that resolves them.
Pull(d) ==
    /\ dev[d].pc = "ready"
    /\ Pulls(d, [dev[d] EXCEPT !.todo = Acknowledged(d),
                               !.pc   = IF Acknowledged(d) = {} THEN "mark" ELSE "resolve"])

AckResolve(d) ==
    /\ dev[d].pc = "resolve"
    /\ \A x \in Acknowledged(d) : ~ConflictLocked(x)
    /\ Pulls(d, [dev[d] EXCEPT !.taken = Acknowledged(d), !.pc = "sync"])

\* Among what is listed is the project, or something in it. If the project is read live
\* and ready ...
AckProject(d) ==
    /\ dev[d].pc = "sync"
    /\ \/ Pulls(d, [dev[d] EXCEPT !.pc = "copy"])
       \/ /\ Project # 0 /\ rows[Project].rev # 0 /\ ~rows[Project].deleted
          /\ Pulls(d, [dev[d] EXCEPT !.pc = "touch"])

\* ... it is updated by id once its row is free, deleted or not, with an UPSERT of it.
AckTouch(d) ==
    LET c == [id |-> last + 1, res |-> Project, rev |-> rows[Project].rev + 1,
              targeted |-> FALSE, op |-> "UPSERT"]
    IN  /\ dev[d].pc = "touch" /\ Project \notin locks
        /\ locks' = locks \cup {Project}
        /\ last' = last + 1
        /\ dev' = [dev EXCEPT ![d] = [@ EXCEPT !.copies = {c}, !.pc = "copy"]]
        /\ UNCHANGED <<rows, log, ledger, txn>>

\* The transaction has written the project's row and not yet committed.
Touched(d) == \E c \in dev[d].copies : ~c.targeted

\* A row as the acknowledgement's transaction reads it, its own write included.
Read(d, x) ==
    [rows[x] EXCEPT !.rev = IF x = Project /\ Touched(d) THEN @ + 1 ELSE @]

Released(d) == IF Touched(d) THEN locks \ {Project} ELSE locks

\* writeResolvedConflictSnapshot, for each conflict listed: read the row ...
AckLook(d, x) ==
    /\ dev[d].pc = "copy"
    /\ x \in dev[d].todo
    /\ Pulls(d, [dev[d] EXCEPT
           !.seen = [res |-> x, rev |-> Read(d, x).rev, gone |-> rows[x].deleted],
           !.pc   = IF rows[x].deleted THEN "append" ELSE "reread"])

\* ... again in write*Upsert if it was not deleted ...
AckReread(d) ==
    /\ dev[d].pc = "reread"
    /\ Pulls(d, [dev[d] EXCEPT !.pc = "append",
           !.seen = [@ EXCEPT !.rev = Read(d, dev[d].seen.res).rev]])

\* ... and insert the targeted change.
AckAppend(d) ==
    LET v == dev[d]
        c == [id |-> last + 1, res |-> v.seen.res, rev |-> v.seen.rev, targeted |-> TRUE,
              op |-> IF v.seen.gone THEN "DELETE" ELSE "UPSERT"]
    IN  /\ v.pc = "append"
        /\ last' = last + 1
        /\ dev' = [dev EXCEPT ![d] = [v EXCEPT !.copies = @ \cup {c}, !.todo = @ \ {c.res},
                                               !.seen = Unseen, !.pc = "copy"]]
        /\ UNCHANGED <<rows, locks, log, ledger, txn>>

AckCommit(d) ==
    LET v == dev[d]
    IN  /\ v.pc = "copy" /\ v.todo = {}
        /\ log' = log \cup v.copies
        /\ rows' = [x \in Resources |-> Read(d, x)]
        /\ locks' = Released(d)
        /\ ledger' = [x \in Resources |-> IF x \in v.taken THEN 0 ELSE ledger[x]]
        /\ dev' = [dev EXCEPT ![d] = [v EXCEPT !.taken = {}, !.copies = {}, !.pc = "mark"]]
        /\ UNCHANGED <<last, txn>>

Mark(d) ==
    /\ dev[d].pc = "mark"
    /\ \E m \in Ids(log) \cup {0} :
          IsWatermark(m) /\ Pulls(d, [Marked(d, m) EXCEPT !.pc = "page"])

\* The changes after the cursor that are in the log when the page is read.
Pending(d) == {c \in log : c.id > dev[d].cursor /\ c.id <= dev[d].mark}

BugPage(d) ==
    /\ dev[d].pc = "page"
    /\ \E i \in Ids(Pending(d)) :
          /\ LastOfPage(Ids(Pending(d)), i)
          /\ Pulls(d, [Given(dev[d], {c \in Pending(d) : c.id <= i}) EXCEPT
                         !.pc = "ready", !.mark = 0, !.cursor = dev[d].mark])

\* The next cursor is the page's last change, or the watermark if there is none.
Page(d) ==
    /\ dev[d].pc = "page"
    /\ \/ /\ Pending(d) = {}
          /\ Pulls(d, [dev[d] EXCEPT !.pc = "ready", !.mark = 0, !.cursor = dev[d].mark])
       \/ \E i \in Ids(Pending(d)) :
             /\ LastOfPage(Ids(Pending(d)), i)
             /\ Pulls(d, [Given(dev[d], {c \in Pending(d) : c.id <= i}) EXCEPT
                            !.pc = "ready", !.mark = 0, !.cursor = i])

\* The pull is lost, with the acknowledgement if it had not committed; the device
\* still has its cursor. (Bound: a number is wasted only below MaxSeq.)
Drop(d) ==
    LET v == dev[d]
    IN  /\ v.pc \in {"resolve", "sync", "touch", "copy", "reread", "append", "mark", "page"}
        /\ v.copies # {} => last < MaxSeq
        /\ locks' = Released(d)
        /\ dev' = [dev EXCEPT ![d] =
                      [v EXCEPT !.pc = "ready", !.mark = 0, !.todo = {}, !.taken = {},
                                !.copies = {}, !.seen = Unseen]]
        /\ UNCHANGED <<rows, last, log, ledger, txn>>

\* The first page, before it gave the device a cursor.
DropSnapshot(d) ==
    /\ dev[d].pc = "snapshot" /\ dev[d].after = 0
    /\ Pulls(d, Fresh)

(***************************************************************************)
(* The specification.                                                      *)
(***************************************************************************)
Init ==
    /\ rows = [x \in Resources |-> [rev |-> 0, deleted |-> FALSE]]
    /\ locks = {}
    /\ last = 0
    /\ log = {}
    /\ ledger = [x \in Resources |-> 0]
    /\ txn = [w \in Writers |-> Closed]
    /\ dev = [d \in Devices |-> Fresh]

Starts(w) ==
    \E x \in Resources :
        \/ Create(w, x)
        \/ Rollup(w, x)
        \/ \E op \in Op, e \in 1..rows[x].rev : Request(w, x, op, e)

Proceeds(w) ==
    \/ Look(w)
    \/ ClaimWins(w)
    \/ ClaimLoses(w)
    \/ Relook(w)
    \/ Report(w)
    \/ Touch(w)
    \/ Append(w)
    \/ CommitWrite(w)
    \/ CommitConflict(w)

\* A pull under way, or the device's next one.
Advances(d) ==
    \/ SnapshotMark(d)
    \/ SnapshotPage(d)
    \/ Pull(d)
    \/ AckResolve(d)
    \/ AckProject(d)
    \/ AckTouch(d)
    \/ \E x \in Resources : AckLook(d, x)
    \/ AckReread(d)
    \/ AckAppend(d)
    \/ AckCommit(d)
    \/ Mark(d)
    \/ Page(d)

Next ==
    \/ \E w \in Writers : Starts(w) \/ Proceeds(w) \/ Abort(w)
    \/ \E d \in Devices : Advances(d) \/ Drop(d) \/ DropSnapshot(d)

Spec == Init /\ [][Next]_vars

\* An open transaction ends, at the latest by its timeout, and one that waits for a row
\* is served when its turn comes. Devices keep pulling, and however many pulls they have
\* lost, from some time on they lose no more. (A pull that finds nothing new leaves the
\* device as a lost one does.)
Fairness ==
    /\ \A w \in Writers : WF_vars(Proceeds(w) \/ Abort(w))
    /\ \A d \in Devices :
          /\ WF_vars(Advances(d))
          /\ SF_vars(AckResolve(d))
          /\ SF_vars(AckTouch(d))
    /\ <>[][\A d \in Devices : Drop(d) \/ DropSnapshot(d) => Advances(d)]_vars

FairSpec == Spec /\ Fairness

(***************************************************************************)
(* Properties.                                                             *)
(***************************************************************************)
\* Every variable has its type: the rows, the log and what transactions and pulls
\* hold while they are under way.
TypeOK ==
    /\ rows \in [Resources -> RowRecord]
    /\ locks \subseteq Resources
    /\ last \in Nat
    /\ log \subseteq Change
    /\ ledger \in [Resources -> Nat]
    /\ txn \in [Writers -> Transaction]
    /\ dev \in [Devices -> Device]

Writes(x) == {c \in log : c.res = x /\ ~c.targeted}

\* Although numbers are given at the insert and shown at the commit, the changes that
\* writes make to one resource are numbered in the order of its revisions, one for each
\* but for those a roll-up of the project repeats; the last of them tells the row's
\* revision. A row has been deleted once if it is deleted, and not if it is not: what
\* may follow is a write by id, and only the project and scans have those.
EditsInOrder ==
    \A x \in Resources :
        /\ \A c, d \in Writes(x) : c.id < d.id => c.rev <= d.rev
        /\ \A c, d \in Writes(x) : c.rev = d.rev /\ c # d => x = Project
        /\ \A c \in Writes(x) : Newest(Writes(x), c) => c.rev = rows[x].rev
        /\ rows[x].deleted <=> \E c \in Writes(x) : c.op = "DELETE"
        /\ \A c, d \in Writes(x) : c.op = "DELETE" /\ d.op = "DELETE" => c = d
        /\ x \in Notes => \A c, d \in Writes(x) : c.op = "DELETE" => d.id <= c.id
        /\ Writes(x) = {} <=> rows[x].rev = 0

\* What may be missing from a device that has passed a change: it was given the
\* change, or a snapshot had no use for it, or the change was not committed when
\* a watermark was read beyond it.
Accounted(d, c) ==
    \/ c.id \in dev[d].got
    \/ c.id \in dev[d].open
    \/ /\ c.id <= dev[d].base
       /\ \/ c.op = "DELETE"
          \/ \E e \in log : e.res = c.res /\ e.id > c.id /\ e.id <= dev[d].base

\* Paging loses nothing: whatever the page size, the interleaving of pages with
\* writes and the pulls that are lost, the only changes behind a device's cursor
\* that it was not given are those that committed late.
OnlyLateChangesSkipped ==
    \A d \in Devices : \A c \in log : c.id <= dev[d].cursor => Accounted(d, c)

\* A conflict is acknowledged on behalf of a device that has passed its refresh,
\* never because of one that has yet to see it.
AcksWhatWasShown ==
    [][\A d \in Devices : AckCommit(d) =>
          \A x \in dev[d].taken :
              /\ ledger[x] # 0
              /\ \E c \in log : c.id = ledger[x] /\ c.res = x /\ Accounted(d, c)]_vars

\* A device that keeps pulling gets every conflict resolved, whatever pulls are
\* lost and transactions aborted on the way.
ConflictsSettle == \A x \in Resources : ledger[x] # 0 ~> ledger[x] = 0

\* "No stale mutation can clear a tombstone" (architecture.md:369): the last the
\* log says of a deleted resource is that it is deleted.
TombstoneStays ==
    \A x \in Resources : rows[x].deleted =>
        \E c \in log : c.res = x /\ c.op = "DELETE" /\ Newest(log, c)
=============================================================================
