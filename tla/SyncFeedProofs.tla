--------------------------- MODULE SyncFeedProofs ---------------------------
(***************************************************************************)
(* Theorems of SyncFeed, for any number of resources, writers and devices, *)
(* any page size and any length of log: type correctness; the changes      *)
(* writes make to a resource are numbered in the order of its revisions;   *)
(* paging skips only what committed late; and a conflict is resolved only  *)
(* for a device that has gone by its refresh.                              *)
(***************************************************************************)
EXTENDS SyncFeed, TLAPS

(***************************************************************************)
(* Type correctness. A transaction that is open is on a resource.          *)
(***************************************************************************)
OpenOnRow == \A w \in Writers : txn[w].pc # "closed" => txn[w].res \in Resources

CopyOnRow ==
    \A d \in Devices :
        /\ dev[d].pc \in {"reread", "append"} => dev[d].seen.res \in Resources
        /\ dev[d].pc = "touch" => Project \in Resources

Typed == TypeOK /\ OpenOnRow /\ CopyOnRow

\* A closed transaction is well typed.
LEMMA ClosedTyped == Closed \in Transaction /\ Closed.pc = "closed"
BY DEF Closed, Transaction, Op

\* So is a device that has not pulled yet.
LEMMA FreshTyped == Fresh \in Device /\ Fresh.pc = "new"
BY DEF Fresh, Unseen, Device

\* The initial state is well typed.
LEMMA InitTyped == Init => Typed
<1> SUFFICES ASSUME Init PROVE Typed
  OBVIOUS
<1>1. TypeOK
  BY ClosedTyped, FreshTyped DEF Init, TypeOK, RowRecord
<1>2. OpenOnRow /\ CopyOnRow
  BY ClosedTyped, FreshTyped DEF Init, OpenOnRow, CopyOnRow
<1> QED  BY <1>1, <1>2 DEF Typed

\* A transaction's step to a well-typed state.
LEMMA TxnTyped ==
    ASSUME Typed, NEW w \in Writers, NEW state \in Transaction, Becomes(w, state),
           state.pc # "closed" => state.res \in Resources
    PROVE  txn' \in [Writers -> Transaction] /\ OpenOnRow'
<1>1. txn \in [Writers -> Transaction] /\ txn' = [txn EXCEPT ![w] = state]
  BY DEF Typed, TypeOK, Becomes
<1>2. ASSUME NEW v \in Writers, txn'[v].pc # "closed" PROVE txn'[v].res \in Resources
  BY <1>1, <1>2 DEF Typed, OpenOnRow
<1> QED  BY <1>1, <1>2 DEF OpenOnRow

\* A device's step to a well-typed state.
LEMMA DevTyped ==
    ASSUME Typed, NEW d \in Devices, NEW state \in Device,
           dev' = [dev EXCEPT ![d] = state],
           state.pc \in {"reread", "append"} => state.seen.res \in Resources,
           state.pc = "touch" => Project \in Resources
    PROVE  dev' \in [Devices -> Device] /\ CopyOnRow'
<1>1. dev \in [Devices -> Device]
  BY DEF Typed, TypeOK
<1>2. ASSUME NEW e \in Devices, dev'[e].pc \in {"reread", "append"}
      PROVE  dev'[e].seen.res \in Resources
  BY <1>1, <1>2 DEF Typed, CopyOnRow
<1>3. ASSUME NEW e \in Devices, dev'[e].pc = "touch"
      PROVE  Project \in Resources
  BY <1>1, <1>3 DEF Typed, CopyOnRow
<1> QED  BY <1>1, <1>2, <1>3 DEF CopyOnRow

\* A step that only changes a device keeps the state well typed.
LEMMA PullTyped ==
    ASSUME Typed, NEW d \in Devices, NEW state \in Device, Pulls(d, state),
           state.pc \in {"reread", "append"} => state.seen.res \in Resources,
           state.pc = "touch" => Project \in Resources
    PROVE  Typed'
<1>1. dev' \in [Devices -> Device] /\ CopyOnRow'
  BY DevTyped DEF Pulls
<1>2. UNCHANGED <<rows, locks, last, log, ledger, txn>>
  BY DEF Pulls
<1> QED  BY <1>1, <1>2 DEF Typed, TypeOK, OpenOnRow

\* What a well-typed state says of one transaction and its resource.
LEMMA Unpacked ==
    ASSUME Typed, NEW w \in Writers
    PROVE  /\ txn[w] \in Transaction
           /\ txn[w].pc # "closed" => /\ txn[w].res \in Resources
                                      /\ rows[txn[w].res] \in RowRecord
BY DEF Typed, TypeOK, OpenOnRow

\* Beginning a write keeps the state well typed.
LEMMA StartsTyped ==
    ASSUME Typed, NEW w \in Writers, Starts(w)
    PROVE  Typed'
<1>1. CASE \E x \in Resources : Create(w, x)
  <2>1. PICK x \in Resources : Create(w, x)
    BY <1>1
  <2> DEFINE state == [Closed EXCEPT !.pc = "append", !.res = x, !.rev = 1]
  <2>2. state \in Transaction /\ state.res \in Resources
    BY ClosedTyped DEF Transaction, Op
  <2>3. txn' \in [Writers -> Transaction] /\ OpenOnRow'
    BY <2>1, <2>2, TxnTyped DEF Create
  <2>4. locks' \subseteq Resources /\ UNCHANGED <<rows, last, log, ledger, dev>>
    BY <2>1 DEF Create, Typed, TypeOK
  <2> QED  BY <2>3, <2>4 DEF Typed, TypeOK, CopyOnRow
<1>2. CASE \E x \in Resources, op \in Op, e \in Nat : Request(w, x, op, e)
  <2>1. PICK x \in Resources, op \in Op, e \in Nat : Request(w, x, op, e)
    BY <1>2
  <2> DEFINE state == [Closed EXCEPT
           !.pc = IF op = "DELETE" \/ x \in Notes THEN "look" ELSE "claim",
           !.res = x, !.op = op, !.rev = e]
  <2>2. state \in Transaction /\ state.res \in Resources
    BY ClosedTyped DEF Transaction, Op
  <2>3. txn' \in [Writers -> Transaction] /\ OpenOnRow'
    BY <2>1, <2>2, TxnTyped DEF Request
  <2>4. UNCHANGED <<rows, locks, last, log, ledger, dev>>
    BY <2>1 DEF Request
  <2> QED  BY <2>3, <2>4 DEF Typed, TypeOK, CopyOnRow
<1>3. \A x \in Resources : rows[x].rev \in Nat
  BY DEF Typed, TypeOK, RowRecord
<1>4. CASE \E x \in Resources : Rollup(w, x)
  <2>1. PICK x \in Resources : Rollup(w, x)
    BY <1>4
  <2> DEFINE state == [Closed EXCEPT !.pc = "touch", !.res = x]
  <2>2. state \in Transaction /\ state.res \in Resources
    BY ClosedTyped DEF Transaction, Op
  <2>3. txn' \in [Writers -> Transaction] /\ OpenOnRow'
    BY <2>1, <2>2, TxnTyped DEF Rollup
  <2>4. UNCHANGED <<rows, locks, last, log, ledger, dev>>
    BY <2>1 DEF Rollup
  <2> QED  BY <2>3, <2>4 DEF Typed, TypeOK, CopyOnRow
<1> QED  BY <1>1, <1>2, <1>3, <1>4 DEF Starts

\* A step that changes its transaction and nothing else, as most do.
LEMMA OnlyTxnTyped ==
    ASSUME Typed, NEW w \in Writers, NEW state \in Transaction, Becomes(w, state),
           state.pc # "closed" => state.res \in Resources,
           UNCHANGED <<rows, locks, last, log, ledger, dev>>
    PROVE  Typed'
<1>1. txn' \in [Writers -> Transaction] /\ OpenOnRow'
  BY TxnTyped
<1> QED  BY <1>1 DEF Typed, TypeOK, CopyOnRow

\* So does each further step of a write.
LEMMA ProceedsTyped ==
    ASSUME Typed, NEW w \in Writers, Proceeds(w)
    PROVE  Typed'
<1> DEFINE t == txn[w]
<1>1. t \in Transaction
  BY Unpacked
<1>2. t.pc # "closed" => t.res \in Resources /\ rows[t.res] \in RowRecord
  BY Unpacked
<1> HIDE DEF t
<1>3. CASE Look(w)
  <2> DEFINE noted == [t EXCEPT !.gone = rows[t.res].deleted, !.pc = "claim"]
             moved == [t EXCEPT !.pc = IF rows[t.res].rev = t.rev THEN "claim" ELSE "report"]
  <2>1. t.res \in Resources /\ rows[t.res].deleted \in BOOLEAN /\ t.op \in Op
    BY <1>1, <1>2, <1>3 DEF Look, t, RowRecord, Transaction
  <2>2. noted \in Transaction /\ noted.res \in Resources
    BY <1>1, <2>1 DEF Transaction
  <2>3. moved \in Transaction /\ moved.res \in Resources
    BY <1>1, <2>1 DEF Transaction
  <2>4. Becomes(w, noted) \/ Becomes(w, Closed) \/ Becomes(w, moved)
    BY <1>3, <2>1 DEF Look, Go, Close, t, Op
  <2>5. UNCHANGED <<rows, locks, last, log, ledger, dev>>
    BY <1>3 DEF Look
  <2> HIDE DEF noted, moved
  <2> QED  BY <2>2, <2>3, <2>4, <2>5, ClosedTyped, OnlyTxnTyped
<1>4. CASE ClaimWins(w)
  <2> DEFINE pending == ledger[t.res] # 0 /\ t.op = "UPSERT"
             state   == [t EXCEPT !.pc = "append", !.rev = t.rev + 1, !.clears = pending]
  <2>1. t.res \in Resources
    BY <1>2, <1>4 DEF ClaimWins, t
  <2>2. pending \in BOOLEAN
    OBVIOUS
  <2>3. Becomes(w, state)
    BY <1>4 DEF ClaimWins, t
  <2> HIDE DEF pending
  <2>4. state \in Transaction /\ state.res \in Resources
    <3>1. t.rev \in Nat /\ t.rev + 1 \in Nat
      BY <1>1 DEF Transaction
    <3> QED  BY <1>1, <2>1, <2>2, <3>1 DEF Transaction
  <2> HIDE DEF state
  <2>5. txn' \in [Writers -> Transaction] /\ OpenOnRow'
    BY <2>3, <2>4, TxnTyped
  <2>6. locks' \subseteq Resources /\ UNCHANGED <<rows, last, log, ledger, dev>>
    BY <1>4, <2>1 DEF ClaimWins, t, Typed, TypeOK
  <2> QED  BY <2>5, <2>6 DEF Typed, TypeOK, CopyOnRow
<1>5. CASE ClaimLoses(w)
  <2> DEFINE state == [t EXCEPT !.pc = IF t.op = "UPSERT" /\ t.res \in Notes
                                       THEN "report" ELSE "relook"]
  <2>1. t.res \in Resources
    BY <1>2, <1>5 DEF ClaimLoses, t
  <2>2. state \in Transaction /\ state.res \in Resources
    BY <1>1, <2>1 DEF Transaction
  <2>3. Becomes(w, state) /\ UNCHANGED <<rows, locks, last, log, ledger, dev>>
    BY <1>5 DEF ClaimLoses, Go, t
  <2> HIDE DEF state
  <2> QED  BY <2>2, <2>3, OnlyTxnTyped
<1>6. CASE Relook(w)
  <2> DEFINE state == [t EXCEPT !.gone = rows[t.res].deleted, !.pc = "report"]
  <2>1. t.res \in Resources /\ rows[t.res].deleted \in BOOLEAN
    BY <1>2, <1>6 DEF Relook, t, RowRecord
  <2>2. state \in Transaction /\ state.res \in Resources
    BY <1>1, <2>1 DEF Transaction
  <2>3. /\ Becomes(w, state) \/ Becomes(w, Closed)
        /\ UNCHANGED <<rows, locks, last, log, ledger, dev>>
    BY <1>6 DEF Relook, Close, t
  <2> HIDE DEF state
  <2> QED  BY <2>2, <2>3, ClosedTyped, OnlyTxnTyped
<1>7. CASE Report(w)
  <2> DEFINE state == [t EXCEPT !.pc = "append", !.targeted = TRUE,
                                !.rev = rows[t.res].rev,
                                !.op  = IF t.gone THEN "DELETE" ELSE "UPSERT"]
  <2>1. t.res \in Resources /\ rows[t.res].rev \in Nat
    BY <1>2, <1>7 DEF Report, t, RowRecord
  <2>2. state \in Transaction /\ state.res \in Resources
    BY <1>1, <2>1 DEF Transaction, Op
  <2>3. Becomes(w, state) /\ UNCHANGED <<rows, locks, last, log, ledger, dev>>
    BY <1>7 DEF Report, t
  <2> HIDE DEF state
  <2> QED  BY <2>2, <2>3, OnlyTxnTyped
<1>8. CASE Append(w)
  <2> DEFINE state == [t EXCEPT !.id = last + 1, !.pc = "commit"]
  <2>1. last \in Nat /\ last + 1 \in Nat /\ t.res \in Resources
    BY <1>2, <1>8 DEF Append, Typed, TypeOK, t
  <2>2. state \in Transaction /\ state.res \in Resources
    BY <1>1, <2>1 DEF Transaction
  <2>3. Becomes(w, state) /\ last' = last + 1 /\ UNCHANGED <<rows, locks, log, ledger, dev>>
    BY <1>8 DEF Append, t
  <2> HIDE DEF state
  <2>4. txn' \in [Writers -> Transaction] /\ OpenOnRow'
    BY <2>2, <2>3, TxnTyped
  <2> QED  BY <2>1, <2>3, <2>4 DEF Typed, TypeOK, CopyOnRow
<1>9. t.pc = "commit" => ChangeOf(t) \in Change
  BY <1>1, <1>2 DEF ChangeOf, Change, Transaction
<1>10. CASE CommitWrite(w)
  <2>1. t.res \in Resources /\ ChangeOf(t) \in Change
    BY <1>2, <1>9, <1>10 DEF CommitWrite, t
  <2>2. txn' \in [Writers -> Transaction] /\ OpenOnRow'
    BY <1>10, ClosedTyped, TxnTyped DEF CommitWrite, Close
  <2>3. log' \subseteq Change
    BY <1>10, <2>1 DEF CommitWrite, t, Typed, TypeOK
  <2>4. rows' \in [Resources -> RowRecord]
    BY <1>1, <1>10, <2>1 DEF CommitWrite, t, Typed, TypeOK, RowRecord, Transaction
  <2>5. ledger' \in [Resources -> Nat]
    BY <1>10, <2>1 DEF CommitWrite, t, Typed, TypeOK
  <2>6. locks' \subseteq Resources /\ UNCHANGED <<last, dev>>
    BY <1>10 DEF CommitWrite, Typed, TypeOK
  <2> QED  BY <2>2, <2>3, <2>4, <2>5, <2>6 DEF Typed, TypeOK, CopyOnRow
<1>11. CASE CommitConflict(w)
  <2>1. t.res \in Resources /\ ChangeOf(t) \in Change
    BY <1>2, <1>9, <1>11 DEF CommitConflict, t
  <2>2. txn' \in [Writers -> Transaction] /\ OpenOnRow'
    BY <1>11, ClosedTyped, TxnTyped DEF CommitConflict, Close
  <2>3. log' \subseteq Change
    BY <1>11, <2>1 DEF CommitConflict, t, Typed, TypeOK
  <2>4. ledger' \in [Resources -> Nat]
    BY <1>1, <1>11, <2>1 DEF CommitConflict, t, Typed, TypeOK, Transaction
  <2>5. UNCHANGED <<rows, locks, last, dev>>
    BY <1>11 DEF CommitConflict
  <2> QED  BY <2>2, <2>3, <2>4, <2>5 DEF Typed, TypeOK, CopyOnRow
<1>12. CASE Touch(w)
  <2> DEFINE state == [t EXCEPT !.pc = "append", !.rev = rows[t.res].rev + Count(t.res)]
  <2>1. t.res \in Resources /\ rows[t.res].rev \in Nat
    BY <1>2, <1>12 DEF Touch, t, RowRecord
  <2>2. rows[t.res].rev + Count(t.res) \in Nat
    BY <2>1 DEF Count
  <2>3. state \in Transaction /\ state.res \in Resources
    BY <1>1, <2>1, <2>2 DEF Transaction
  <2>4. Becomes(w, state)
    BY <1>12 DEF Touch, t
  <2> HIDE DEF state
  <2>5. txn' \in [Writers -> Transaction] /\ OpenOnRow'
    BY <2>3, <2>4, TxnTyped
  <2>6. locks' \subseteq Resources /\ UNCHANGED <<rows, last, log, ledger, dev>>
    BY <1>12, <2>1 DEF Touch, t, Typed, TypeOK
  <2> QED  BY <2>5, <2>6 DEF Typed, TypeOK, CopyOnRow
<1> QED  BY <1>3, <1>4, <1>5, <1>6, <1>7, <1>8, <1>10, <1>11, <1>12 DEF Proceeds

\* So does the end of a transaction that fails.
LEMMA AbortTyped ==
    ASSUME Typed, NEW w \in Writers, Abort(w)
    PROVE  Typed'
<1>1. txn' \in [Writers -> Transaction] /\ OpenOnRow'
  BY ClosedTyped, TxnTyped DEF Abort, Close
<1>2. locks' \subseteq Resources /\ UNCHANGED <<rows, last, log, ledger, dev>>
  BY DEF Abort, Typed, TypeOK
<1> QED  BY <1>1, <1>2 DEF Typed, TypeOK, CopyOnRow

\* The numbers of a set of changes are naturals.
LEMMA IdsTyped ==
    ASSUME Typed, NEW changes \in SUBSET log
    PROVE  Ids(changes) \subseteq Nat
BY DEF Typed, TypeOK, Ids, Change

\* What reading a watermark, and being given changes, do to a device.
LEMMA MarkedTyped ==
    ASSUME Typed, NEW d \in Devices, NEW m \in Ids(log) \cup {0}
    PROVE  /\ m \in Nat /\ Marked(d, m) \in Device
           /\ Marked(d, m).pc = dev[d].pc /\ Marked(d, m).copies = dev[d].copies
<1>1. m \in Nat
  BY IdsTyped
<1>2. dev[d] \in Device
  BY DEF Typed, TypeOK
<1>3. (1..m) \ Ids(log) \subseteq Nat
  BY <1>1
<1> DEFINE late == (1..m) \ Ids(log)
<1> HIDE DEF late
<1>4. /\ [dev[d] EXCEPT !.mark = m, !.open = @ \cup late] \in Device
      /\ [dev[d] EXCEPT !.mark = m, !.open = @ \cup late].pc = dev[d].pc
      /\ [dev[d] EXCEPT !.mark = m, !.open = @ \cup late].copies = dev[d].copies
  BY <1>1, <1>2, <1>3 DEF Device, late
<1> QED  BY <1>1, <1>4 DEF Marked, late

\* Being given changes keeps a device well typed.
LEMMA GivenTyped ==
    ASSUME Typed, NEW v \in Device, NEW changes \in SUBSET log
    PROVE  /\ Given(v, changes) \in Device
           /\ Given(v, changes).pc = v.pc /\ Given(v, changes).copies = v.copies
<1>1. Ids(changes) \subseteq Nat
  BY IdsTyped
<1> QED  BY <1>1 DEF Given, Device

\* So does the loss of a pull.
LEMMA DropTyped ==
    ASSUME Typed, NEW d \in Devices, Drop(d) \/ DropSnapshot(d)
    PROVE  Typed'
<1> DEFINE v == dev[d]
           state == [v EXCEPT !.pc = "ready", !.mark = 0, !.todo = {}, !.taken = {},
                              !.copies = {}, !.seen = Unseen]
<1>1. state \in Device /\ state.pc = "ready"
  <2>1. v \in Device
    BY DEF Typed, TypeOK
  <2>2. Unseen \in [res: Resources \cup {0}, rev: Nat, gone: BOOLEAN]
    BY DEF Unseen
  <2> HIDE DEF v
  <2> QED  BY <2>1, <2>2 DEF Device
<1>2. CASE Drop(d)
  <2>1. /\ dev' = [dev EXCEPT ![d] = state] /\ locks' \subseteq locks
        /\ UNCHANGED <<rows, last, log, ledger, txn>>
    BY <1>2 DEF Drop, Released
  <2> HIDE DEF state
  <2>2. dev' \in [Devices -> Device] /\ CopyOnRow'
    BY <1>1, <2>1, DevTyped
  <2> QED  BY <2>1, <2>2 DEF Typed, TypeOK, OpenOnRow
<1>3. CASE DropSnapshot(d)
  BY <1>3, FreshTyped, PullTyped DEF DropSnapshot
<1> QED  BY <1>2, <1>3

\* A row as an acknowledgement reads it: it differs in what the acknowledgement itself
\* has written of the project.
LEMMA ReadIs ==
    ASSUME Typed, NEW d \in Devices, NEW x \in Resources
    PROVE  /\ Read(d, x) \in RowRecord /\ Read(d, x).deleted = rows[x].deleted
           /\ x = Project /\ Touched(d) => Read(d, x).rev = rows[x].rev + 1
           /\ ~(x = Project /\ Touched(d)) => Read(d, x) = rows[x]
<1>1. rows[x] \in RowRecord /\ rows[x].rev + 1 \in Nat
  BY DEF Typed, TypeOK, RowRecord
<1>2. CASE x = Project /\ Touched(d)
  BY <1>1, <1>2 DEF Read, RowRecord
<1>3. CASE ~(x = Project /\ Touched(d))
  BY <1>1, <1>3 DEF Read, RowRecord
<1> QED  BY <1>2, <1>3

\* Every step of a pull keeps the state well typed.
LEMMA AdvancesTyped ==
    ASSUME Typed, NEW d \in Devices, Advances(d)
    PROVE  Typed'
<1> DEFINE v == dev[d]
<1>1. v \in Device /\ v.mark \in Nat
  BY DEF Typed, TypeOK, Device
<1>2. \A x \in Resources : rows[x].rev \in Nat /\ rows[x].deleted \in BOOLEAN
  BY DEF Typed, TypeOK, RowRecord
<1> HIDE DEF v
<1>3. CASE SnapshotMark(d)
  <2>1. PICK m \in Ids(log) \cup {0} :
          Pulls(d, [Marked(d, m) EXCEPT !.pc = "snapshot", !.base = m])
    BY <1>3 DEF SnapshotMark
  <2> DEFINE state == [Marked(d, m) EXCEPT !.pc = "snapshot", !.base = m]
  <2>2. m \in Nat /\ Marked(d, m) \in Device
    BY MarkedTyped
  <2>3. state \in Device /\ state.pc = "snapshot"
    BY <2>2 DEF Device
  <2> HIDE DEF state
  <2> QED  BY <2>1, <2>3, PullTyped DEF state
<1>4. CASE SnapshotPage(d)
  <2> DEFINE rest  == {c \in Snapshot(v.mark) : c.res > v.after}
             names == {c.res : c \in rest}
             done  == [Given(v, rest) EXCEPT !.pc = "ready", !.cursor = v.mark,
                                             !.mark = 0, !.after = 0]
             more(x) == [Given(v, {c \in rest : c.res <= x}) EXCEPT !.after = x]
  <2>1. rest \subseteq log /\ names \subseteq Nat
    <3>1. rest \subseteq log
      BY DEF Snapshot
    <3>2. \A c \in log : c.res \in Nat
      BY ConstantsOK DEF Typed, TypeOK, Change
    <3> QED  BY <3>1, <3>2
  <2>2. v.pc = "snapshot" /\ (Pulls(d, done) \/ \E x \in names : Pulls(d, more(x)))
    BY <1>4 DEF SnapshotPage, v
  <2> HIDE DEF rest, names
  <2>3. done \in Device /\ done.pc = "ready"
    <3>1. Given(v, rest) \in Device
      BY <1>1, <2>1, GivenTyped
    <3> QED  BY <1>1, <3>1 DEF Device
  <2>4. ASSUME NEW x \in names
        PROVE  more(x) \in Device /\ more(x).pc = "snapshot"
    <3>1. {c \in rest : c.res <= x} \subseteq log /\ x \in Nat
      BY <2>1
    <3> DEFINE page == {c \in rest : c.res <= x}
    <3> HIDE DEF page
    <3>2. Given(v, page) \in Device /\ Given(v, page).pc = "snapshot"
      BY <1>1, <2>2, <3>1, GivenTyped DEF page
    <3>3. /\ [Given(v, page) EXCEPT !.after = x] \in Device
          /\ [Given(v, page) EXCEPT !.after = x].pc = "snapshot"
      BY <3>1, <3>2 DEF Device
    <3> QED  BY <3>3 DEF page
  <2> HIDE DEF done, more
  <2> QED  BY <2>2, <2>3, <2>4, PullTyped
<1>5. CASE Pull(d)
  <2> DEFINE state == [v EXCEPT !.todo = Acknowledged(d),
                                !.pc   = IF Acknowledged(d) = {} THEN "mark" ELSE "resolve"]
  <2>1. Acknowledged(d) \subseteq Resources
    BY DEF Acknowledged
  <2>2. state \in Device /\ state.pc \in {"mark", "resolve"}
    BY <1>1, <2>1 DEF Device
  <2>3. Pulls(d, state)
    BY <1>5 DEF Pull, v
  <2> HIDE DEF state
  <2> QED  BY <2>2, <2>3, PullTyped
<1>6. CASE AckResolve(d)
  <2> DEFINE state == [v EXCEPT !.taken = Acknowledged(d), !.pc = "sync"]
  <2>1. Acknowledged(d) \subseteq Resources
    BY DEF Acknowledged
  <2>2. state \in Device /\ state.pc = "sync"
    BY <1>1, <2>1 DEF Device
  <2>3. Pulls(d, state)
    BY <1>6 DEF AckResolve, v
  <2> HIDE DEF state
  <2> QED  BY <2>2, <2>3, PullTyped
<1>7. CASE \E x \in Resources : AckLook(d, x)
  <2>1. PICK x \in Resources : AckLook(d, x)
    BY <1>7
  <2> DEFINE row   == [res |-> x, rev |-> Read(d, x).rev, gone |-> rows[x].deleted]
             state == [v EXCEPT !.seen = row,
                                !.pc = IF rows[x].deleted THEN "append" ELSE "reread"]
  <2>2. row \in [res: Resources \cup {0}, rev: Nat, gone: BOOLEAN] /\ row.res \in Resources
    BY <1>2, ReadIs DEF RowRecord
  <2>3. Pulls(d, state)
    BY <2>1 DEF AckLook, v
  <2> HIDE DEF row
  <2>4. state \in Device /\ state.seen.res \in Resources /\ state.pc # "touch"
    BY <1>1, <2>2 DEF Device
  <2> HIDE DEF state
  <2> QED  BY <2>3, <2>4, PullTyped
<1>8. CASE AckReread(d)
  <2> DEFINE row   == [v.seen EXCEPT !.rev = Read(d, v.seen.res).rev]
             state == [v EXCEPT !.pc = "append", !.seen = row]
  <2>1. /\ v.seen.res \in Resources
        /\ v.seen \in [res: Resources \cup {0}, rev: Nat, gone: BOOLEAN]
    BY <1>1, <1>8 DEF AckReread, v, Typed, CopyOnRow, Device
  <2>2. row \in [res: Resources \cup {0}, rev: Nat, gone: BOOLEAN] /\ row.res \in Resources
    BY <2>1, ReadIs DEF RowRecord
  <2>3. Pulls(d, state)
    BY <1>8 DEF AckReread, v
  <2> HIDE DEF row
  <2>4. state \in Device /\ state.seen.res \in Resources /\ state.pc # "touch"
    BY <1>1, <2>2 DEF Device
  <2> HIDE DEF state
  <2> QED  BY <2>3, <2>4, PullTyped
<1>9. CASE AckAppend(d)
  <2> DEFINE c == [id |-> last + 1, res |-> v.seen.res, rev |-> v.seen.rev,
                   targeted |-> TRUE, op |-> IF v.seen.gone THEN "DELETE" ELSE "UPSERT"]
             state == [v EXCEPT !.copies = @ \cup {c}, !.todo = @ \ {c.res},
                                !.seen = Unseen, !.pc = "copy"]
  <2>1. v.seen.res \in Resources /\ v.seen.rev \in Nat /\ last + 1 \in Nat
    BY <1>1, <1>9 DEF AckAppend, v, Typed, TypeOK, CopyOnRow, Device
  <2>2. c \in Change
    BY <2>1 DEF Change, Op
  <2>3. /\ dev' = [dev EXCEPT ![d] = state] /\ last' = last + 1
        /\ UNCHANGED <<rows, locks, log, ledger, txn>>
    BY <1>9 DEF AckAppend, v
  <2> HIDE DEF c
  <2>4. state \in Device /\ state.pc = "copy"
    BY <1>1, <2>2 DEF Device, Unseen
  <2> HIDE DEF state
  <2>5. dev' \in [Devices -> Device] /\ CopyOnRow'
    BY <2>3, <2>4, DevTyped
  <2> QED  BY <2>1, <2>3, <2>5 DEF Typed, TypeOK, OpenOnRow
<1>10. CASE AckCommit(d)
  <2> DEFINE state == [v EXCEPT !.taken = {}, !.copies = {}, !.pc = "mark"]
  <2>1. state \in Device /\ state.pc = "mark" /\ v.copies \subseteq Change
    BY <1>1 DEF Device
  <2>2. /\ dev' = [dev EXCEPT ![d] = state] /\ log' = log \cup v.copies
        /\ ledger' = [x \in Resources |-> IF x \in v.taken THEN 0 ELSE ledger[x]]
        /\ rows' = [x \in Resources |-> Read(d, x)] /\ locks' \subseteq locks
        /\ UNCHANGED <<last, txn>>
    BY <1>10 DEF AckCommit, Released, v
  <2> HIDE DEF state
  <2>3. dev' \in [Devices -> Device] /\ CopyOnRow'
    BY <2>1, <2>2, DevTyped
  <2>4. rows' \in [Resources -> RowRecord]
    BY <2>2, ReadIs
  <2> QED  BY <2>1, <2>2, <2>3, <2>4 DEF Typed, TypeOK, OpenOnRow
<1>11. CASE Mark(d)
  <2>1. PICK m \in Ids(log) \cup {0} : Pulls(d, [Marked(d, m) EXCEPT !.pc = "page"])
    BY <1>11 DEF Mark
  <2> DEFINE state == [Marked(d, m) EXCEPT !.pc = "page"]
  <2>2. state \in Device /\ state.pc = "page"
    BY MarkedTyped DEF Device
  <2> HIDE DEF state
  <2> QED  BY <2>1, <2>2, PullTyped DEF state
<1>12. CASE Page(d)
  <2> DEFINE none    == [v EXCEPT !.pc = "ready", !.mark = 0, !.cursor = v.mark]
             some(i) == [Given(v, {c \in Pending(d) : c.id <= i}) EXCEPT
                            !.pc = "ready", !.mark = 0, !.cursor = i]
  <2>1. Pulls(d, none) \/ \E i \in Ids(Pending(d)) : Pulls(d, some(i))
    BY <1>12 DEF Page, v
  <2>2. none \in Device /\ none.pc = "ready"
    BY <1>1 DEF Device
  <2>3. ASSUME NEW i \in Ids(Pending(d))
        PROVE  some(i) \in Device /\ some(i).pc = "ready"
    <3>1. Pending(d) \subseteq log
      BY DEF Pending
    <3>2. i \in Nat /\ {c \in Pending(d) : c.id <= i} \subseteq log
      BY <3>1, IdsTyped
    <3> DEFINE page == {c \in Pending(d) : c.id <= i}
    <3> HIDE DEF page
    <3>3. Given(v, page) \in Device
      BY <1>1, <3>2, GivenTyped DEF page
    <3>4. LET s == [Given(v, page) EXCEPT !.pc = "ready", !.mark = 0, !.cursor = i]
          IN  s \in Device /\ s.pc = "ready"
      BY <3>2, <3>3 DEF Device
    <3> QED  BY <3>4 DEF page
  <2> HIDE DEF none, some
  <2> QED  BY <2>1, <2>2, <2>3, PullTyped
<1>13. CASE AckProject(d)
  <2> DEFINE state(pc) == [v EXCEPT !.pc = pc]
  <2>1. Pulls(d, state("copy")) \/ (Pulls(d, state("touch")) /\ Project \in Resources)
    BY <1>13, ConstantsOK DEF AckProject, v
  <2>2. state("copy") \in Device /\ state("copy").pc = "copy"
    BY <1>1 DEF Device
  <2>3. state("touch") \in Device /\ state("touch").pc = "touch"
    BY <1>1 DEF Device
  <2> HIDE DEF state
  <2> QED  BY <2>1, <2>2, <2>3, PullTyped
<1>14. CASE AckTouch(d)
  <2> DEFINE c == [id |-> last + 1, res |-> Project, rev |-> rows[Project].rev + 1,
                   targeted |-> FALSE, op |-> "UPSERT"]
             state == [v EXCEPT !.copies = {c}, !.pc = "copy"]
  <2>1. /\ dev' = [dev EXCEPT ![d] = state] /\ last' = last + 1
        /\ locks' = locks \cup {Project} /\ UNCHANGED <<rows, log, ledger, txn>>
    BY <1>14 DEF AckTouch, v
  <2>2. Project \in Resources
    BY <1>14 DEF AckTouch, Typed, CopyOnRow
  <2>3. c \in Change /\ last + 1 \in Nat
    BY <1>2, <2>2 DEF Change, Op, Typed, TypeOK
  <2> HIDE DEF c
  <2>4. state \in Device /\ state.pc = "copy"
    BY <1>1, <2>3 DEF Device
  <2> HIDE DEF state
  <2>5. dev' \in [Devices -> Device] /\ CopyOnRow'
    BY <2>1, <2>4, DevTyped
  <2> QED  BY <2>1, <2>2, <2>3, <2>5 DEF Typed, TypeOK, OpenOnRow
<1> QED  BY <1>3, <1>4, <1>5, <1>6, <1>7, <1>8, <1>9, <1>10, <1>11, <1>12, <1>13, <1>14
         DEF Advances

\* Every step keeps the state well typed.
LEMMA NextTyped == Typed /\ [Next]_vars => Typed'
<1> SUFFICES ASSUME Typed, [Next]_vars PROVE Typed'
  OBVIOUS
<1>1. ASSUME NEW w \in Writers, Starts(w) \/ Proceeds(w) \/ Abort(w) PROVE Typed'
  BY <1>1, StartsTyped, ProceedsTyped, AbortTyped
<1>2. ASSUME NEW d \in Devices, Advances(d) \/ Drop(d) \/ DropSnapshot(d) PROVE Typed'
  BY <1>2, AdvancesTyped, DropTyped
<1>3. CASE UNCHANGED vars
  BY <1>3 DEF vars, Typed, TypeOK, OpenOnRow, CopyOnRow
<1> QED  BY <1>1, <1>2, <1>3 DEF Next

\* In every reachable state every variable has its type.
THEOREM TypeCorrect == Spec => []TypeOK
<1>1. Typed => TypeOK
  BY DEF Typed
<1> QED  BY InitTyped, NextTyped, <1>1, PTL DEF Spec

(***************************************************************************)
(* EditsInOrder. A write's number is larger than those of the resource's   *)
(* earlier writes because the row stays locked from before the number is   *)
(* given until the change is seen, so nobody else's can come in between:   *)
(* not a transaction's, nor an acknowledgement's of the project.           *)
(***************************************************************************)

\* What may be written over x: a next revision, but that a roll-up of the project repeats
\* the one it finds, and only by its id is a deleted row still written.
Follower(x, op, rev) ==
    /\ rev # 0 /\ rows[x].rev <= rev
    /\ rev = rows[x].rev => x = Project
    /\ op = "DELETE" \/ x \in Notes => ~rows[x].deleted

\* A transaction that holds a row holds it alone.
LocksHold ==
    /\ \A w \in Writers : Holds(w) =>
          txn[w].res \in locks /\ Follower(txn[w].res, txn[w].op, txn[w].rev)
    /\ \A v, w \in Writers : Holds(v) /\ Holds(w) /\ txn[v].res = txn[w].res => v = w

\* So does an acknowledgement that has written the project, with the one change it makes.
SyncsProject(c) ==
    /\ c.res = Project /\ c.op = "UPSERT" /\ c.rev = rows[Project].rev + 1
    /\ \A e \in Writes(Project) : e.id < c.id

AckHolds ==
    /\ \A d \in Devices : \A c \in dev[d].copies : ~c.targeted =>
          /\ SyncsProject(c) /\ Project \in locks
          /\ \A e \in dev[d].copies : ~e.targeted => e = c
    /\ \A d \in Devices, w \in Writers : Touched(d) /\ Holds(w) => txn[w].res # Project
    /\ \A d, e \in Devices : Touched(d) /\ Touched(e) => d = e

\* A transaction is not a report before it has lost.
Undecided == {"look", "claim", "relook", "report", "touch"}

OnlyLosersReport == \A w \in Writers : txn[w].pc \in Undecided => ~txn[w].targeted

\* What a roll-up goes up to is there, and is no note.
RollsUp(t) == t.op = "UPSERT" /\ t.res \notin Notes /\ rows[t.res].rev # 0

RollupReady == \A w \in Writers : txn[w].pc = "touch" => RollsUp(txn[w])

\* Numbers come from the sequence.
Numbered ==
    /\ \A c \in log : c.id <= last
    /\ \A w \in Writers : txn[w].pc = "commit" => txn[w].id <= last
    /\ \A d \in Devices : \A c \in dev[d].copies : c.id <= last

\* A write about to commit has a number beyond those of the writes before it.
NextInLine ==
    \A w \in Writers : Holds(w) /\ txn[w].pc = "commit" =>
        \A c \in Writes(txn[w].res) : c.id < txn[w].id

RowIsNewest == \A x \in Resources : \A c \in Writes(x) : c.rev <= rows[x].rev

Ordered ==
    /\ Typed /\ OnlyLosersReport /\ RollupReady
    /\ LocksHold /\ AckHolds /\ Numbered /\ NextInLine
    /\ RowIsNewest /\ EditsInOrder

\* The inductive invariant holds initially.
LEMMA InitOrdered == Init => Ordered
<1> SUFFICES ASSUME Init PROVE Ordered
  OBVIOUS
<1>1. \A w \in Writers : ~Holds(w) /\ txn[w].pc = "closed"
  BY ClosedTyped DEF Init, Holds
<1>2. \A x \in Resources : Writes(x) = {} /\ rows[x].rev = 0 /\ ~rows[x].deleted
  BY DEF Init, Writes
<1>3. Numbered
  BY <1>1 DEF Init, Numbered, Fresh
<1>4. Typed
  BY InitTyped
<1>5. OnlyLosersReport /\ RollupReady
  BY <1>1 DEF OnlyLosersReport, RollupReady, Undecided
<1>6. AckHolds
  BY DEF Init, AckHolds, Touched, Fresh
<1> QED  BY <1>1, <1>2, <1>3, <1>4, <1>5, <1>6
         DEF Ordered, LocksHold, NextInLine, RowIsNewest, EditsInOrder

\* Steps that add no write to the log and change no row keep the log's order.
LEMMA LogUntouched ==
    ASSUME Ordered, rows' = rows, \A x \in Resources : Writes(x)' = Writes(x)
    PROVE  RowIsNewest' /\ EditsInOrder'
BY DEF Ordered, RowIsNewest, EditsInOrder, Newest

\* A row written by its holder, with its change: what the order of the log rests on.
LEMMA RowWritten ==
    ASSUME Ordered, Typed', NEW x \in Resources, NEW new \in Change,
           Follower(x, new.op, new.rev), \A c \in Writes(x) : c.id < new.id,
           Writes(x)' = Writes(x) \cup {new},
           rows'[x].rev = new.rev,
           rows'[x].deleted <=> rows[x].deleted \/ new.op = "DELETE",
           \A y \in Resources : y # x => Writes(y)' = Writes(y) /\ rows'[y] = rows[y]
    PROVE  RowIsNewest' /\ EditsInOrder'
<1>1. rows[x].rev \in Nat /\ new.rev \in Nat /\ new.id \in Nat
  BY DEF Ordered, Typed, TypeOK, RowRecord, Change
<1>2. \A c \in Writes(x) : c.id \in Nat /\ c.rev \in Nat /\ c.rev <= rows[x].rev
  BY DEF Writes, Ordered, Typed, TypeOK, Change, RowIsNewest
<1>3. rows[x].rev <= new.rev /\ new.rev # 0
  BY DEF Follower
<1>4. RowIsNewest'
  BY <1>1, <1>2, <1>3 DEF Ordered, RowIsNewest
<1> DEFINE InOrder(W) == \A c, d \in W : c.id < d.id => c.rev <= d.rev
           Alone(W, y) == \A c, d \in W : c.rev = d.rev /\ c # d => y = Project
           Tells(W, r) == \A c \in W : Newest(W, c) => c.rev = r.rev
           Buried(W, r) == r.deleted <=> \E c \in W : c.op = "DELETE"
           Once(W) == \A c, d \in W : c.op = "DELETE" /\ d.op = "DELETE" => c = d
           Final(W, y) == y \in Notes => \A c, d \in W : c.op = "DELETE" => d.id <= c.id
           None(W, r) == W = {} <=> r.rev = 0
           Good(W, r, y) == /\ InOrder(W) /\ Alone(W, y) /\ Tells(W, r) /\ Buried(W, r)
                            /\ Once(W) /\ Final(W, y) /\ None(W, r)
<1>5. Good(Writes(x), rows[x], x)
  BY DEF Ordered, EditsInOrder
<1> DEFINE W == Writes(x)
<1>6. InOrder(W \cup {new})
  BY <1>1, <1>2, <1>3, <1>5
<1>7. Alone(W \cup {new}, x)
  <2>1. \A c \in W : c.rev = new.rev => x = Project
    BY <1>1, <1>2, <1>3 DEF Follower
  <2> QED  BY <1>5, <2>1
<1>8. Tells(W \cup {new}, rows'[x])
  <2>1. ASSUME NEW c \in W \cup {new}, Newest(W \cup {new}, c)
        PROVE  c = new
    <3>1. c.res = x /\ new.res = x
      <4>1. \A e \in (Writes(x))' : e.res = x
        BY DEF Writes
      <4> QED  BY <4>1
    <3>2. new.id <= c.id
      BY <2>1, <3>1 DEF Newest
    <3> QED  BY <1>1, <1>2, <3>2
  <2> QED  BY <2>1
<1>9. Buried(W \cup {new}, rows'[x])
  BY <1>5
<1>10. new.op = "DELETE" \/ x \in Notes => ~\E c \in W : c.op = "DELETE"
  BY <1>5 DEF Follower
<1>11. Once(W \cup {new}) /\ Final(W \cup {new}, x)
  <2>1. Once(W \cup {new})
    BY <1>5, <1>10
  <2>2. Final(W \cup {new}, x)
    BY <1>1, <1>2, <1>10
  <2> QED  BY <2>1, <2>2
<1>12. None(W \cup {new}, rows'[x])
  BY <1>1, <1>3
<1>13. Good(Writes(x)', rows'[x], x)
  BY <1>6, <1>7, <1>8, <1>9, <1>11, <1>12
<1>14. ASSUME NEW y \in Resources, y # x
       PROVE  Good(Writes(y)', rows'[y], y)
  <2>1. Good(Writes(y), rows[y], y)
    BY DEF Ordered, EditsInOrder
  <2>2. Writes(y)' = Writes(y) /\ rows'[y] = rows[y]
    BY <1>14
  <2> HIDE DEF Good
  <2> QED  BY <2>1, <2>2, Zenon
<1>15. \A y \in Resources : Good(Writes(y)', rows'[y], y)
  BY <1>13, <1>14
<1>16. EditsInOrder'
  BY <1>15 DEF EditsInOrder, Newest
<1> QED  BY <1>4, <1>16

\* Steps that change no row and take no lock: who still holds one held it before.
LEMMA HeldAsBefore ==
    ASSUME Ordered, rows' = rows, \A x : Writes(x)' = Writes(x),
           \A w \in Writers : Holds(w)' =>
               /\ Holds(w) /\ txn[w].res \in locks' /\ txn'[w].res = txn[w].res
               /\ txn'[w].op = txn[w].op /\ txn'[w].rev = txn[w].rev,
           \A d \in Devices : \A c \in dev'[d].copies : c \in dev[d].copies \/ c.targeted,
           \A d \in Devices : Touched(d) /\ Touched(d)' => Project \in locks'
    PROVE  LocksHold' /\ AckHolds'
<1>1. LocksHold'
  BY DEF Ordered, LocksHold, Follower
<1>2. \A d \in Devices : Touched(d)' => Touched(d) /\ Project \in locks'
  BY DEF Touched
<1>3. \A c : SyncsProject(c)' = SyncsProject(c)
  BY DEF SyncsProject
<1>4. ASSUME NEW d \in Devices, NEW c \in dev'[d].copies, ~c.targeted
      PROVE  /\ SyncsProject(c)' /\ Project \in locks'
             /\ \A e \in dev'[d].copies : ~e.targeted => e = c
  <2>1. c \in dev[d].copies /\ Touched(d)'
    BY <1>4 DEF Touched
  <2>2. SyncsProject(c) /\ \A e \in dev[d].copies : ~e.targeted => e = c
    BY <1>4, <2>1 DEF Ordered, AckHolds
  <2> QED  BY <1>2, <1>3, <2>1, <2>2
<1> QED  BY <1>1, <1>2, <1>4 DEF Ordered, AckHolds

\* A pull that does not touch the log: its copies are as before or rolled back, and with
\* them what it has written of the project.
LEMMA DeviceOrdered ==
    ASSUME Ordered, Typed', NEW d \in Devices, NEW state, dev' = [dev EXCEPT ![d] = state],
           state.copies \subseteq dev[d].copies,
           locks' = locks \/ (state.copies = {} /\ locks' = Released(d)),
           UNCHANGED <<rows, last, log, txn>>
    PROVE  Ordered'
<1>1. \A e \in Devices : /\ dev'[e].copies \subseteq dev[e].copies
                         /\ e # d => dev'[e] = dev[e]
                         /\ e = d => dev'[e] = state
  BY DEF Ordered, Typed, TypeOK
<1>2. Numbered'
  BY <1>1 DEF Ordered, Numbered
<1>3. NextInLine' /\ OnlyLosersReport' /\ RollupReady'
  BY DEF Ordered, NextInLine, OnlyLosersReport, RollupReady, RollsUp, Holds, Writes
<1>4. (\A x : Writes(x)' = Writes(x)) /\ \A w \in Writers : Holds(w)' = Holds(w)
  BY DEF Writes, Holds
<1>5. \A w \in Writers : Holds(w) => txn[w].res \in locks'
  BY DEF Ordered, LocksHold, AckHolds, Released
<1>6. \A e \in Devices : Touched(e) /\ Touched(e)' => Project \in locks'
  <2>1. \A e \in Devices : Touched(e) => Project \in locks
    BY DEF Ordered, AckHolds, Touched
  <2>2. CASE locks' = locks
    BY <2>1, <2>2
  <2>3. CASE state.copies = {} /\ locks' = Released(d)
    <3>1. ~Touched(d)'
      BY <1>1, <2>3 DEF Touched
    <3>2. \A e \in Devices : Touched(e) /\ Touched(d) => e = d
      BY DEF Ordered, AckHolds
    <3> QED  BY <2>1, <2>3, <3>1, <3>2 DEF Released
  <2> QED  BY <2>2, <2>3
<1>7. LocksHold' /\ AckHolds'
  BY <1>1, <1>4, <1>5, <1>6, HeldAsBefore
<1>8. RowIsNewest' /\ EditsInOrder'
  BY <1>4, LogUntouched
<1> QED  BY <1>2, <1>3, <1>7, <1>8 DEF Ordered

\* As most steps of a pull are.
LEMMA PullOrdered ==
    ASSUME Ordered, Typed', NEW d \in Devices, NEW state, Pulls(d, state),
           state.copies \subseteq dev[d].copies
    PROVE  Ordered'
BY DeviceOrdered DEF Pulls

\* A transaction's step that leaves the log alone and takes no lock.
LEMMA FreeOrdered ==
    ASSUME Ordered, Typed', NEW w \in Writers, NEW state, Becomes(w, state),
           state.pc # "commit",
           state.pc = "append" => state.targeted,
           state.pc \in Undecided => ~state.targeted,
           state.pc = "touch" => RollsUp(state),
           locks' = locks \/ (Holds(w) /\ locks' = locks \ {txn[w].res}),
           UNCHANGED <<rows, last, log, dev>>
    PROVE  Ordered'
<1>1. txn \in [Writers -> Transaction] /\ txn' = [txn EXCEPT ![w] = state]
  BY DEF Ordered, Typed, TypeOK, Becomes
<1>2. \A v \in Writers : v # w => txn'[v] = txn[v] /\ Holds(v)' = Holds(v)
  BY <1>1 DEF Holds
<1>3. ~Holds(w)' /\ txn'[w] = state
  BY <1>1 DEF Holds
<1>4. Numbered'
  BY <1>2, <1>3 DEF Ordered, Numbered
<1>5. \A x : Writes(x)' = Writes(x)
  BY DEF Writes
<1>6. LocksHold' /\ AckHolds'
  <2>1. ASSUME NEW v \in Writers, Holds(v)'
        PROVE  v # w /\ Holds(v) /\ txn'[v] = txn[v] /\ txn[v].res \in locks'
    BY <1>2, <1>3, <2>1 DEF Ordered, LocksHold
  <2>2. ASSUME NEW d \in Devices, Touched(d)
        PROVE  Project \in locks'
    BY <2>2 DEF Ordered, AckHolds, Touched
  <2> QED  BY <1>5, <2>1, <2>2, HeldAsBefore
<1>7. NextInLine'
  BY <1>2, <1>3, <1>5 DEF Ordered, NextInLine
<1>8. RowIsNewest' /\ EditsInOrder'
  BY <1>5, LogUntouched
<1>9. OnlyLosersReport' /\ RollupReady'
  BY <1>2, <1>3 DEF Ordered, OnlyLosersReport, RollupReady, RollsUp
<1> QED  BY <1>4, <1>6, <1>7, <1>8, <1>9 DEF Ordered

\* A transaction's step that takes the lock of a free row.
LEMMA LockOrdered ==
    ASSUME Ordered, Typed', NEW w \in Writers, NEW state, Becomes(w, state),
           state.pc = "append", ~state.targeted, state.res \in Resources,
           Follower(state.res, state.op, state.rev),
           state.res \notin locks, locks' = locks \cup {state.res},
           UNCHANGED <<rows, last, log, dev>>
    PROVE  Ordered'
<1>1. txn \in [Writers -> Transaction] /\ txn' = [txn EXCEPT ![w] = state]
  BY DEF Ordered, Typed, TypeOK, Becomes
<1>2. \A v \in Writers : v # w => txn'[v] = txn[v] /\ Holds(v)' = Holds(v)
  BY <1>1 DEF Holds
<1>3. txn'[w] = state
  BY <1>1
<1>4. Numbered'
  BY <1>2, <1>3 DEF Ordered, Numbered
<1>6. LocksHold'
  <2>1. \A v \in Writers : v # w /\ Holds(v)' =>
          /\ txn'[v] = txn[v] /\ txn[v].res \in locks
          /\ Follower(txn[v].res, txn[v].op, txn[v].rev)
    BY <1>2 DEF Ordered, LocksHold
  <2>2. \A u, v \in Writers : u # w /\ v # w /\ Holds(u)' /\ Holds(v)'
                              /\ txn'[u].res = txn'[v].res => u = v
    BY <1>2 DEF Ordered, LocksHold
  <2>3. \A v \in Writers : v # w /\ Holds(v)' => txn'[v].res # state.res
    BY <2>1
  <2>4. \A v \in Writers : Holds(v)' =>
          txn'[v].res \in locks' /\ Follower(txn[v].res, txn[v].op, txn[v].rev)'
    <3>1. ASSUME NEW v \in Writers, Holds(v)', v # w
          PROVE  Follower(txn[v].res, txn[v].op, txn[v].rev)'
      BY <2>1, <3>1 DEF Follower
    <3>2. Follower(txn[w].res, txn[w].op, txn[w].rev)'
      BY <1>3 DEF Follower
    <3> QED  BY <1>3, <2>1, <3>1, <3>2
  <2>5. \A u, v \in Writers : Holds(u)' /\ Holds(v)' /\ txn'[u].res = txn'[v].res => u = v
    BY <1>3, <2>2, <2>3
  <2> QED  BY <2>4, <2>5 DEF LocksHold
<1>7. \A x : Writes(x)' = Writes(x)
  BY DEF Writes
<1>8. AckHolds'
  <2>1. \A d \in Devices : Touched(d)' = Touched(d)
    BY DEF Touched
  <2>2. \A d \in Devices : Touched(d) => Project \in locks
    BY DEF Ordered, AckHolds, Touched
  <2>3. \A c : SyncsProject(c)' = SyncsProject(c)
    BY <1>7 DEF SyncsProject
  <2>4. \A d \in Devices, v \in Writers : Touched(d)' /\ Holds(v)' => txn'[v].res # Project
    BY <1>2, <1>3, <2>1, <2>2 DEF Ordered, AckHolds
  <2>5. \A d \in Devices : \A c \in dev'[d].copies : ~c.targeted =>
          /\ SyncsProject(c)' /\ Project \in locks'
          /\ \A e \in dev'[d].copies : ~e.targeted => e = c
    BY <2>3 DEF Ordered, AckHolds
  <2> QED  BY <2>1, <2>4, <2>5 DEF Ordered, AckHolds
<1>9. NextInLine'
  BY <1>2, <1>3, <1>7 DEF Ordered, NextInLine
<1>10. RowIsNewest' /\ EditsInOrder'
  BY <1>7, LogUntouched
<1>11. OnlyLosersReport' /\ RollupReady'
  BY <1>2, <1>3 DEF Ordered, OnlyLosersReport, RollupReady, RollsUp, Undecided
<1> QED  BY <1>4, <1>6, <1>8, <1>9, <1>10, <1>11 DEF Ordered

\* The number a change takes exceeds every number taken before.
LEMMA AppendOrdered ==
    ASSUME Ordered, Typed', NEW w \in Writers, Append(w)
    PROVE  Ordered'
<1> DEFINE state == [txn[w] EXCEPT !.id = last + 1, !.pc = "commit"]
<1>1. /\ txn \in [Writers -> Transaction] /\ txn' = [txn EXCEPT ![w] = state]
      /\ txn[w].pc = "append" /\ last' = last + 1
      /\ UNCHANGED <<rows, locks, log, ledger, dev>>
  BY DEF Ordered, Typed, TypeOK, Becomes, Append
<1>2. /\ state.res = txn[w].res /\ state.rev = txn[w].rev /\ state.id = last + 1
      /\ state.targeted = txn[w].targeted /\ state.pc = "commit" /\ state.op = txn[w].op
  BY <1>1 DEF Transaction
<1> HIDE DEF state
<1>3. \A v \in Writers : v # w => txn'[v] = txn[v] /\ Holds(v)' = Holds(v)
  BY <1>1 DEF Holds
<1>4. txn'[w] = state /\ Holds(w)' = Holds(w)
  BY <1>1, <1>2 DEF Holds
<1>5. last \in Nat /\ \A c \in log : c.id \in Nat
  BY DEF Ordered, Typed, TypeOK, Change
<1>6. Numbered'
  <2>1. \A c \in log' : c.id <= last'
    BY <1>1, <1>5 DEF Ordered, Numbered
  <2>2. \A v \in Writers : txn'[v].pc = "commit" => txn'[v].id <= last'
    BY <1>1, <1>2, <1>3, <1>4, <1>5 DEF Ordered, Numbered, Transaction
  <2>3. \A d \in Devices : \A c \in dev'[d].copies : c.id <= last'
    BY <1>1, <1>5 DEF Ordered, Numbered, Typed, TypeOK, Device, Change
  <2> QED  BY <2>1, <2>2, <2>3 DEF Numbered
<1>7. \A x : Writes(x)' = Writes(x)
  BY <1>1 DEF Writes
<1>8. LocksHold' /\ AckHolds'
  <2>1. \A v \in Writers : /\ Holds(v)' = Holds(v) /\ txn'[v].res = txn[v].res
                           /\ txn'[v].op = txn[v].op /\ txn'[v].rev = txn[v].rev
    BY <1>2, <1>3, <1>4
  <2>2. \A v \in Writers : Holds(v) => txn[v].res \in locks'
    BY <1>1 DEF Ordered, LocksHold
  <2>3. \A d \in Devices : Touched(d) => Project \in locks'
    BY <1>1 DEF Ordered, AckHolds, Touched
  <2> QED  BY <1>1, <1>7, <2>1, <2>2, <2>3, HeldAsBefore
<1>9. NextInLine'
  <2>1. \A c \in Writes(txn[w].res) : c.id < last + 1
    BY <1>5 DEF Ordered, Numbered, Writes
  <2>2. \A v \in Writers : v # w /\ Holds(v)' /\ txn'[v].pc = "commit" =>
          \A c \in Writes(txn[v].res) : c.id < txn[v].id
    BY <1>3 DEF Ordered, NextInLine
  <2> QED  BY <1>2, <1>3, <1>4, <1>7, <2>1, <2>2 DEF NextInLine
<1>10. RowIsNewest' /\ EditsInOrder'
  BY <1>1, <1>7, LogUntouched
<1>11. OnlyLosersReport' /\ RollupReady'
  BY <1>1, <1>2, <1>3, <1>4 DEF Ordered, OnlyLosersReport, RollupReady, RollsUp, Undecided
<1> QED  BY <1>6, <1>8, <1>9, <1>10, <1>11 DEF Ordered

\* When x is written, what others hold is of other rows.
LEMMA OthersHold ==
    ASSUME Ordered, Typed', NEW x \in Resources, last' = last,
           locks' = locks \ {x} \/ locks' = locks,
           \A y \in Resources : y # x => Writes(y)' = Writes(y) /\ rows'[y] = rows[y],
           rows[x].rev # 0 => rows'[x].rev # 0,
           \A c \in log' : c.id <= last,
           \A v \in Writers : /\ txn'[v] = txn[v] \/ txn'[v] = Closed
                              /\ Holds(v)' => txn[v].res # x,
           \A d \in Devices : /\ dev'[d].copies \subseteq dev[d].copies
                              /\ Touched(d)' => x # Project
    PROVE  /\ LocksHold' /\ AckHolds' /\ Numbered' /\ NextInLine'
           /\ OnlyLosersReport' /\ RollupReady'
<1>1. Closed.pc = "closed" /\ \A v \in Writers : Holds(v)' => Holds(v) /\ txn'[v] = txn[v]
  BY ClosedTyped DEF Holds
<1>2. \A v \in Writers : Holds(v)' => txn[v].res \in Resources /\ txn[v].res # x
  BY <1>1, Unpacked DEF Holds, Ordered
<1>3. \A y \in Resources : \A op, rev : y # x => Follower(y, op, rev)' = Follower(y, op, rev)
  BY DEF Follower
<1>4. LocksHold'
  BY <1>1, <1>2, <1>3 DEF Ordered, LocksHold
<1>5. NextInLine'
  <2>1. ASSUME NEW v \in Writers, Holds(v)', txn'[v].pc = "commit"
        PROVE  \A c \in (Writes(txn[v].res))' : c.id < txn'[v].id
    <3>1. txn[v].res # x /\ txn[v].res \in Resources /\ Holds(v) /\ txn'[v] = txn[v]
      BY <1>1, <1>2, <2>1
    <3>2. PICK y \in Resources : y = txn[v].res
      BY <3>1
    <3>3. Writes(y)' = Writes(y) /\ txn'[v].res = y
      BY <3>1, <3>2
    <3>4. \A c \in Writes(y) : c.id < txn[v].id
      BY <2>1, <3>1, <3>2 DEF Ordered, NextInLine
    <3> QED  BY <3>1, <3>3, <3>4
  <2> QED  BY <2>1 DEF NextInLine
<1>6. AckHolds'
  <2>1. \A d \in Devices : Touched(d)' => Touched(d) /\ x # Project
    BY DEF Touched
  <2>2. ASSUME NEW d \in Devices, NEW c \in dev'[d].copies, ~c.targeted
        PROVE  /\ SyncsProject(c)' /\ Project \in locks'
               /\ \A e \in dev'[d].copies : ~e.targeted => e = c
    <3>1. c \in dev[d].copies /\ x # Project
      BY <2>1, <2>2 DEF Touched
    <3>2. /\ SyncsProject(c) /\ Project \in locks
          /\ \A e \in dev[d].copies : ~e.targeted => e = c
      BY <2>2, <3>1 DEF Ordered, AckHolds
    <3>3. Project \in Resources
      BY <3>2 DEF Ordered, Typed, TypeOK
    <3>4. SyncsProject(c)'
      BY <3>1, <3>2, <3>3 DEF SyncsProject
    <3> QED  BY <3>1, <3>2, <3>4
  <2> QED  BY <1>1, <2>1, <2>2 DEF Ordered, AckHolds
<1>7. Numbered'
  BY <1>1 DEF Ordered, Numbered
<1>8. OnlyLosersReport' /\ RollupReady'
  <2>1. OnlyLosersReport'
    BY <1>1 DEF Ordered, OnlyLosersReport, Undecided
  <2>2. ASSUME NEW v \in Writers, txn'[v].pc = "touch"
        PROVE  RollsUp(txn[v])'
    <3>1. txn'[v] = txn[v] /\ RollsUp(txn[v]) /\ txn[v].res \in Resources
      BY <1>1, <2>2, Unpacked DEF Ordered, RollupReady
    <3>2. rows[txn[v].res].rev # 0 => rows'[txn[v].res].rev # 0
      BY <3>1
    <3> QED  BY <3>1, <3>2 DEF RollsUp
  <2> QED  BY <2>1, <2>2 DEF RollupReady
<1> QED  BY <1>4, <1>5, <1>6, <1>7, <1>8

\* The new change has the largest number and the largest revision of its resource.
LEMMA CommitWriteOrdered ==
    ASSUME Ordered, Typed', NEW w \in Writers, CommitWrite(w)
    PROVE  Ordered'
<1> DEFINE new == ChangeOf(txn[w])
<1>0. PICK x \in Resources : x = txn[w].res
  BY Unpacked DEF Ordered, CommitWrite
<1>1. txn[w] \in Transaction /\ txn[w].pc = "commit" /\ ~txn[w].targeted /\ Holds(w)
  BY Unpacked DEF Ordered, CommitWrite, Holds
<1>2. /\ new.id = txn[w].id /\ new.res = x /\ new.op = txn[w].op
      /\ new.rev = txn[w].rev /\ ~new.targeted /\ new \in Change
  BY <1>0, <1>1 DEF ChangeOf, Change, Transaction
<1>3. /\ log' = log \cup {new} /\ locks' = locks \ {x} /\ UNCHANGED <<last, dev>>
      /\ rows' = [rows EXCEPT ![x] = [rev |-> txn[w].rev,
                                      deleted |-> @.deleted \/ txn[w].op = "DELETE"]]
      /\ txn \in [Writers -> Transaction] /\ txn' = [txn EXCEPT ![w] = Closed]
  BY <1>0 DEF CommitWrite, Close, Becomes, Ordered, Typed, TypeOK
<1> HIDE DEF new
<1>4. \A v \in Writers : v # w => txn'[v] = txn[v] /\ Holds(v)' = Holds(v)
  BY <1>3 DEF Holds
<1>5. txn'[w] = Closed /\ ~Holds(w)'
  BY <1>3, ClosedTyped DEF Holds
<1>6. \A v \in Writers : Holds(v)' => txn[v].res # x
  BY <1>0, <1>1, <1>4, <1>5 DEF Ordered, LocksHold
<1>7. \A y \in Resources : y # x => Writes(y)' = Writes(y) /\ rows'[y] = rows[y]
  BY <1>2, <1>3 DEF Writes, Ordered, Typed, TypeOK
<1>8. Writes(x)' = Writes(x) \cup {new}
  BY <1>2, <1>3 DEF Writes
<1>9. rows'[x].rev = new.rev /\ (rows'[x].deleted <=> rows[x].deleted \/ new.op = "DELETE")
  BY <1>2, <1>3 DEF Ordered, Typed, TypeOK
<1>10. Follower(x, new.op, new.rev) /\ \A c \in Writes(x) : c.id < new.id
  BY <1>0, <1>1, <1>2 DEF Ordered, LocksHold, NextInLine
<1>11. RowIsNewest' /\ EditsInOrder'
  BY <1>2, <1>7, <1>8, <1>9, <1>10, RowWritten
<1>12. \A c \in log' : c.id <= last
  BY <1>1, <1>2, <1>3 DEF Ordered, Numbered
<1>13. \A d \in Devices : Touched(d)' => x # Project
  BY <1>0, <1>1, <1>3 DEF Ordered, AckHolds, Touched
<1>14. rows'[x].rev # 0
  BY <1>9, <1>10 DEF Follower
<1>15. \A v \in Writers : txn'[v] = txn[v] \/ txn'[v] = Closed
  BY <1>4, <1>5
<1> QED  BY <1>3, <1>6, <1>7, <1>11, <1>12, <1>13, <1>14, <1>15, OthersHold DEF Ordered

\* Targeted changes are no writes.
LEMMA CommitConflictOrdered ==
    ASSUME Ordered, Typed', NEW w \in Writers, CommitConflict(w)
    PROVE  Ordered'
<1> DEFINE new == ChangeOf(txn[w])
<1>1. /\ new.id = txn[w].id /\ new.targeted /\ txn[w].pc = "commit" /\ ~Holds(w)
      /\ log' = log \cup {new} /\ UNCHANGED <<rows, locks, last, dev>>
      /\ txn \in [Writers -> Transaction] /\ txn' = [txn EXCEPT ![w] = Closed]
  BY DEF CommitConflict, ChangeOf, Holds, Close, Becomes, Ordered, Typed, TypeOK
<1> HIDE DEF new
<1>2. \A v \in Writers : v # w => txn'[v] = txn[v] /\ Holds(v)' = Holds(v)
  BY <1>1 DEF Holds
<1>3. txn'[w] = Closed /\ txn'[w].pc = "closed" /\ ~Holds(w)'
  BY <1>1, ClosedTyped DEF Holds
<1>4. \A x : Writes(x)' = Writes(x)
  BY <1>1 DEF Writes
<1>5. Numbered'
  BY <1>1, <1>2, <1>3 DEF Ordered, Numbered
<1>6. LocksHold' /\ AckHolds'
  <2>1. \A v \in Writers : Holds(v)' => Holds(v) /\ txn'[v] = txn[v] /\ txn[v].res \in locks'
    BY <1>1, <1>2, <1>3 DEF Ordered, LocksHold
  <2>2. \A d \in Devices : Touched(d) => Project \in locks'
    BY <1>1 DEF Ordered, AckHolds, Touched
  <2> QED  BY <1>1, <1>4, <2>1, <2>2, HeldAsBefore
<1>7. NextInLine'
  BY <1>2, <1>3, <1>4 DEF Ordered, NextInLine
<1>8. RowIsNewest' /\ EditsInOrder'
  BY <1>1, <1>4, LogUntouched
<1>9. OnlyLosersReport' /\ RollupReady'
  BY <1>1, <1>2, <1>3 DEF Ordered, OnlyLosersReport, RollupReady, RollsUp, Undecided
<1> QED  BY <1>5, <1>6, <1>7, <1>8, <1>9 DEF Ordered

\* A resolved conflict's copy takes the next number and is no write.
LEMMA AckAppendOrdered ==
    ASSUME Ordered, Typed', NEW d \in Devices, AckAppend(d)
    PROVE  Ordered'
<1> DEFINE c == [id |-> last + 1, res |-> dev[d].seen.res, rev |-> dev[d].seen.rev,
                 targeted |-> TRUE, op |-> IF dev[d].seen.gone THEN "DELETE" ELSE "UPSERT"]
<1>1. /\ last' = last + 1 /\ UNCHANGED <<rows, locks, log, ledger, txn>>
      /\ dev \in [Devices -> Device] /\ dev[d] \in Device
      /\ c.targeted /\ c.id = last + 1
  BY DEF AckAppend, Ordered, Typed, TypeOK
<1> HIDE DEF c
<1>2. \A e \in Devices : dev'[e].copies \subseteq dev[e].copies \cup {c}
  BY <1>1 DEF AckAppend, Device, c
<1>3. last \in Nat
  BY DEF Ordered, Typed, TypeOK
<1>4. Numbered'
  <2>1. \A x \in log' : x.id <= last'
    BY <1>1, <1>3 DEF Ordered, Numbered, Typed, TypeOK, Change
  <2>2. \A w \in Writers : txn'[w].pc = "commit" => txn'[w].id <= last'
    BY <1>1, <1>3 DEF Ordered, Numbered, Typed, TypeOK, Transaction
  <2>3. \A e \in Devices : \A x \in dev[e].copies : x.id <= last + 1
    BY <1>3 DEF Ordered, Numbered, Typed, TypeOK, Device, Change
  <2>4. \A e \in Devices : \A x \in dev'[e].copies : x.id <= last'
    BY <1>1, <1>2, <1>3, <2>3
  <2> QED  BY <2>1, <2>2, <2>4 DEF Numbered
<1>5. NextInLine' /\ OnlyLosersReport' /\ RollupReady'
  BY <1>1 DEF Ordered, NextInLine, OnlyLosersReport, RollupReady, RollsUp, Holds, Writes
<1>6. (\A x : Writes(x)' = Writes(x)) /\ \A w \in Writers : Holds(w)' = Holds(w)
  BY <1>1 DEF Writes, Holds
<1>7. LocksHold' /\ AckHolds'
  <2>1. \A w \in Writers : Holds(w) => txn[w].res \in locks'
    BY <1>1 DEF Ordered, LocksHold
  <2>2. \A e \in Devices : Touched(e) => Project \in locks'
    BY <1>1 DEF Ordered, AckHolds, Touched
  <2>3. \A e \in Devices : \A x \in dev'[e].copies : x \in dev[e].copies \/ x.targeted
    BY <1>1, <1>2
  <2> QED  BY <1>1, <1>6, <2>1, <2>2, <2>3, HeldAsBefore
<1>8. RowIsNewest' /\ EditsInOrder'
  BY <1>1, <1>6, LogUntouched
<1> QED  BY <1>4, <1>5, <1>7, <1>8 DEF Ordered

\* The project's change takes the next number while its row is free of others.
LEMMA AckTouchOrdered ==
    ASSUME Ordered, Typed', NEW d \in Devices, AckTouch(d)
    PROVE  Ordered'
<1>0. PICK c : c = [id |-> last + 1, res |-> Project, rev |-> rows[Project].rev + 1,
                    targeted |-> FALSE, op |-> "UPSERT"]
  OBVIOUS
<1>1. /\ last' = last + 1 /\ UNCHANGED <<rows, log, ledger, txn>>
      /\ Project \notin locks /\ locks' = locks \cup {Project}
      /\ dev \in [Devices -> Device] /\ dev[d] \in Device
  BY DEF AckTouch, Ordered, Typed, TypeOK
<1>2. /\ ~c.targeted /\ c.id = last + 1 /\ c.res = Project
      /\ c.rev = rows[Project].rev + 1 /\ c.op = "UPSERT"
  BY <1>0
<1>3. dev' = [dev EXCEPT ![d] = [dev[d] EXCEPT !.copies = {c}, !.pc = "copy"]]
  BY <1>0 DEF AckTouch
<1>4. dev'[d].copies = {c} /\ \A e \in Devices : e # d => dev'[e] = dev[e]
  BY <1>1, <1>3 DEF Device
<1>5. last \in Nat
  BY DEF Ordered, Typed, TypeOK
<1>6. Numbered'
  <2>1. \A x \in log' : x.id <= last'
    BY <1>1, <1>5 DEF Ordered, Numbered, Typed, TypeOK, Change
  <2>2. \A w \in Writers : txn'[w].pc = "commit" => txn'[w].id <= last'
    BY <1>1, <1>5 DEF Ordered, Numbered, Typed, TypeOK, Transaction
  <2>3. \A e \in Devices : \A x \in dev[e].copies : x.id <= last + 1
    BY <1>5 DEF Ordered, Numbered, Typed, TypeOK, Device, Change
  <2>4. \A e \in Devices : \A x \in dev'[e].copies : x.id <= last'
    BY <1>1, <1>2, <1>4, <1>5, <2>3
  <2> QED  BY <2>1, <2>2, <2>4 DEF Numbered
<1>7. NextInLine' /\ OnlyLosersReport' /\ RollupReady'
  BY <1>1 DEF Ordered, NextInLine, OnlyLosersReport, RollupReady, RollsUp, Holds, Writes
<1>8. (\A x : Writes(x)' = Writes(x)) /\ \A w \in Writers : Holds(w)' = Holds(w)
  BY <1>1 DEF Writes, Holds
<1>9. LocksHold'
  BY <1>1, <1>8 DEF Ordered, LocksHold, Follower
<1>10. \A e \in Devices : ~Touched(e) /\ (e # d => Touched(e)' = Touched(e))
  BY <1>1, <1>4 DEF Ordered, AckHolds, Touched
<1>11. SyncsProject(c)'
  <2>1. \A e \in Writes(Project) : e.id < last + 1
    BY <1>5 DEF Ordered, Numbered, Typed, TypeOK, Change, Writes
  <2> QED  BY <1>1, <1>2, <1>8, <2>1 DEF SyncsProject
<1>12. AckHolds'
  <2>1. \A e \in Devices : Touched(e)' => e = d
    BY <1>10
  <2>2. \A w \in Writers : Holds(w)' => txn'[w].res # Project
    BY <1>1, <1>8 DEF Ordered, LocksHold
  <2>3. \A e \in Devices : \A x \in dev'[e].copies : ~x.targeted => e = d /\ x = c
    BY <1>4, <2>1 DEF Touched
  <2> QED  BY <1>1, <1>4, <1>11, <2>1, <2>2, <2>3 DEF AckHolds
<1>13. RowIsNewest' /\ EditsInOrder'
  BY <1>1, <1>8, LogUntouched
<1> QED  BY <1>6, <1>7, <1>9, <1>12, <1>13 DEF Ordered

\* Showing the copies changes no resource's writes but the project's, if it is written.
LEMMA AckCommitOrdered ==
    ASSUME Ordered, Typed', NEW d \in Devices, AckCommit(d)
    PROVE  Ordered'
<1>1. /\ log' = log \cup dev[d].copies /\ UNCHANGED <<last, txn>>
      /\ rows' = [x \in Resources |-> Read(d, x)] /\ locks' = Released(d)
      /\ dev \in [Devices -> Device] /\ dev[d] \in Device /\ dev[d].copies \subseteq Change
      /\ rows \in [Resources -> RowRecord] /\ Typed
  BY DEF AckCommit, Ordered, Typed, TypeOK, Device
<1>2. \A e \in Devices : dev'[e].copies \subseteq dev[e].copies /\ ~Touched(d)'
  BY <1>1 DEF AckCommit, Device, Touched
<1>3. \A c \in log' : c.id <= last
  BY <1>1 DEF Ordered, Numbered
<1>4. \A w \in Writers : Holds(w)' = Holds(w)
  BY <1>1 DEF Holds
<1>5. \A e \in Devices : Touched(e)' => Touched(e) /\ e # d
  BY <1>2 DEF Touched
<1>6. CASE ~Touched(d)
  <2>1. \A x : Writes(x)' = Writes(x)
    BY <1>1, <1>6 DEF Writes, Touched
  <2>2. rows' = rows /\ locks' = locks
    <3>1. \A x \in Resources : Read(d, x) = rows[x]
      BY <1>1, <1>6, ReadIs
    <3> QED  BY <1>1, <1>6, <3>1 DEF Released
  <2>3. \A w \in Writers : Holds(w) => txn[w].res \in locks'
    BY <2>2 DEF Ordered, LocksHold
  <2>4. \A e \in Devices : Touched(e) => Project \in locks'
    BY <2>2 DEF Ordered, AckHolds, Touched
  <2>5. LocksHold' /\ AckHolds'
    BY <1>1, <1>2, <1>4, <2>1, <2>2, <2>3, <2>4, HeldAsBefore
  <2>6. NextInLine' /\ OnlyLosersReport' /\ RollupReady'
    BY <1>1, <1>4, <2>1, <2>2
    DEF Ordered, NextInLine, OnlyLosersReport, RollupReady, RollsUp
  <2>7. Numbered'
    BY <1>1, <1>2, <1>3 DEF Ordered, Numbered
  <2>8. RowIsNewest' /\ EditsInOrder'
    BY <2>1, <2>2, LogUntouched
  <2> QED  BY <2>5, <2>6, <2>7, <2>8 DEF Ordered
<1>7. CASE Touched(d)
  <2>1. PICK new \in dev[d].copies : ~new.targeted
    BY <1>7 DEF Touched
  <2>2. /\ SyncsProject(new) /\ Project \in Resources /\ new \in Change
        /\ \A e \in dev[d].copies : ~e.targeted => e = new
    BY <1>1, <2>1 DEF Ordered, AckHolds, Typed, TypeOK
  <2>3. Writes(Project)' = Writes(Project) \cup {new}
    BY <1>1, <2>1, <2>2 DEF Writes, SyncsProject
  <2>4. rows'[Project].rev = new.rev /\ rows'[Project].deleted = rows[Project].deleted
    BY <1>1, <1>7, <2>2, ReadIs DEF SyncsProject
  <2>5. \A y \in Resources : y # Project => Writes(y)' = Writes(y) /\ rows'[y] = rows[y]
    <3>1. ASSUME NEW y \in Resources, y # Project
          PROVE  Writes(y)' = Writes(y)
      BY <1>1, <2>2, <3>1 DEF Writes, SyncsProject
    <3>2. ASSUME NEW y \in Resources, y # Project
          PROVE  rows'[y] = rows[y]
      BY <1>1, <3>2, ReadIs
    <3> QED  BY <3>1, <3>2
  <2>6. rows[Project].rev \in Nat /\ new.rev = rows[Project].rev + 1 /\ new.op = "UPSERT"
    BY <1>1, <2>2 DEF SyncsProject, RowRecord
  <2>7. Follower(Project, new.op, new.rev) /\ \A c \in Writes(Project) : c.id < new.id
    <3>1. Project \notin Notes
      BY <2>2, ConstantsOK
    <3> QED  BY <2>2, <2>6, <3>1 DEF Follower, SyncsProject
  <2>8. rows'[Project].deleted <=> rows[Project].deleted \/ new.op = "DELETE"
    BY <2>4, <2>6
  <2>9. RowIsNewest' /\ EditsInOrder'
    BY <2>2, <2>3, <2>4, <2>5, <2>7, <2>8, RowWritten
  <2>10. \A v \in Writers : Holds(v)' => txn[v].res # Project
    BY <1>4, <1>7 DEF Ordered, AckHolds
  <2>11. \A e \in Devices : ~Touched(e)'
    BY <1>5, <1>7 DEF Ordered, AckHolds
  <2>12. rows'[Project].rev # 0
    BY <2>4, <2>6
  <2>13. locks' = locks \ {Project}
    BY <1>1, <1>7 DEF Released
  <2> QED  BY <1>1, <1>2, <1>3, <2>2, <2>5, <2>9, <2>10, <2>11, <2>12, <2>13, OthersHold
           DEF Ordered
<1> QED  BY <1>6, <1>7

\* Beginning a write keeps the inductive invariant.
LEMMA StartsOrdered ==
    ASSUME Ordered, Typed', NEW w \in Writers, Starts(w)
    PROVE  Ordered'
<1>1. CASE \E x \in Resources : Create(w, x)
  <2>1. PICK x \in Resources : Create(w, x)
    BY <1>1
  <2> DEFINE state == [Closed EXCEPT !.pc = "append", !.res = x, !.rev = 1]
  <2>2. /\ state.pc = "append" /\ ~state.targeted /\ state.res = x /\ state.rev = 1
    BY DEF Closed
  <2>3. /\ Becomes(w, state) /\ x \notin locks /\ locks' = locks \cup {x}
        /\ rows[x].rev = 0 /\ UNCHANGED <<rows, last, log, dev>>
    BY <2>1 DEF Create
  <2>4. Follower(x, "UPSERT", 1)
    <3>1. ~rows[x].deleted
      BY <2>3 DEF Ordered, EditsInOrder
    <3> QED  BY <2>3, <3>1 DEF Follower
  <2>5. state.op = "UPSERT"
    BY DEF Closed
  <2> HIDE DEF state
  <2> QED  BY <2>2, <2>3, <2>4, <2>5, LockOrdered
<1>2. CASE \E x \in Resources, op \in Op, e \in Nat : Request(w, x, op, e)
  <2>1. PICK x \in Resources, op \in Op, e \in Nat : Request(w, x, op, e)
    BY <1>2
  <2> DEFINE state == [Closed EXCEPT
           !.pc = IF op = "DELETE" \/ x \in Notes THEN "look" ELSE "claim",
           !.res = x, !.op = op, !.rev = e]
  <2>2. state.pc \in {"look", "claim"} /\ ~state.targeted
    BY DEF Closed
  <2>3. Becomes(w, state) /\ locks' = locks /\ UNCHANGED <<rows, last, log, dev>>
    BY <2>1 DEF Request
  <2> HIDE DEF state
  <2> QED  BY <2>2, <2>3, FreeOrdered DEF Undecided
<1>3. \A x \in Resources : rows[x].rev \in Nat
  BY DEF Ordered, Typed, TypeOK, RowRecord
<1>4. CASE \E x \in Resources : Rollup(w, x)
  <2>1. PICK x \in Resources : Rollup(w, x)
    BY <1>4
  <2> DEFINE state == [Closed EXCEPT !.pc = "touch", !.res = x]
  <2>2. state.pc = "touch" /\ ~state.targeted /\ RollsUp(state)
    BY <2>1 DEF Closed, RollsUp, Rollup
  <2>3. Becomes(w, state) /\ locks' = locks /\ UNCHANGED <<rows, last, log, dev>>
    BY <2>1 DEF Rollup
  <2> HIDE DEF state
  <2> QED  BY <2>2, <2>3, FreeOrdered DEF Undecided
<1> QED  BY <1>1, <1>2, <1>3, <1>4 DEF Starts

\* So does each further step of a write.
LEMMA ProceedsOrdered ==
    ASSUME Ordered, Typed', NEW w \in Writers, Proceeds(w)
    PROVE  Ordered'
<1> DEFINE t == txn[w]
<1>1. t \in Transaction
  BY Unpacked DEF Ordered
<1> HIDE DEF t
<1>2. Closed.pc = "closed" /\ (t.pc \in Undecided => ~t.targeted)
  BY ClosedTyped DEF Ordered, OnlyLosersReport, t
<1>3. CASE Look(w)
  <2> DEFINE noted == [t EXCEPT !.gone = rows[t.res].deleted, !.pc = "claim"]
             moved == [t EXCEPT !.pc = IF rows[t.res].rev = t.rev THEN "claim" ELSE "report"]
  <2>1. /\ noted.pc = "claim" /\ ~noted.targeted
        /\ moved.pc \in {"claim", "report"} /\ ~moved.targeted
        /\ t.op \in Op
    BY <1>1, <1>2, <1>3 DEF Look, t, Undecided, Transaction
  <2>2. /\ Becomes(w, noted) \/ Becomes(w, Closed) \/ Becomes(w, moved)
        /\ locks' = locks /\ UNCHANGED <<rows, last, log, dev>>
    BY <1>3, <2>1 DEF Look, Go, Close, t, Op
  <2> HIDE DEF noted, moved
  <2> QED  BY <1>2, <2>1, <2>2, FreeOrdered DEF Undecided
<1>4. CASE ClaimWins(w)
  <2> DEFINE pending == ledger[t.res] # 0 /\ t.op = "UPSERT"
             state   == [t EXCEPT !.pc = "append", !.rev = t.rev + 1, !.clears = pending]
  <2>1. /\ Becomes(w, state) /\ t.res \notin locks /\ locks' = locks \cup {t.res}
        /\ rows[t.res].rev = t.rev /\ ~rows[t.res].deleted
        /\ UNCHANGED <<rows, last, log, dev>>
    BY <1>4 DEF ClaimWins, Matches, t
  <2>2. t.res \in Resources /\ ~t.targeted
    BY <1>2, <1>4, Unpacked DEF ClaimWins, Undecided, t, Ordered
  <2>3. /\ state.pc = "append" /\ state.res = t.res /\ state.rev = t.rev + 1
        /\ state.targeted = t.targeted /\ t.rev \in Nat
    BY <1>1 DEF Transaction
  <2>4. Follower(state.res, state.op, state.rev)
    BY <2>1, <2>3 DEF Follower
  <2> HIDE DEF state
  <2> QED  BY <2>1, <2>2, <2>3, <2>4, LockOrdered
<1>5. CASE ClaimLoses(w)
  <2> DEFINE state == [t EXCEPT !.pc = IF t.op = "UPSERT" /\ t.res \in Notes
                                       THEN "report" ELSE "relook"]
  <2>1. state.pc \in {"report", "relook"} /\ ~state.targeted
    BY <1>1, <1>2, <1>5 DEF ClaimLoses, t, Undecided, Transaction
  <2>2. Becomes(w, state) /\ locks' = locks /\ UNCHANGED <<rows, last, log, dev>>
    BY <1>5 DEF ClaimLoses, Go, t
  <2> HIDE DEF state
  <2> QED  BY <2>1, <2>2, FreeOrdered DEF Undecided
<1>6. CASE Relook(w)
  <2> DEFINE state == [t EXCEPT !.gone = rows[t.res].deleted, !.pc = "report"]
  <2>1. state.pc = "report" /\ ~state.targeted
    BY <1>1, <1>2, <1>6 DEF Relook, t, Undecided, Transaction
  <2>2. /\ Becomes(w, state) \/ Becomes(w, Closed)
        /\ locks' = locks /\ UNCHANGED <<rows, last, log, dev>>
    BY <1>6 DEF Relook, Close, t
  <2> HIDE DEF state
  <2> QED  BY <1>2, <2>1, <2>2, FreeOrdered DEF Undecided
<1>7. CASE Report(w)
  <2> DEFINE state == [t EXCEPT !.pc = "append", !.targeted = TRUE,
                                !.rev = rows[t.res].rev,
                                !.op  = IF t.gone THEN "DELETE" ELSE "UPSERT"]
  <2>1. state.pc = "append" /\ state.targeted
    BY <1>1 DEF Transaction
  <2>2. Becomes(w, state) /\ locks' = locks /\ UNCHANGED <<rows, last, log, dev>>
    BY <1>7 DEF Report, t
  <2> HIDE DEF state
  <2> QED  BY <2>1, <2>2, FreeOrdered DEF Undecided
<1>8. CASE Touch(w)
  <2> DEFINE state == [t EXCEPT !.pc = "append", !.rev = rows[t.res].rev + Count(t.res)]
  <2>1. /\ Becomes(w, state) /\ t.res \notin locks /\ locks' = locks \cup {t.res}
        /\ t.pc = "touch" /\ UNCHANGED <<rows, last, log, dev>>
    BY <1>8 DEF Touch, t
  <2>2. t.res \in Resources /\ rows[t.res].rev \in Nat /\ ~t.targeted /\ RollsUp(t)
    BY <1>2, <2>1, Unpacked DEF Undecided, t, Ordered, RollupReady, RowRecord
  <2>3. /\ state.pc = "append" /\ state.res = t.res /\ state.op = "UPSERT"
        /\ state.rev = rows[t.res].rev + Count(t.res) /\ state.targeted = t.targeted
    BY <1>1, <2>2 DEF Transaction, RollsUp
  <2>4. Follower(state.res, state.op, state.rev)
    BY <2>2, <2>3 DEF Follower, RollsUp, Count
  <2> HIDE DEF state
  <2> QED  BY <2>1, <2>2, <2>3, <2>4, LockOrdered
<1> QED  BY <1>3, <1>4, <1>5, <1>6, <1>7, <1>8, AppendOrdered, CommitWriteOrdered,
            CommitConflictOrdered DEF Proceeds

\* So does the end of a transaction that fails, which frees its lock.
LEMMA AbortOrdered ==
    ASSUME Ordered, Typed', NEW w \in Writers, Abort(w)
    PROVE  Ordered'
<1>1. Becomes(w, Closed) /\ Closed.pc = "closed"
  BY ClosedTyped DEF Abort, Close
<1>2. /\ locks' = locks \/ (Holds(w) /\ locks' = locks \ {txn[w].res})
      /\ UNCHANGED <<rows, last, log, dev>>
  BY DEF Abort
<1> QED  BY <1>1, <1>2, FreeOrdered DEF Undecided

\* So does every step of a device.
LEMMA DevicesOrdered ==
    ASSUME Ordered, Typed', NEW d \in Devices, Advances(d) \/ Drop(d) \/ DropSnapshot(d)
    PROVE  Ordered'
<1> DEFINE v == dev[d]
           Keeps(state) == state.copies \subseteq v.copies
<1>1. v \in Device /\ Typed
  BY DEF Ordered, Typed, TypeOK
<1>2. ASSUME NEW state, Pulls(d, state), Keeps(state)
      PROVE  Ordered'
  BY <1>2, PullOrdered
<1> HIDE DEF v
<1>3. CASE SnapshotMark(d)
  <2>1. PICK m \in Ids(log) \cup {0} :
          Pulls(d, [Marked(d, m) EXCEPT !.pc = "snapshot", !.base = m])
    BY <1>3 DEF SnapshotMark
  <2>2. Marked(d, m) \in Device /\ Marked(d, m).copies = v.copies
    BY <1>1, MarkedTyped DEF v
  <2>3. Keeps([Marked(d, m) EXCEPT !.pc = "snapshot", !.base = m])
    BY <2>2 DEF Device
  <2> HIDE DEF Keeps
  <2> QED  BY <1>2, <2>1, <2>3
<1>4. CASE SnapshotPage(d)
  <2> DEFINE rest  == {c \in Snapshot(v.mark) : c.res > v.after}
             names == {c.res : c \in rest}
             upto(x) == {c \in rest : c.res <= x}
             done  == [Given(v, rest) EXCEPT !.pc = "ready", !.cursor = v.mark,
                                             !.mark = 0, !.after = 0]
             more(x) == [Given(v, upto(x)) EXCEPT !.after = x]
  <2>1. rest \subseteq log /\ \A x : upto(x) \subseteq log
    BY DEF Snapshot
  <2>2. Pulls(d, done) \/ \E x \in names : Pulls(d, more(x))
    BY <1>4 DEF SnapshotPage, v
  <2> HIDE DEF rest, names, upto
  <2>3. Keeps(done)
    <3>1. Given(v, rest) \in Device /\ Given(v, rest).copies = v.copies
      BY <1>1, <2>1, GivenTyped
    <3> QED  BY <3>1 DEF Device
  <2>4. ASSUME NEW x PROVE Keeps(more(x))
    <3>1. Given(v, upto(x)) \in Device /\ Given(v, upto(x)).copies = v.copies
      BY <1>1, <2>1, GivenTyped
    <3> QED  BY <3>1 DEF Device
  <2> HIDE DEF done, more, Keeps
  <2> QED  BY <1>2, <2>2, <2>3, <2>4
<1>5. CASE Pull(d)
  <2> DEFINE state == [v EXCEPT !.todo = Acknowledged(d),
                                !.pc   = IF Acknowledged(d) = {} THEN "mark" ELSE "resolve"]
  <2>1. Pulls(d, state) /\ Keeps(state)
    BY <1>1, <1>5 DEF Pull, v, Device
  <2> HIDE DEF state, Keeps
  <2> QED  BY <1>2, <2>1
<1>6. CASE AckResolve(d)
  <2> DEFINE state == [v EXCEPT !.taken = Acknowledged(d), !.pc = "sync"]
  <2>1. Pulls(d, state) /\ Keeps(state)
    BY <1>1, <1>6 DEF AckResolve, v, Device
  <2> HIDE DEF state, Keeps
  <2> QED  BY <1>2, <2>1
<1>7. CASE \E x \in Resources : AckLook(d, x)
  <2> DEFINE state(x) == [v EXCEPT
               !.seen = [res |-> x, rev |-> Read(d, x).rev, gone |-> rows[x].deleted],
               !.pc   = IF rows[x].deleted THEN "append" ELSE "reread"]
  <2>1. PICK x \in Resources : AckLook(d, x)
    BY <1>7
  <2>2. Pulls(d, state(x)) /\ Keeps(state(x))
    BY <1>1, <2>1 DEF AckLook, v, Device
  <2> HIDE DEF state, Keeps
  <2> QED  BY <1>2, <2>2
<1>8. CASE AckReread(d)
  <2> DEFINE row   == [v.seen EXCEPT !.rev = Read(d, v.seen.res).rev]
             state == [v EXCEPT !.pc = "append", !.seen = row]
  <2>1. Pulls(d, state)
    BY <1>8 DEF AckReread, v
  <2> HIDE DEF row
  <2>2. Keeps(state)
    BY <1>1 DEF Device
  <2> HIDE DEF state, Keeps
  <2> QED  BY <1>2, <2>1, <2>2
<1>9. CASE Mark(d)
  <2>1. PICK m \in Ids(log) \cup {0} : Pulls(d, [Marked(d, m) EXCEPT !.pc = "page"])
    BY <1>9 DEF Mark
  <2>2. Marked(d, m) \in Device /\ Marked(d, m).copies = v.copies
    BY <1>1, MarkedTyped DEF v
  <2>3. Keeps([Marked(d, m) EXCEPT !.pc = "page"])
    BY <2>2 DEF Device
  <2> HIDE DEF Keeps
  <2> QED  BY <1>2, <2>1, <2>3
<1>10. CASE Page(d)
  <2> DEFINE none    == [v EXCEPT !.pc = "ready", !.mark = 0, !.cursor = v.mark]
             upto(i) == {c \in Pending(d) : c.id <= i}
             some(i) == [Given(v, upto(i)) EXCEPT !.pc = "ready", !.mark = 0, !.cursor = i]
  <2>1. Pulls(d, none) \/ \E i \in Ids(Pending(d)) : Pulls(d, some(i))
    BY <1>10 DEF Page, v
  <2>2. Keeps(none)
    BY <1>1 DEF Device
  <2>3. \A i : upto(i) \subseteq log
    BY DEF Pending
  <2> HIDE DEF upto
  <2>4. ASSUME NEW i PROVE Keeps(some(i))
    <3>1. Given(v, upto(i)) \in Device /\ Given(v, upto(i)).copies = v.copies
      BY <1>1, <2>3, GivenTyped
    <3> QED  BY <3>1 DEF Device
  <2> HIDE DEF none, some, Keeps
  <2> QED  BY <1>2, <2>1, <2>2, <2>4
<1>11. CASE Drop(d)
  <2> DEFINE state == [v EXCEPT !.pc = "ready", !.mark = 0, !.todo = {}, !.taken = {},
                                !.copies = {}, !.seen = Unseen]
  <2>1. /\ dev' = [dev EXCEPT ![d] = state] /\ locks' = Released(d)
        /\ UNCHANGED <<rows, last, log, txn>>
    BY <1>11 DEF Drop, v
  <2>2. state.copies = {}
    BY <1>1 DEF Device
  <2> HIDE DEF state
  <2> QED  BY <2>1, <2>2, DeviceOrdered
<1>12. CASE DropSnapshot(d)
  <2>1. Pulls(d, Fresh) /\ Keeps(Fresh)
    BY <1>12 DEF DropSnapshot, Fresh
  <2> HIDE DEF Keeps
  <2> QED  BY <1>2, <2>1
<1>13. CASE AckProject(d)
  <2> DEFINE state(pc) == [v EXCEPT !.pc = pc]
  <2>1. Pulls(d, state("copy")) \/ Pulls(d, state("touch"))
    BY <1>13 DEF AckProject, v
  <2>2. Keeps(state("copy")) /\ Keeps(state("touch"))
    BY <1>1 DEF Device
  <2> HIDE DEF state, Keeps
  <2> QED  BY <1>2, <2>1, <2>2
<1> QED  BY <1>3, <1>4, <1>5, <1>6, <1>7, <1>8, <1>9, <1>10, <1>11, <1>12, <1>13,
            AckTouchOrdered, AckAppendOrdered, AckCommitOrdered DEF Advances

\* Every step keeps the inductive invariant.
LEMMA NextOrdered == Ordered /\ [Next]_vars => Ordered'
<1> SUFFICES ASSUME Ordered, [Next]_vars PROVE Ordered'
  OBVIOUS
<1>1. Typed'
  BY NextTyped DEF Ordered
<1>2. ASSUME NEW w \in Writers, Starts(w) \/ Proceeds(w) \/ Abort(w) PROVE Ordered'
  BY <1>1, <1>2, StartsOrdered, ProceedsOrdered, AbortOrdered
<1>3. ASSUME NEW d \in Devices, Advances(d) \/ Drop(d) \/ DropSnapshot(d) PROVE Ordered'
  BY <1>1, <1>3, DevicesOrdered
<1>4. CASE UNCHANGED vars
  <2>1. /\ UNCHANGED <<rows, locks, last, log, txn, dev>>
        /\ (\A x : Writes(x)' = Writes(x)) /\ \A w \in Writers : Holds(w)' = Holds(w)
    BY <1>4 DEF vars, Writes, Holds
  <2>2. \A w \in Writers : Holds(w) => txn[w].res \in locks'
    BY <2>1 DEF Ordered, LocksHold
  <2>3. \A d \in Devices : Touched(d) => Project \in locks'
    BY <2>1 DEF Ordered, AckHolds, Touched
  <2>4. LocksHold' /\ AckHolds'
    BY <2>1, <2>2, <2>3, HeldAsBefore
  <2>5. RowIsNewest' /\ EditsInOrder'
    BY <2>1, LogUntouched
  <2>6. OnlyLosersReport' /\ RollupReady' /\ Numbered' /\ NextInLine'
    BY <2>1 DEF Ordered, OnlyLosersReport, RollupReady, RollsUp, Numbered, NextInLine
  <2> QED  BY <1>1, <2>4, <2>5, <2>6 DEF Ordered
<1> QED  BY <1>2, <1>3, <1>4 DEF Next

\* The changes that writes make to a resource are numbered in the order of its revisions,
\* the last of them tells the row's revision, and a deletion is among them exactly once if
\* the row is deleted: whatever transactions interleave, lose, abort, roll up or
\* acknowledge meanwhile.
THEOREM OrderCorrect == Spec => []EditsInOrder
<1>1. Ordered => EditsInOrder
  BY DEF Ordered
<1> QED  BY InitOrdered, NextOrdered, <1>1, PTL DEF Spec

-----------------------------------------------------------------------------
(***************************************************************************)
(* Paging.  A number at or below a watermark that a device has read is of  *)
(* a change it can see, or is remembered as late; what commits afterwards  *)
(* is late for it, since no number is used twice.                          *)
(***************************************************************************)

\* The number an open transaction has taken, and those of a pull's copies.
OpenIds(w) == IF txn[w].pc = "commit" THEN {txn[w].id} ELSE {}

CopyIds(d) == Ids(dev[d].copies)

\* No number is 0, and none is used twice.
NumbersDiffer ==
    /\ 0 \notin Ids(log)
    /\ \A w \in Writers : 0 \notin OpenIds(w) /\ OpenIds(w) \cap Ids(log) = {}
    /\ \A d \in Devices : 0 \notin CopyIds(d) /\ CopyIds(d) \cap Ids(log) = {}
    /\ \A v, w \in Writers : v # w => OpenIds(v) \cap OpenIds(w) = {}
    /\ \A d, e \in Devices : d # e => CopyIds(d) \cap CopyIds(e) = {}
    /\ \A w \in Writers, d \in Devices : OpenIds(w) \cap CopyIds(d) = {}

\* The device has gone by the number, or has read a watermark that has.
Behind(v, i) == i <= v.cursor \/ i <= v.mark \/ i <= v.base

LateKnown(v) == \A i \in Nat \ {0} : Behind(v, i) => i \in Ids(log) \cup v.open

\* A device has no cursor before the last page of its snapshot.
NoCursorYet(v) ==
    /\ v.pc \in {"new", "snapshot"} => v.cursor = 0 /\ v.mark = v.base
    /\ v.pc = "new" => v.after = 0

\* Accounted, of a device's state.
AccountedBy(v, c) ==
    \/ c.id \in v.got
    \/ c.id \in v.open
    \/ /\ c.id <= v.base
       /\ \/ c.op = "DELETE"
          \/ \E e \in log : e.res = c.res /\ e.id > c.id /\ e.id <= v.base

\* The pages of a snapshot leave out nothing of the resources they have come to.
SnapshotCovers(v) ==
    v.pc = "snapshot" =>
        \A c \in log : c.id <= v.base /\ c.res <= v.after => AccountedBy(v, c)

CursorCovers(v) == \A c \in log : c.id <= v.cursor => AccountedBy(v, c)

Follows(v) == LateKnown(v) /\ NoCursorYet(v) /\ SnapshotCovers(v) /\ CursorCovers(v)

Paging == \A d \in Devices : Follows(dev[d])

\* An unresolved conflict is one whose refresh is in the log.
LedgerInLog ==
    \A x \in Resources : ledger[x] # 0 => \E c \in log : c.id = ledger[x] /\ c.res = x

\* The steps of a pull that has resolved conflicts and not yet committed.
Resolving == {"sync", "touch", "copy", "reread", "append"}

\* What a pull resolves nobody else resolves or renews before it commits.
TakenIsShown ==
    /\ \A d \in Devices : dev[d].taken # {} => dev[d].pc \in Resolving
    /\ \A d \in Devices : \A x \in dev[d].taken : ledger[x] # 0 /\ ledger[x] <= dev[d].cursor
    /\ \A d, e \in Devices : d # e => dev[d].taken \cap dev[e].taken = {}
    /\ \A d \in Devices, w \in Writers : txn[w].clears => txn[w].res \notin dev[d].taken

AcksInv == LedgerInLog /\ TakenIsShown

FeedInv == Ordered /\ NumbersDiffer /\ Paging /\ AcksInv
\* A step that takes no number and shows no change.
LEMMA NumbersKept ==
    ASSUME NumbersDiffer, log' = log,
           \A w \in Writers : OpenIds(w)' \subseteq OpenIds(w),
           \A d \in Devices : CopyIds(d)' \subseteq CopyIds(d)
    PROVE  NumbersDiffer'
<1>1. Ids(log)' = Ids(log)
  BY DEF Ids
<1> QED  BY <1>1 DEF NumbersDiffer

\* What a device or a transaction carries of numbers.
LEMMA NumbersOf ==
    ASSUME Ordered
    PROVE  /\ last \in Nat
           /\ \A i \in Ids(log) : i \in Nat /\ i <= last
           /\ \A w \in Writers : \A i \in OpenIds(w) : i \in Nat /\ i <= last
           /\ \A d \in Devices : \A i \in CopyIds(d) : i \in Nat /\ i <= last
BY DEF Ordered, Typed, TypeOK, Numbered, Ids, OpenIds, CopyIds, Change, Transaction, Device

\* A number is taken from the sequence, so it is a new one.
LEMMA AppendNumbers ==
    ASSUME Ordered, NumbersDiffer, NEW w \in Writers, Append(w)
    PROVE  NumbersDiffer'
<1>1. /\ txn \in [Writers -> Transaction] /\ log' = log /\ dev' = dev
      /\ txn' = [txn EXCEPT ![w] = [txn[w] EXCEPT !.id = last + 1, !.pc = "commit"]]
  BY DEF Ordered, Typed, TypeOK, Append, Becomes
<1>2. txn'[w].id = last + 1
  BY <1>1 DEF Transaction
<1>3. OpenIds(w)' \subseteq {last + 1}
  BY <1>2 DEF OpenIds
<1>4. \A v \in Writers \ {w} : OpenIds(v)' = OpenIds(v)
  BY <1>1 DEF OpenIds
<1>5. Ids(log)' = Ids(log) /\ \A d \in Devices : CopyIds(d)' = CopyIds(d)
  BY <1>1 DEF Ids, CopyIds
<1>6. /\ last + 1 # 0 /\ last + 1 \notin Ids(log)
      /\ \A v \in Writers : last + 1 \notin OpenIds(v)
      /\ \A d \in Devices : last + 1 \notin CopyIds(d)
  BY NumbersOf
<1> QED  BY <1>3, <1>4, <1>5, <1>6 DEF NumbersDiffer

\* So is that of a copy.
LEMMA AckAppendNumbers ==
    ASSUME Ordered, NumbersDiffer, NEW d \in Devices, AckAppend(d)
    PROVE  NumbersDiffer'
<1> DEFINE c == [id |-> last + 1, res |-> dev[d].seen.res, rev |-> dev[d].seen.rev,
                 targeted |-> TRUE, op |-> IF dev[d].seen.gone THEN "DELETE" ELSE "UPSERT"]
<1>1. /\ dev \in [Devices -> Device] /\ log' = log /\ txn' = txn
      /\ dev' = [dev EXCEPT ![d] = [dev[d] EXCEPT !.copies = @ \cup {c}, !.todo = @ \ {c.res},
                                                  !.seen = Unseen, !.pc = "copy"]]
      /\ c.id = last + 1
  BY DEF Ordered, Typed, TypeOK, AckAppend
<1> HIDE DEF c
<1>2. dev'[d].copies = dev[d].copies \cup {c}
  BY <1>1 DEF Device
<1>3. CopyIds(d)' = CopyIds(d) \cup {last + 1}
  BY <1>1, <1>2 DEF CopyIds, Ids
<1>4. \A e \in Devices \ {d} : CopyIds(e)' = CopyIds(e)
  BY <1>1 DEF CopyIds
<1>5. Ids(log)' = Ids(log) /\ \A w \in Writers : OpenIds(w)' = OpenIds(w)
  BY <1>1 DEF Ids, OpenIds
<1>6. /\ last + 1 # 0 /\ last + 1 \notin Ids(log)
      /\ \A v \in Writers : last + 1 \notin OpenIds(v)
      /\ \A e \in Devices : last + 1 \notin CopyIds(e)
  BY NumbersOf
<1> QED  BY <1>3, <1>4, <1>5, <1>6 DEF NumbersDiffer

\* So is that of the project's change.
LEMMA AckTouchNumbers ==
    ASSUME Ordered, NumbersDiffer, NEW d \in Devices, AckTouch(d)
    PROVE  NumbersDiffer'
<1>1. PICK c : c = [id |-> last + 1, res |-> Project, rev |-> rows[Project].rev + 1,
                    targeted |-> FALSE, op |-> "UPSERT"]
  OBVIOUS
<1>2. /\ dev \in [Devices -> Device] /\ log' = log /\ txn' = txn
      /\ dev' = [dev EXCEPT ![d] = [dev[d] EXCEPT !.copies = {c}, !.pc = "copy"]]
      /\ c.id = last + 1
  BY <1>1 DEF Ordered, Typed, TypeOK, AckTouch
<1>3. dev'[d].copies = {c}
  BY <1>2 DEF Device
<1>4. CopyIds(d)' = {last + 1}
  BY <1>2, <1>3 DEF CopyIds, Ids
<1>5. \A e \in Devices \ {d} : CopyIds(e)' = CopyIds(e)
  BY <1>2 DEF CopyIds
<1>6. Ids(log)' = Ids(log) /\ \A w \in Writers : OpenIds(w)' = OpenIds(w)
  BY <1>2 DEF Ids, OpenIds
<1>7. /\ last + 1 # 0 /\ last + 1 \notin Ids(log)
      /\ \A v \in Writers : last + 1 \notin OpenIds(v)
      /\ \A e \in Devices : last + 1 \notin CopyIds(e)
  BY NumbersOf
<1> QED  BY <1>4, <1>5, <1>6, <1>7 DEF NumbersDiffer

\* A transaction's change comes into the log with its number.
LEMMA CommitNumbers ==
    ASSUME Ordered, NumbersDiffer, NEW w \in Writers, CommitWrite(w) \/ CommitConflict(w)
    PROVE  /\ NumbersDiffer'
           /\ Ids(log)' = Ids(log) \cup OpenIds(w)
           /\ txn[w].id \in OpenIds(w)
<1>1. /\ txn \in [Writers -> Transaction] /\ log' = log \cup {ChangeOf(txn[w])} /\ dev' = dev
      /\ txn' = [txn EXCEPT ![w] = Closed] /\ txn[w].pc = "commit"
  BY DEF Ordered, Typed, TypeOK, CommitWrite, CommitConflict, Close, Becomes
<1>2. OpenIds(w) = {txn[w].id}
  BY <1>1 DEF OpenIds
<1>3. Ids(log)' = Ids(log) \cup {txn[w].id}
  <2>1. PICK c : c = ChangeOf(txn[w])
    OBVIOUS
  <2>2. c.id = txn[w].id /\ log' = log \cup {c}
    BY <1>1, <2>1 DEF ChangeOf
  <2> QED  BY <2>2 DEF Ids
<1>4. OpenIds(w)' = {}
  BY <1>1, ClosedTyped DEF OpenIds
<1>5. \A v \in Writers \ {w} : OpenIds(v)' = OpenIds(v)
  BY <1>1 DEF OpenIds
<1>6. \A d \in Devices : CopyIds(d)' = CopyIds(d)
  BY <1>1 DEF CopyIds
<1>7. NumbersDiffer'
  BY <1>2, <1>3, <1>4, <1>5, <1>6 DEF NumbersDiffer
<1> QED  BY <1>2, <1>3, <1>7

\* So do the copies of a pull.
LEMMA AckCommitNumbers ==
    ASSUME Ordered, NumbersDiffer, NEW d \in Devices, AckCommit(d)
    PROVE  NumbersDiffer' /\ Ids(log)' = Ids(log) \cup CopyIds(d)
<1>1. /\ dev \in [Devices -> Device] /\ log' = log \cup dev[d].copies /\ txn' = txn
      /\ dev' = [dev EXCEPT ![d] = [dev[d] EXCEPT !.taken = {}, !.copies = {}, !.pc = "mark"]]
  BY DEF Ordered, Typed, TypeOK, AckCommit
<1>2. dev'[d].copies = {}
  BY <1>1 DEF Device
<1>3. CopyIds(d)' = {}
  BY <1>2 DEF CopyIds, Ids
<1>4. \A e \in Devices \ {d} : CopyIds(e)' = CopyIds(e)
  BY <1>1 DEF CopyIds
<1>5. Ids(log)' = Ids(log) \cup CopyIds(d)
  BY <1>1 DEF Ids, CopyIds
<1>6. \A w \in Writers : OpenIds(w)' = OpenIds(w)
  BY <1>1 DEF OpenIds
<1> QED  BY <1>3, <1>4, <1>5, <1>6 DEF NumbersDiffer

\* A device's reading depends on the fields that say what it has read.
LEMMA SameReading ==
    ASSUME NEW v, NEW u, Follows(v),
           u.cursor = v.cursor, u.mark = v.mark, u.base = v.base, u.after = v.after,
           u.got = v.got, u.open = v.open,
           u.pc \in {"new", "snapshot"} => u.pc = v.pc
    PROVE  Follows(u)
BY DEF Follows, LateKnown, Behind, NoCursorYet, SnapshotCovers, CursorCovers, AccountedBy

\* What becomes visible afterwards is late for whoever has gone by its number.
LEMMA LogGrows ==
    ASSUME Typed, Typed', NEW v \in Device, Follows(v), log \subseteq log',
           \A c \in log' : c \in log \/ c.id \notin Ids(log) \cup {0}
    PROVE  Follows(v)'
<1>1. Ids(log) \subseteq Ids(log)'
  BY DEF Ids
<1>2. LateKnown(v)' /\ NoCursorYet(v)'
  BY <1>1 DEF Follows, LateKnown, Behind, NoCursorYet
<1>3. ASSUME NEW c, AccountedBy(v, c) PROVE AccountedBy(v, c)'
  BY <1>3 DEF AccountedBy
<1>4. ASSUME NEW c \in log', Behind(v, c.id), c \notin log PROVE AccountedBy(v, c)'
  <2>1. c.id \in Nat \ {0} /\ c.id \notin Ids(log)
    BY <1>4 DEF Typed, TypeOK, Change
  <2>2. c.id \in v.open
    BY <1>4, <2>1 DEF Follows, LateKnown
  <2> QED  BY <2>2 DEF AccountedBy
<1>5. SnapshotCovers(v)'
  BY <1>3, <1>4 DEF Follows, SnapshotCovers, Behind
<1>6. CursorCovers(v)'
  BY <1>3, <1>4 DEF Follows, CursorCovers, Behind
<1> QED  BY <1>2, <1>5, <1>6 DEF Follows

\* A step that changes what one device has read, and no change in the log.
LEMMA TurnPaging ==
    ASSUME Typed, Paging, NEW d \in Devices, NEW v, Follows(v),
           dev' = [dev EXCEPT ![d] = v], log' = log
    PROVE  Paging'
<1>1. log' = log /\ dev' = [dev EXCEPT ![d] = v] /\ dev \in [Devices -> Device]
  BY DEF Typed, TypeOK
<1>2. ASSUME NEW u, Follows(u) PROVE Follows(u)'
  BY <1>1, <1>2 DEF Follows, LateKnown, Behind, NoCursorYet, SnapshotCovers, CursorCovers,
                    AccountedBy, Ids
<1>3. ASSUME NEW e \in Devices PROVE Follows(dev[e])'
  <2>1. PICK u : u = dev'[e]
    OBVIOUS
  <2>2. u = v \/ u = dev[e]
    BY <1>1, <2>1
  <2>3. Follows(u)'
    BY <1>2, <2>2 DEF Paging
  <2> QED  BY <2>1, <2>3 DEF Follows, LateKnown, Behind, NoCursorYet, SnapshotCovers,
                             CursorCovers, AccountedBy
<1> QED  BY <1>3 DEF Paging

\* As most steps of a pull are.
LEMMA ReadPaging ==
    ASSUME Typed, Paging, NEW d \in Devices, NEW v, Follows(v), Pulls(d, v)
    PROVE  Paging'
BY TurnPaging DEF Pulls

\* A step by which no device reads anything.
LEMMA QuietPaging ==
    ASSUME Typed, Typed', Paging, log \subseteq log',
           \A c \in log' : c \in log \/ c.id \notin Ids(log) \cup {0},
           \A e \in Devices :
              /\ dev'[e].cursor = dev[e].cursor /\ dev'[e].mark = dev[e].mark
              /\ dev'[e].base = dev[e].base /\ dev'[e].after = dev[e].after
              /\ dev'[e].got = dev[e].got /\ dev'[e].open = dev[e].open
              /\ dev'[e].pc \in {"new", "snapshot"} => dev'[e].pc = dev[e].pc
    PROVE  Paging'
<1> SUFFICES ASSUME NEW e \in Devices PROVE Follows(dev[e])'
  BY DEF Paging
<1>1. PICK u : u = dev'[e]
  OBVIOUS
<1>2. u \in Device
  BY <1>1 DEF Typed, TypeOK
<1>3. Follows(u)
  <2>1. Follows(dev[e])
    BY DEF Paging
  <2> QED  BY <1>1, <2>1, SameReading
<1>4. Follows(u)'
  BY <1>2, <1>3, LogGrows
<1> QED  BY <1>1, <1>4 DEF Follows, LateKnown, Behind, NoCursorYet, SnapshotCovers,
                           CursorCovers, AccountedBy

\* A device that has read nothing has nothing behind it.
LEMMA FreshFollows == NumbersDiffer /\ Typed => Follows(Fresh)
<1> SUFFICES ASSUME NumbersDiffer, Typed PROVE Follows(Fresh)
  OBVIOUS
<1>1. \A c \in log : c.id \in Nat \ {0}
  BY DEF NumbersDiffer, Typed, TypeOK, Change, Ids
<1> QED  BY <1>1 DEF Fresh, Follows, LateKnown, Behind, NoCursorYet, SnapshotCovers, CursorCovers

\* Reading a watermark notes the numbers below it that nobody can see yet.
LEMMA MarkedLate ==
    ASSUME Typed, NEW d \in Devices, LateKnown(dev[d]), NEW m \in Ids(log) \cup {0}, NEW v,
           v.cursor = dev[d].cursor, v.mark = m, v.base \in {dev[d].base, m},
           v.open = Marked(d, m).open
    PROVE  LateKnown(v)
<1>1. dev[d] \in Device /\ m \in Nat
  BY MarkedTyped DEF Typed, TypeOK
<1>2. v.open = dev[d].open \cup ((1..m) \ Ids(log))
  BY <1>1 DEF Marked, Device
<1>3. ASSUME NEW i \in Nat \ {0}, i <= m PROVE i \in Ids(log) \cup v.open
  BY <1>1, <1>2, <1>3
<1>4. ASSUME NEW i \in Nat \ {0}, Behind(dev[d], i) PROVE i \in Ids(log) \cup v.open
  BY <1>2, <1>4 DEF LateKnown
<1> QED  BY <1>3, <1>4 DEF LateKnown, Behind

\* A snapshot and a pull begin with a watermark.
LEMMA MarksFollow ==
    ASSUME Typed, NumbersDiffer, Paging, NEW d \in Devices, SnapshotMark(d) \/ Mark(d)
    PROVE  Paging'
<1>1. dev[d] \in Device /\ Follows(dev[d])
  BY DEF Typed, TypeOK, Paging
<1>2. PICK m \in Ids(log) \cup {0} :
        \/ dev[d].pc = "new" /\ Pulls(d, [Marked(d, m) EXCEPT !.pc = "snapshot", !.base = m])
        \/ dev[d].pc = "mark" /\ Pulls(d, [Marked(d, m) EXCEPT !.pc = "page"])
  BY DEF SnapshotMark, Mark
<1>3. m \in Nat /\ Marked(d, m) \in Device
  BY MarkedTyped
<1>4. /\ Marked(d, m).mark = m /\ Marked(d, m).base = dev[d].base
      /\ Marked(d, m).cursor = dev[d].cursor /\ Marked(d, m).after = dev[d].after
      /\ Marked(d, m).got = dev[d].got /\ dev[d].open \subseteq Marked(d, m).open
  BY <1>1 DEF Marked, Device
<1>5. \A c \in log : c.id \in Nat \ {0} /\ c.res \in Nat \ {0}
  BY ConstantsOK DEF NumbersDiffer, Typed, TypeOK, Change, Ids
<1>6. CASE dev[d].pc = "new" /\ Pulls(d, [Marked(d, m) EXCEPT !.pc = "snapshot", !.base = m])
  <2> DEFINE v == [Marked(d, m) EXCEPT !.pc = "snapshot", !.base = m]
  <2>1. /\ v.pc = "snapshot" /\ v.mark = m /\ v.base = m /\ v.cursor = dev[d].cursor
        /\ v.after = dev[d].after /\ v.open = Marked(d, m).open
    BY <1>3, <1>4 DEF Device
  <2> HIDE DEF v
  <2>2. dev[d].cursor = 0 /\ dev[d].after = 0
    BY <1>1, <1>6 DEF Follows, NoCursorYet
  <2>3. LateKnown(v)
    BY <1>1, <2>1, MarkedLate DEF Follows
  <2>4. NoCursorYet(v) /\ SnapshotCovers(v) /\ CursorCovers(v)
    BY <1>5, <2>1, <2>2 DEF NoCursorYet, SnapshotCovers, CursorCovers
  <2>5. Pulls(d, v)
    BY <1>6 DEF v
  <2> QED  BY <2>3, <2>4, <2>5, ReadPaging DEF Follows
<1>7. CASE dev[d].pc = "mark" /\ Pulls(d, [Marked(d, m) EXCEPT !.pc = "page"])
  <2> DEFINE v == [Marked(d, m) EXCEPT !.pc = "page"]
  <2>1. /\ v.pc = "page" /\ v.mark = m /\ v.base = dev[d].base /\ v.cursor = dev[d].cursor
        /\ v.got = dev[d].got /\ v.open = Marked(d, m).open
    BY <1>3, <1>4 DEF Device
  <2> HIDE DEF v
  <2>2. LateKnown(v)
    BY <1>1, <2>1, MarkedLate DEF Follows
  <2>3. NoCursorYet(v) /\ SnapshotCovers(v)
    BY <2>1 DEF NoCursorYet, SnapshotCovers
  <2>4. CursorCovers(v)
    BY <1>1, <1>4, <2>1 DEF Follows, CursorCovers, AccountedBy
  <2>5. Pulls(d, v)
    BY <1>7 DEF v
  <2> QED  BY <2>2, <2>3, <2>4, <2>5, ReadPaging DEF Follows
<1> QED  BY <1>2, <1>6, <1>7

\* A snapshot leaves out what is deleted or has a later change below the watermark.
LEMMA SnapshotLeavesOut ==
    ASSUME Typed, NEW d \in Devices, dev[d].mark = dev[d].base,
           NEW c \in log, c.id <= dev[d].base, c \notin Snapshot(dev[d].mark)
    PROVE  AccountedBy(dev[d], c)
<1>1. c.op \in Op /\ \A e \in log : e.id \in Nat
  BY DEF Typed, TypeOK, Change
<1>2. CASE c.op # "UPSERT"
  BY <1>1, <1>2 DEF AccountedBy, Op
<1>3. CASE c.op = "UPSERT"
  <2>1. PICK e \in log : e.id <= dev[d].base /\ e.res = c.res /\ ~(e.id <= c.id)
    BY <1>3 DEF Snapshot, Newest
  <2>2. e.id > c.id
    BY <1>1, <2>1
  <2> QED  BY <2>1, <2>2 DEF AccountedBy
<1> QED  BY <1>2, <1>3

\* A page of the snapshot has all that is of use of the resources up to its last one, and
\* the last page has the rest.
LEMMA SnapshotPageFollows ==
    ASSUME Typed, Paging, NEW d \in Devices, SnapshotPage(d)
    PROVE  Paging'
<1> DEFINE rest  == {c \in Snapshot(dev[d].mark) : c.res > dev[d].after}
           names == {c.res : c \in rest}
           upto(x) == {c \in rest : c.res <= x}
           done  == [Given(dev[d], rest) EXCEPT !.pc = "ready", !.cursor = dev[d].mark,
                                                !.mark = 0, !.after = 0]
           more(x) == [Given(dev[d], upto(x)) EXCEPT !.after = x]
<1>1. dev[d] \in Device /\ Follows(dev[d]) /\ dev[d].pc = "snapshot"
  BY DEF Typed, TypeOK, Paging, SnapshotPage
<1>2. dev[d].mark = dev[d].base /\ dev[d].cursor = 0
  BY <1>1 DEF Follows, NoCursorYet
<1>3. Pulls(d, done) \/ \E x \in names : Pulls(d, more(x))
  BY DEF SnapshotPage
<1>4. rest \subseteq log /\ \A x : upto(x) \subseteq log
  BY DEF Snapshot
<1>5. ASSUME NEW c \in log, c.id <= dev[d].base PROVE AccountedBy(dev[d], c) \/ c \in rest
  <2>1. c.res \in Nat /\ dev[d].after \in Nat
    BY <1>1, ConstantsOK DEF Typed, TypeOK, Change, Device
  <2>2. CASE c.res <= dev[d].after
    BY <1>1, <1>5, <2>2 DEF Follows, SnapshotCovers
  <2>3. CASE c \notin Snapshot(dev[d].mark)
    BY <1>2, <1>5, <2>3, SnapshotLeavesOut
  <2> QED  BY <2>1, <2>2, <2>3
<1> HIDE DEF rest, upto
<1>6. ASSUME Pulls(d, done) PROVE Paging'
  <2>1. Given(dev[d], rest) \in Device /\ Given(dev[d], rest).got = dev[d].got \cup Ids(rest)
    BY <1>1, <1>4, GivenTyped DEF Given, Device
  <2>2. Given(dev[d], rest).base = dev[d].base /\ Given(dev[d], rest).open = dev[d].open
    BY <1>1 DEF Given, Device
  <2>3. /\ done.pc = "ready" /\ done.cursor = dev[d].mark /\ done.mark = 0
        /\ done.base = dev[d].base /\ done.open = dev[d].open
        /\ done.got = dev[d].got \cup Ids(rest)
    BY <2>1, <2>2 DEF Device
  <2>4. Pulls(d, done)
    BY <1>6
  <2> HIDE DEF done
  <2>5. LateKnown(done)
    BY <1>1, <1>2, <2>3 DEF Follows, LateKnown, Behind
  <2>6. NoCursorYet(done) /\ SnapshotCovers(done)
    BY <2>3 DEF NoCursorYet, SnapshotCovers
  <2>7. CursorCovers(done)
    BY <1>2, <1>5, <2>3 DEF CursorCovers, AccountedBy, Ids
  <2> QED  BY <2>4, <2>5, <2>6, <2>7, ReadPaging DEF Follows
<1>7. ASSUME NEW x \in names, Pulls(d, more(x)) PROVE Paging'
  <2>0. x \in Nat
    BY <1>4, ConstantsOK DEF Typed, TypeOK, Change
  <2>1. Given(dev[d], upto(x)) \in Device
        /\ Given(dev[d], upto(x)).got = dev[d].got \cup Ids(upto(x))
    BY <1>1, <1>4, GivenTyped DEF Given, Device
  <2>2. /\ Given(dev[d], upto(x)).base = dev[d].base
        /\ Given(dev[d], upto(x)).open = dev[d].open
        /\ Given(dev[d], upto(x)).mark = dev[d].mark
        /\ Given(dev[d], upto(x)).cursor = dev[d].cursor
        /\ Given(dev[d], upto(x)).pc = dev[d].pc
    BY <1>1 DEF Given, Device
  <2>3. /\ more(x).pc = "snapshot" /\ more(x).cursor = 0 /\ more(x).mark = dev[d].base
        /\ more(x).base = dev[d].base /\ more(x).open = dev[d].open
        /\ more(x).got = dev[d].got \cup Ids(upto(x)) /\ more(x).after = x
    BY <1>1, <1>2, <2>1, <2>2 DEF Device
  <2>4. Pulls(d, more(x))
    BY <1>7
  <2>5. PICK v : v = more(x)
    OBVIOUS
  <2> HIDE DEF more
  <2>6. LateKnown(v)
    BY <1>1, <1>2, <2>3, <2>5 DEF Follows, LateKnown, Behind
  <2>7. NoCursorYet(v)
    BY <2>3, <2>5 DEF NoCursorYet
  <2>8. \A c \in rest : c.res <= x => c.id \in Ids(upto(x))
    BY DEF Ids, upto
  <2>9. SnapshotCovers(v)
    BY <1>5, <2>3, <2>5, <2>8 DEF SnapshotCovers, AccountedBy
  <2>10. CursorCovers(v)
    BY <1>1, <1>2, <2>3, <2>5 DEF Follows, CursorCovers, AccountedBy
  <2> QED  BY <2>4, <2>5, <2>6, <2>7, <2>9, <2>10, ReadPaging DEF Follows
<1> QED  BY <1>3, <1>6, <1>7

\* A page gives all that is in the log between the cursor and the next cursor.
LEMMA PageFollows ==
    ASSUME Typed, Paging, NEW d \in Devices, Page(d)
    PROVE  Paging'
<1> DEFINE upto(i) == {c \in Pending(d) : c.id <= i}
           none    == [dev[d] EXCEPT !.pc = "ready", !.mark = 0, !.cursor = dev[d].mark]
           some(i) == [Given(dev[d], upto(i)) EXCEPT !.pc = "ready", !.mark = 0, !.cursor = i]
<1>1. dev[d] \in Device /\ Follows(dev[d])
  BY DEF Typed, TypeOK, Paging
<1>2. /\ \A c \in log : c.id \in Nat
      /\ dev[d].cursor \in Nat /\ dev[d].mark \in Nat
  BY <1>1 DEF Typed, TypeOK, Change, Device
<1>3. \/ Pending(d) = {} /\ Pulls(d, none)
      \/ \E i \in Ids(Pending(d)) : Pulls(d, some(i))
  BY DEF Page
<1>4. \A i : upto(i) \subseteq log
  BY DEF Pending
<1>5. \A c \in log : c.id <= dev[d].mark => c.id <= dev[d].cursor \/ c \in Pending(d)
  BY <1>2 DEF Pending
<1> HIDE DEF upto
<1>6. ASSUME Pending(d) = {}, Pulls(d, none) PROVE Paging'
  <2>1. /\ none.pc = "ready" /\ none.cursor = dev[d].mark /\ none.mark = 0
        /\ none.base = dev[d].base /\ none.open = dev[d].open /\ none.got = dev[d].got
    BY <1>1 DEF Device
  <2>2. Pulls(d, none)
    BY <1>6
  <2> HIDE DEF none
  <2>3. LateKnown(none)
    BY <1>1, <2>1 DEF Follows, LateKnown, Behind
  <2>4. NoCursorYet(none) /\ SnapshotCovers(none)
    BY <2>1 DEF NoCursorYet, SnapshotCovers
  <2>5. CursorCovers(none)
    BY <1>1, <1>5, <1>6, <2>1 DEF Follows, CursorCovers, AccountedBy
  <2> QED  BY <2>2, <2>3, <2>4, <2>5, ReadPaging DEF Follows
<1>7. ASSUME NEW i \in Ids(Pending(d)), Pulls(d, some(i)) PROVE Paging'
  <2>0. i \in Nat /\ i <= dev[d].mark
    BY <1>2 DEF Pending, Ids
  <2>1. Given(dev[d], upto(i)) \in Device
        /\ Given(dev[d], upto(i)).got = dev[d].got \cup Ids(upto(i))
    BY <1>1, <1>4, GivenTyped DEF Given, Device
  <2>2. Given(dev[d], upto(i)).base = dev[d].base /\ Given(dev[d], upto(i)).open = dev[d].open
    BY <1>1 DEF Given, Device
  <2>3. /\ some(i).pc = "ready" /\ some(i).cursor = i /\ some(i).mark = 0
        /\ some(i).base = dev[d].base /\ some(i).open = dev[d].open
        /\ some(i).got = dev[d].got \cup Ids(upto(i))
    BY <2>1, <2>2 DEF Device
  <2>4. PICK v : v = some(i)
    OBVIOUS
  <2>5. Pulls(d, v)
    BY <1>7, <2>4
  <2> HIDE DEF some
  <2>6. LateKnown(v)
    BY <1>1, <1>2, <2>0, <2>3, <2>4 DEF Follows, LateKnown, Behind
  <2>7. NoCursorYet(v) /\ SnapshotCovers(v)
    BY <2>3, <2>4 DEF NoCursorYet, SnapshotCovers
  <2>8. \A c \in Pending(d) : c.id <= i => c.id \in Ids(upto(i))
    BY DEF Ids, upto
  <2>9. \A c \in log : c.id <= i => c.id <= dev[d].cursor \/ c \in Pending(d)
    BY <1>2, <1>5, <2>0
  <2>10. CursorCovers(v)
    BY <1>1, <2>3, <2>4, <2>8, <2>9 DEF Follows, CursorCovers, AccountedBy
  <2> QED  BY <2>5, <2>6, <2>7, <2>10, ReadPaging DEF Follows
<1> QED  BY <1>3, <1>6, <1>7

\* A pull that is lost takes nothing back, and a snapshot that is lost gave no cursor.
LEMMA DropPaging ==
    ASSUME Typed, NumbersDiffer, Paging, NEW d \in Devices, Drop(d) \/ DropSnapshot(d)
    PROVE  Paging'
<1> DEFINE state == [dev[d] EXCEPT !.pc = "ready", !.mark = 0, !.todo = {}, !.taken = {},
                              !.copies = {}, !.seen = Unseen]
<1>1. dev[d] \in Device /\ Follows(dev[d])
  BY DEF Typed, TypeOK, Paging
<1>2. /\ dev' = [dev EXCEPT ![d] = state] \/ dev' = [dev EXCEPT ![d] = Fresh]
      /\ log' = log
  BY DEF Drop, DropSnapshot, Pulls
<1>3. /\ state.pc = "ready" /\ state.cursor = dev[d].cursor /\ state.mark = 0
      /\ state.base = dev[d].base /\ state.open = dev[d].open /\ state.got = dev[d].got
  BY <1>1 DEF Device
<1> HIDE DEF state
<1>4. LateKnown(state)
  BY <1>1, <1>3 DEF Follows, LateKnown, Behind
<1>5. NoCursorYet(state) /\ SnapshotCovers(state) /\ CursorCovers(state)
  BY <1>1, <1>3 DEF Follows, NoCursorYet, SnapshotCovers, CursorCovers, AccountedBy
<1> QED  BY <1>2, <1>4, <1>5, FreshFollows, TurnPaging DEF Follows

-----------------------------------------------------------------------------
(* The steps of transactions. *)

\* A transaction's step that shows nothing, and means to resolve only what nobody else does.
LEMMA TxnFeed ==
    ASSUME FeedInv, Ordered', NumbersDiffer', NEW w \in Writers, NEW state, Becomes(w, state),
           state.clears => \/ ~ConflictLocked(state.res)
                           \/ txn[w].clears /\ txn[w].res = state.res,
           UNCHANGED <<log, ledger, dev>>
    PROVE  FeedInv'
<1>1. txn \in [Writers -> Transaction] /\ txn' = [txn EXCEPT ![w] = state] /\ Typed /\ Typed'
  BY DEF FeedInv, Ordered, Typed, TypeOK, Becomes
<1>2. Paging'
  BY <1>1, QuietPaging DEF FeedInv
<1>3. LedgerInLog'
  BY DEF FeedInv, AcksInv, LedgerInLog
<1>4. \A v \in Writers, d \in Devices : txn'[v].clears => txn'[v].res \notin dev[d].taken
  <2>1. \A v \in Writers : txn'[v] = txn[v] \/ (v = w /\ txn'[v] = state)
    BY <1>1
  <2> QED  BY <2>1 DEF FeedInv, AcksInv, TakenIsShown, ConflictLocked
<1>5. TakenIsShown'
  BY <1>4 DEF FeedInv, AcksInv, TakenIsShown
<1> QED  BY <1>2, <1>3, <1>5 DEF FeedInv, AcksInv

\* Most of them take no number either.
LEMMA FreeFeed ==
    ASSUME FeedInv, Ordered', NEW w \in Writers, NEW state, Becomes(w, state),
           state.pc # "commit",
           state.clears => \/ ~ConflictLocked(state.res)
                           \/ txn[w].clears /\ txn[w].res = state.res,
           UNCHANGED <<log, ledger, dev>>
    PROVE  FeedInv'
<1>1. txn \in [Writers -> Transaction] /\ txn' = [txn EXCEPT ![w] = state]
  BY DEF FeedInv, Ordered, Typed, TypeOK, Becomes
<1>2. \A v \in Writers : OpenIds(v)' \subseteq OpenIds(v)
  BY <1>1 DEF OpenIds
<1>3. \A d \in Devices : CopyIds(d)' \subseteq CopyIds(d)
  BY DEF CopyIds
<1>4. NumbersDiffer'
  BY <1>2, <1>3, NumbersKept DEF FeedInv
<1> QED  BY <1>4, TxnFeed

\* Beginning a write keeps the invariant.
LEMMA StartsFeed ==
    ASSUME FeedInv, Ordered', NEW w \in Writers, Starts(w)
    PROVE  FeedInv'
<1>1. ASSUME NEW x \in Resources, Create(w, x) PROVE FeedInv'
  <2> DEFINE state == [Closed EXCEPT !.pc = "append", !.res = x, !.rev = 1]
  <2>1. state.pc = "append" /\ ~state.clears
    BY DEF Closed
  <2>2. Becomes(w, state) /\ UNCHANGED <<log, ledger, dev>>
    BY <1>1 DEF Create
  <2> HIDE DEF state
  <2> QED  BY <2>1, <2>2, FreeFeed
<1>2. ASSUME NEW x \in Resources, NEW op \in Op, NEW e, Request(w, x, op, e) PROVE FeedInv'
  <2> DEFINE state == [Closed EXCEPT
           !.pc = IF op = "DELETE" \/ x \in Notes THEN "look" ELSE "claim",
           !.res = x, !.op = op, !.rev = e]
  <2>1. state.pc \in {"look", "claim"} /\ ~state.clears
    BY DEF Closed
  <2>2. Becomes(w, state) /\ UNCHANGED <<log, ledger, dev>>
    BY <1>2 DEF Request
  <2> HIDE DEF state
  <2> QED  BY <2>1, <2>2, FreeFeed
<1>3. ASSUME NEW x \in Resources, Rollup(w, x) PROVE FeedInv'
  <2> DEFINE state == [Closed EXCEPT !.pc = "touch", !.res = x]
  <2>1. state.pc = "touch" /\ ~state.clears
    BY DEF Closed
  <2>2. Becomes(w, state) /\ UNCHANGED <<log, ledger, dev>>
    BY <1>3 DEF Rollup
  <2> HIDE DEF state
  <2> QED  BY <2>1, <2>2, FreeFeed
<1> QED  BY <1>1, <1>2, <1>3 DEF Starts

\* A write is seen, with its change and the conflict it resolves.
LEMMA CommitWriteFeed ==
    ASSUME FeedInv, Ordered', NEW w \in Writers, CommitWrite(w)
    PROVE  FeedInv'
<1> DEFINE x == txn[w].res
<1>1. /\ txn \in [Writers -> Transaction] /\ txn' = [txn EXCEPT ![w] = Closed]
      /\ Typed /\ Typed' /\ dev' = dev /\ ledger \in [Resources -> Nat]
  BY DEF FeedInv, Ordered, Typed, TypeOK, CommitWrite, Close, Becomes
<1>2. /\ log' = log \cup {ChangeOf(txn[w])}
      /\ ledger' = IF txn[w].clears \/ txn[w].op = "DELETE"
                   THEN [ledger EXCEPT ![x] = 0] ELSE ledger
      /\ txn[w].op = "DELETE" /\ ledger[x] # 0 => ~ConflictLocked(x)
      /\ txn[w].pc = "commit"
  BY DEF CommitWrite
<1>3. NumbersDiffer' /\ txn[w].id \notin Ids(log) \cup {0}
  BY CommitNumbers DEF FeedInv, NumbersDiffer
<1>4. Paging'
  <2>1. PICK c : c = ChangeOf(txn[w])
    OBVIOUS
  <2>2. log' = log \cup {c} /\ c.id \notin Ids(log) \cup {0}
    BY <1>2, <1>3, <2>1 DEF ChangeOf
  <2> QED  BY <1>1, <2>2, QuietPaging DEF FeedInv
<1>5. x \in Resources
  BY <1>1, <1>2, Unpacked
<1> HIDE DEF x
<1>6. LedgerInLog'
  <2>1. \A y \in Resources : ledger'[y] = ledger[y] \/ ledger'[y] = 0
    BY <1>1, <1>2
  <2> QED  BY <1>2, <2>1 DEF FeedInv, AcksInv, LedgerInLog
<1>7. \A v \in Writers, d \in Devices : txn'[v].clears => txn'[v].res \notin dev[d].taken
  <2>1. \A v \in Writers : txn'[v] = txn[v] \/ txn'[v] = Closed
    BY <1>1
  <2>2. ~Closed.clears
    BY DEF Closed
  <2> QED  BY <2>1, <2>2 DEF FeedInv, AcksInv, TakenIsShown
<1>8. ASSUME NEW d \in Devices, NEW y \in dev[d].taken
      PROVE  ledger'[y] = ledger[y]
  <2>1. y \in Resources /\ ledger[y] # 0
    BY <1>1, <1>8 DEF FeedInv, AcksInv, TakenIsShown, Typed, TypeOK, Device
  <2>2. txn[w].clears \/ txn[w].op = "DELETE" => y # x
    BY <1>2, <1>8, <2>1 DEF FeedInv, AcksInv, TakenIsShown, ConflictLocked, x
  <2> QED  BY <1>1, <1>2, <2>1, <2>2
<1>9. TakenIsShown'
  BY <1>1, <1>7, <1>8 DEF FeedInv, AcksInv, TakenIsShown
<1> QED  BY <1>3, <1>4, <1>6, <1>9 DEF FeedInv, AcksInv

\* A conflict is entered with its refresh.
LEMMA CommitConflictFeed ==
    ASSUME FeedInv, Ordered', NEW w \in Writers, CommitConflict(w)
    PROVE  FeedInv'
<1> DEFINE x == txn[w].res
<1>1. /\ txn \in [Writers -> Transaction] /\ txn' = [txn EXCEPT ![w] = Closed]
      /\ Typed /\ Typed' /\ dev' = dev /\ ledger \in [Resources -> Nat]
  BY DEF FeedInv, Ordered, Typed, TypeOK, CommitConflict, Close, Becomes
<1>2. /\ log' = log \cup {ChangeOf(txn[w])} /\ ledger' = [ledger EXCEPT ![x] = txn[w].id]
      /\ ~ConflictLocked(x) /\ txn[w].pc = "commit"
  BY DEF CommitConflict
<1>3. NumbersDiffer' /\ txn[w].id \notin Ids(log) \cup {0}
  BY CommitNumbers DEF FeedInv, NumbersDiffer
<1>4. PICK c : c = ChangeOf(txn[w])
  OBVIOUS
<1>5. log' = log \cup {c} /\ c.id = txn[w].id /\ c.res = x
  BY <1>2, <1>4 DEF ChangeOf
<1>6. Paging'
  BY <1>1, <1>3, <1>5, QuietPaging DEF FeedInv
<1> HIDE DEF x
<1>7. LedgerInLog'
  <2>1. \A y \in Resources \ {x} : ledger'[y] = ledger[y]
    BY <1>1, <1>2
  <2>2. x \in Resources => ledger'[x] = c.id
    BY <1>1, <1>2, <1>5
  <2> QED  BY <1>5, <2>1, <2>2 DEF FeedInv, AcksInv, LedgerInLog
<1>8. \A v \in Writers, d \in Devices : txn'[v].clears => txn'[v].res \notin dev[d].taken
  <2>1. \A v \in Writers : txn'[v] = txn[v] \/ txn'[v] = Closed
    BY <1>1
  <2>2. ~Closed.clears
    BY DEF Closed
  <2> QED  BY <2>1, <2>2 DEF FeedInv, AcksInv, TakenIsShown
<1>9. ASSUME NEW d \in Devices, NEW y \in dev[d].taken
      PROVE  ledger'[y] = ledger[y]
  <2>1. y \in Resources /\ y # x
    BY <1>1, <1>2, <1>9 DEF ConflictLocked, Typed, TypeOK, Device
  <2> QED  BY <1>1, <1>2, <2>1
<1>10. TakenIsShown'
  BY <1>1, <1>8, <1>9 DEF FeedInv, AcksInv, TakenIsShown
<1> QED  BY <1>3, <1>6, <1>7, <1>10 DEF FeedInv, AcksInv

\* Each further step of a write keeps the invariant.
LEMMA ProceedsFeed ==
    ASSUME FeedInv, Ordered', NEW w \in Writers, Proceeds(w)
    PROVE  FeedInv'
<1> DEFINE t == txn[w]
<1>1. t \in Transaction
  BY Unpacked DEF FeedInv, Ordered
<1>2. Closed.pc = "closed" /\ ~Closed.clears
  BY DEF Closed
<1> HIDE DEF t
<1>3. CASE Look(w)
  <2> DEFINE noted == [t EXCEPT !.gone = rows[t.res].deleted, !.pc = "claim"]
             moved == [t EXCEPT !.pc = IF rows[t.res].rev = t.rev THEN "claim" ELSE "report"]
  <2>1. /\ noted.pc = "claim" /\ noted.clears = t.clears /\ noted.res = t.res
        /\ moved.pc # "commit" /\ moved.clears = t.clears /\ moved.res = t.res
        /\ t.op \in Op
    BY <1>1 DEF Transaction
  <2>2. /\ Becomes(w, noted) \/ Becomes(w, Closed) \/ Becomes(w, moved)
        /\ UNCHANGED <<log, ledger, dev>>
    BY <1>3, <2>1 DEF Look, Go, Close, t, Op
  <2> HIDE DEF noted, moved
  <2> QED  BY <1>2, <2>1, <2>2, FreeFeed DEF t
<1>4. CASE ClaimWins(w)
  <2> DEFINE pending == ledger[t.res] # 0 /\ t.op = "UPSERT"
             state   == [t EXCEPT !.pc = "append", !.rev = t.rev + 1, !.clears = pending]
  <2>1. /\ Becomes(w, state) /\ UNCHANGED <<log, ledger, dev>>
        /\ pending => ~ConflictLocked(t.res)
    BY <1>4 DEF ClaimWins, t
  <2>2. state.pc = "append" /\ state.res = t.res /\ state.clears = pending
    BY <1>1 DEF Transaction
  <2> HIDE DEF state, pending
  <2> QED  BY <2>1, <2>2, FreeFeed
<1>5. CASE ClaimLoses(w) \/ Relook(w)
  <2> DEFINE lost == [t EXCEPT !.pc = IF t.op = "UPSERT" /\ t.res \in Notes
                                      THEN "report" ELSE "relook"]
             seen == [t EXCEPT !.gone = rows[t.res].deleted, !.pc = "report"]
  <2>1. /\ lost.pc # "commit" /\ lost.clears = t.clears /\ lost.res = t.res
        /\ seen.pc = "report" /\ seen.clears = t.clears /\ seen.res = t.res
    BY <1>1 DEF Transaction
  <2>2. /\ Becomes(w, lost) \/ Becomes(w, seen) \/ Becomes(w, Closed)
        /\ UNCHANGED <<log, ledger, dev>>
    BY <1>5 DEF ClaimLoses, Relook, Go, Close, t
  <2> HIDE DEF lost, seen
  <2> QED  BY <1>2, <2>1, <2>2, FreeFeed DEF t
<1>6. CASE Report(w)
  <2> DEFINE state == [t EXCEPT !.pc = "append", !.targeted = TRUE,
                                !.rev = rows[t.res].rev,
                                !.op  = IF t.gone THEN "DELETE" ELSE "UPSERT"]
  <2>1. state.pc = "append" /\ state.clears = t.clears /\ state.res = t.res
    BY <1>1 DEF Transaction
  <2>2. Becomes(w, state) /\ UNCHANGED <<log, ledger, dev>>
    BY <1>6 DEF Report, t
  <2> HIDE DEF state
  <2> QED  BY <2>1, <2>2, FreeFeed DEF t
<1>7. CASE Append(w)
  <2> DEFINE state == [t EXCEPT !.id = last + 1, !.pc = "commit"]
  <2>1. state.clears = t.clears /\ state.res = t.res
    BY <1>1 DEF Transaction
  <2>2. Becomes(w, state) /\ UNCHANGED <<log, ledger, dev>>
    BY <1>7 DEF Append, t
  <2>3. NumbersDiffer'
    BY <1>7, AppendNumbers DEF FeedInv
  <2> HIDE DEF state
  <2> QED  BY <2>1, <2>2, <2>3, TxnFeed DEF t
<1>8. CASE Touch(w)
  <2> DEFINE state == [t EXCEPT !.pc = "append", !.rev = rows[t.res].rev + Count(t.res)]
  <2>1. state.pc = "append" /\ state.clears = t.clears /\ state.res = t.res
    BY <1>1 DEF Transaction
  <2>2. Becomes(w, state) /\ UNCHANGED <<log, ledger, dev>>
    BY <1>8 DEF Touch, t
  <2> HIDE DEF state
  <2> QED  BY <2>1, <2>2, FreeFeed DEF t
<1> QED  BY <1>3, <1>4, <1>5, <1>6, <1>7, <1>8, CommitWriteFeed, CommitConflictFeed
         DEF Proceeds

\* So does its end when it fails.
LEMMA AbortFeed ==
    ASSUME FeedInv, Ordered', NEW w \in Writers, Abort(w)
    PROVE  FeedInv'
<1>1. Closed.pc = "closed" /\ ~Closed.clears
  BY DEF Closed
<1>2. Becomes(w, Closed) /\ UNCHANGED <<log, ledger, dev>>
  BY DEF Abort, Close
<1> QED  BY <1>1, <1>2, FreeFeed

-----------------------------------------------------------------------------
(* The steps of devices. *)

\* A device's step that resolves nothing: it has taken nothing, or goes on with it.
LEMMA DeviceAcks ==
    ASSUME Typed, AcksInv, NEW d \in Devices, NEW v, dev' = [dev EXCEPT ![d] = v],
           log \subseteq log', ledger' = ledger, txn' = txn,
           \/ v.taken = {}
           \/ /\ v.taken \subseteq dev[d].taken /\ v.cursor = dev[d].cursor
              /\ v.pc \in Resolving
    PROVE  AcksInv'
<1>1. \A e \in Devices : dev'[e] = IF e = d THEN v ELSE dev[e]
  BY DEF Typed, TypeOK
<1>2. LedgerInLog'
  BY DEF AcksInv, LedgerInLog
<1>3. \A e \in Devices : dev'[e].taken \subseteq dev[e].taken
  BY <1>1
<1>4. \A e \in Devices : dev'[e].taken # {} => /\ dev'[e].cursor = dev[e].cursor
                                               /\ dev'[e].pc \in Resolving
  BY <1>1 DEF AcksInv, TakenIsShown
<1>5. \A e \in Devices : \A x \in dev'[e].taken : ledger[x] # 0 /\ ledger[x] <= dev'[e].cursor
  BY <1>3, <1>4 DEF AcksInv, TakenIsShown
<1>6. \A e, f \in Devices : e # f => dev'[e].taken \cap dev'[f].taken = {}
  BY <1>3 DEF AcksInv, TakenIsShown
<1>7. \A e \in Devices, w \in Writers : txn[w].clears => txn[w].res \notin dev'[e].taken
  BY <1>3 DEF AcksInv, TakenIsShown
<1> QED  BY <1>2, <1>4, <1>5, <1>6, <1>7 DEF AcksInv, TakenIsShown

\* A pull that makes no copy takes no number.
LEMMA PullNumbers ==
    ASSUME Typed, NumbersDiffer, NEW d \in Devices, NEW v, dev' = [dev EXCEPT ![d] = v],
           log' = log, txn' = txn, v.copies \subseteq dev[d].copies
    PROVE  NumbersDiffer'
<1>1. log' = log /\ txn' = txn /\ \A e \in Devices : dev'[e] = IF e = d THEN v ELSE dev[e]
  BY DEF Typed, TypeOK
<1>2. \A w \in Writers : OpenIds(w)' \subseteq OpenIds(w)
  BY <1>1 DEF OpenIds
<1>3. \A e \in Devices : CopyIds(e)' \subseteq CopyIds(e)
  <2> SUFFICES ASSUME NEW e \in Devices PROVE CopyIds(e)' \subseteq CopyIds(e)
    OBVIOUS
  <2>1. dev'[e].copies \subseteq dev[e].copies
    BY <1>1
  <2> QED  BY <2>1 DEF CopyIds, Ids
<1> QED  BY <1>1, <1>2, <1>3, NumbersKept

\* A device's step on its acknowledgement, by which it reads nothing of the feed.
LEMMA PullFeed ==
    ASSUME FeedInv, Ordered', NEW d \in Devices, NEW v, Pulls(d, v),
           v.copies \subseteq dev[d].copies,
           \/ v.taken = {}
           \/ /\ v.taken \subseteq dev[d].taken /\ v.pc \in Resolving,
           v.cursor = dev[d].cursor, v.mark = dev[d].mark, v.base = dev[d].base,
           v.after = dev[d].after, v.got = dev[d].got, v.open = dev[d].open,
           v.pc \notin {"new", "snapshot"}
    PROVE  FeedInv'
<1>1. /\ UNCHANGED <<rows, locks, last, log, ledger, txn>> /\ dev' = [dev EXCEPT ![d] = v]
      /\ Typed /\ Typed' /\ \A e \in Devices : dev'[e] = IF e = d THEN v ELSE dev[e]
  BY DEF FeedInv, Ordered, Typed, TypeOK, Pulls
<1>2. Paging'
  BY <1>1, QuietPaging DEF FeedInv
<1>3. AcksInv'
  BY <1>1, DeviceAcks DEF FeedInv
<1>4. NumbersDiffer'
  BY <1>1, PullNumbers DEF FeedInv
<1> QED  BY <1>2, <1>3, <1>4 DEF FeedInv

\* Only what is taken is resolved, and only what nobody else resolves is taken.
LEMMA AckResolveFeed ==
    ASSUME FeedInv, Ordered', NEW d \in Devices, AckResolve(d)
    PROVE  FeedInv'
<1> DEFINE v == [dev[d] EXCEPT !.taken = Acknowledged(d), !.pc = "sync"]
<1>1. dev[d] \in Device /\ Pulls(d, v) /\ \A x \in Acknowledged(d) : ~ConflictLocked(x)
  BY DEF AckResolve, FeedInv, Ordered, Typed, TypeOK
<1>2. /\ v.taken = Acknowledged(d) /\ v.pc = "sync" /\ v.copies = dev[d].copies
      /\ v.cursor = dev[d].cursor /\ v.mark = dev[d].mark /\ v.base = dev[d].base
      /\ v.after = dev[d].after /\ v.got = dev[d].got /\ v.open = dev[d].open
  BY <1>1 DEF Device
<1> HIDE DEF v
<1>3. /\ UNCHANGED <<rows, locks, last, log, ledger, txn>> /\ Typed /\ Typed'
      /\ dev' = [dev EXCEPT ![d] = v]
      /\ \A e \in Devices : dev'[e] = IF e = d THEN v ELSE dev[e]
  BY <1>1 DEF FeedInv, Ordered, Typed, TypeOK, Pulls
<1>4. NumbersDiffer'
  BY <1>1, <1>2, <1>3, PullNumbers DEF FeedInv
<1>5. Paging'
  BY <1>2, <1>3, QuietPaging DEF FeedInv
<1>6. LedgerInLog'
  BY <1>3 DEF FeedInv, AcksInv, LedgerInLog
<1>7. \A e, f \in Devices : e # f => dev'[e].taken \cap dev'[f].taken = {}
  BY <1>1, <1>2, <1>3 DEF FeedInv, AcksInv, TakenIsShown, ConflictLocked
<1>8. \A e \in Devices, w \in Writers : txn'[w].clears => txn'[w].res \notin dev'[e].taken
  BY <1>1, <1>2, <1>3 DEF FeedInv, AcksInv, TakenIsShown, ConflictLocked
<1>9. \A e \in Devices : \A x \in dev'[e].taken : ledger'[x] # 0 /\ ledger'[x] <= dev'[e].cursor
  BY <1>2, <1>3 DEF FeedInv, AcksInv, TakenIsShown, Acknowledged
<1>10. \A e \in Devices : dev'[e].taken # {} => dev'[e].pc \in Resolving
  BY <1>2, <1>3 DEF FeedInv, AcksInv, TakenIsShown, Resolving
<1> QED  BY <1>4, <1>5, <1>6, <1>7, <1>8, <1>9, <1>10 DEF FeedInv, AcksInv, TakenIsShown

\* Resolving ends with the pull's own conflicts.
LEMMA AckCommitFeed ==
    ASSUME FeedInv, Ordered', NEW d \in Devices, AckCommit(d)
    PROVE  FeedInv'
<1> DEFINE v == [dev[d] EXCEPT !.taken = {}, !.copies = {}, !.pc = "mark"]
<1>1. /\ dev[d] \in Device /\ dev' = [dev EXCEPT ![d] = v] /\ log' = log \cup dev[d].copies
      /\ ledger' = [x \in Resources |-> IF x \in dev[d].taken THEN 0 ELSE ledger[x]]
      /\ txn' = txn /\ dev[d].pc = "copy" /\ Typed /\ Typed'
  BY DEF AckCommit, FeedInv, Ordered, Typed, TypeOK
<1>2. /\ v.taken = {} /\ v.pc = "mark"
      /\ v.cursor = dev[d].cursor /\ v.mark = dev[d].mark /\ v.base = dev[d].base
      /\ v.after = dev[d].after /\ v.got = dev[d].got /\ v.open = dev[d].open
  BY <1>1 DEF Device
<1> HIDE DEF v
<1>3. \A e \in Devices : dev'[e] = IF e = d THEN v ELSE dev[e]
  BY <1>1 DEF Typed, TypeOK
<1>4. NumbersDiffer'
  BY AckCommitNumbers DEF FeedInv
<1>5. \A c \in log' : c \in log \/ c.id \notin Ids(log) \cup {0}
  BY <1>1 DEF FeedInv, NumbersDiffer, CopyIds, Ids
<1>6. Paging'
  BY <1>1, <1>2, <1>3, <1>5, QuietPaging DEF FeedInv
<1>7. LedgerInLog'
  BY <1>1 DEF FeedInv, AcksInv, LedgerInLog
<1>8. \A e \in Devices : dev'[e].taken \subseteq dev[e].taken /\ (dev'[e].taken # {} => e # d)
  BY <1>2, <1>3
<1>9. ASSUME NEW e \in Devices, NEW x \in dev'[e].taken
      PROVE  ledger'[x] # 0 /\ ledger'[x] <= dev'[e].cursor
  <2>1. e # d /\ x \in dev[e].taken /\ dev'[e] = dev[e] /\ dev[e] \in Device
    BY <1>1, <1>3, <1>8, <1>9 DEF Typed, TypeOK
  <2>2. x \in Resources /\ x \notin dev[d].taken
    BY <2>1 DEF Device, FeedInv, AcksInv, TakenIsShown
  <2> QED  BY <1>1, <2>1, <2>2 DEF FeedInv, AcksInv, TakenIsShown
<1>10. TakenIsShown'
  BY <1>1, <1>3, <1>8, <1>9 DEF FeedInv, AcksInv, TakenIsShown
<1> QED  BY <1>4, <1>6, <1>7, <1>10 DEF FeedInv, AcksInv

\* A step that reads the feed is of a device that has taken nothing.
LEMMA TurnFeed ==
    ASSUME FeedInv, Ordered', NEW d \in Devices, NEW v, Paging',
           dev' = [dev EXCEPT ![d] = v], UNCHANGED <<log, ledger, txn>>,
           v.taken \subseteq dev[d].taken, v.copies \subseteq dev[d].copies,
           v.taken = {} \/ dev[d].pc \notin Resolving
    PROVE  FeedInv'
<1>1. UNCHANGED <<log, ledger, txn>> /\ dev' = [dev EXCEPT ![d] = v] /\ Typed
  BY DEF FeedInv, Ordered
<1>2. v.taken = {}
  BY DEF FeedInv, AcksInv, TakenIsShown
<1>3. AcksInv'
  BY <1>1, <1>2, DeviceAcks DEF FeedInv
<1>4. NumbersDiffer'
  BY <1>1, PullNumbers DEF FeedInv
<1> QED  BY <1>3, <1>4 DEF FeedInv

LEMMA ReadFeed ==
    ASSUME FeedInv, Ordered', NEW d \in Devices, NEW v, Pulls(d, v), Paging',
           v.taken \subseteq dev[d].taken, v.copies \subseteq dev[d].copies,
           v.taken = {} \/ dev[d].pc \notin Resolving
    PROVE  FeedInv'
BY TurnFeed DEF Pulls

\* A device's reads of the feed.
LEMMA ReadsFeed ==
    ASSUME FeedInv, Ordered', NEW d \in Devices,
           SnapshotMark(d) \/ SnapshotPage(d) \/ Mark(d) \/ Page(d) \/ Drop(d) \/ DropSnapshot(d)
    PROVE  FeedInv'
<1>1. dev[d] \in Device /\ Typed /\ Paging /\ NumbersDiffer
  BY DEF FeedInv, Ordered, Typed, TypeOK
<1>2. Paging'
  BY <1>1, MarksFollow, SnapshotPageFollows, PageFollows, DropPaging
<1> DEFINE Ok(v) == v.taken \subseteq dev[d].taken /\ v.copies \subseteq dev[d].copies
<1>3. ASSUME NEW m \in Ids(log) \cup {0}
      PROVE  /\ Ok([Marked(d, m) EXCEPT !.pc = "snapshot", !.base = m])
             /\ Ok([Marked(d, m) EXCEPT !.pc = "page"])
  <2>1. Marked(d, m) \in Device
    BY <1>1, MarkedTyped
  <2>2. Marked(d, m).taken = dev[d].taken /\ Marked(d, m).copies = dev[d].copies
    BY <1>1 DEF Marked, Device
  <2> QED  BY <2>1, <2>2 DEF Device
<1>4. ASSUME NEW changes \in SUBSET log
      PROVE  /\ Given(dev[d], changes) \in Device
             /\ Given(dev[d], changes).taken = dev[d].taken
             /\ Given(dev[d], changes).copies = dev[d].copies
  BY <1>1, GivenTyped DEF Given, Device
<1>5. CASE SnapshotMark(d) \/ Mark(d)
  <2>1. PICK m \in Ids(log) \cup {0} :
          \/ Pulls(d, [Marked(d, m) EXCEPT !.pc = "snapshot", !.base = m])
          \/ Pulls(d, [Marked(d, m) EXCEPT !.pc = "page"])
    BY <1>5 DEF SnapshotMark, Mark
  <2>2. dev[d].pc \notin Resolving
    BY <1>5 DEF SnapshotMark, Mark, Resolving
  <2> QED  BY <1>2, <1>3, <2>1, <2>2, ReadFeed
<1>6. CASE SnapshotPage(d)
  <2> DEFINE rest  == {c \in Snapshot(dev[d].mark) : c.res > dev[d].after}
             upto(x) == {c \in rest : c.res <= x}
             done  == [Given(dev[d], rest) EXCEPT !.pc = "ready", !.cursor = dev[d].mark,
                                                  !.mark = 0, !.after = 0]
             more(x) == [Given(dev[d], upto(x)) EXCEPT !.after = x]
  <2>1. Pulls(d, done) \/ \E x : Pulls(d, more(x))
    BY <1>6 DEF SnapshotPage
  <2>2. rest \in SUBSET log /\ \A x : upto(x) \in SUBSET log
    BY DEF Snapshot
  <2> HIDE DEF rest, upto
  <2>3. Ok(done) /\ \A x : Ok(more(x))
    BY <1>4, <2>2 DEF Device
  <2>4. dev[d].pc \notin Resolving
    BY <1>6 DEF SnapshotPage, Resolving
  <2> HIDE DEF done, more
  <2> QED  BY <1>2, <2>1, <2>3, <2>4, ReadFeed
<1>7. CASE Page(d)
  <2> DEFINE upto(i) == {c \in Pending(d) : c.id <= i}
             none    == [dev[d] EXCEPT !.pc = "ready", !.mark = 0, !.cursor = dev[d].mark]
             some(i) == [Given(dev[d], upto(i)) EXCEPT !.pc = "ready", !.mark = 0, !.cursor = i]
  <2>1. Pulls(d, none) \/ \E i : Pulls(d, some(i))
    BY <1>7 DEF Page
  <2>2. \A i : upto(i) \in SUBSET log
    BY DEF Pending
  <2> HIDE DEF upto
  <2>3. Ok(none) /\ \A i : Ok(some(i))
    BY <1>1, <1>4, <2>2 DEF Device
  <2>4. dev[d].pc \notin Resolving
    BY <1>7 DEF Page, Resolving
  <2> HIDE DEF none, some
  <2> QED  BY <1>2, <2>1, <2>3, <2>4, ReadFeed
<1>8. CASE Drop(d) \/ DropSnapshot(d)
  <2> DEFINE lost == [dev[d] EXCEPT !.pc = "ready", !.mark = 0, !.todo = {}, !.taken = {},
                                    !.copies = {}, !.seen = Unseen]
  <2>1. /\ dev' = [dev EXCEPT ![d] = lost] \/ dev' = [dev EXCEPT ![d] = Fresh]
        /\ UNCHANGED <<log, ledger, txn>>
    BY <1>8 DEF Drop, DropSnapshot, Pulls
  <2>2. lost.taken = {} /\ lost.copies = {} /\ Fresh.taken = {} /\ Fresh.copies = {}
    BY <1>1 DEF Device, Fresh
  <2> HIDE DEF lost
  <2> QED  BY <1>2, <2>1, <2>2, TurnFeed
<1> QED  BY <1>5, <1>6, <1>7, <1>8

\* The steps of an acknowledgement.
LEMMA AcksFeed ==
    ASSUME FeedInv, Ordered', NEW d \in Devices,
           \/ Pull(d) \/ AckProject(d) \/ AckTouch(d) \/ AckReread(d) \/ AckAppend(d)
           \/ \E x \in Resources : AckLook(d, x)
    PROVE  FeedInv'
<1>1. dev[d] \in Device /\ Typed /\ Paging /\ NumbersDiffer /\ Typed'
  BY DEF FeedInv, Ordered, Typed, TypeOK
<1>2. CASE Pull(d)
  <2> DEFINE next == IF Acknowledged(d) = {} THEN "mark" ELSE "resolve"
             found == Acknowledged(d)
             v == [dev[d] EXCEPT !.todo = found, !.pc = next]
  <2>1. Pulls(d, v) /\ dev[d].pc = "ready" /\ next \in {"mark", "resolve"}
    BY <1>2 DEF Pull
  <2> HIDE DEF next, found
  <2>2. /\ v.taken = dev[d].taken /\ v.pc = next /\ v.copies = dev[d].copies
        /\ v.cursor = dev[d].cursor /\ v.mark = dev[d].mark /\ v.base = dev[d].base
        /\ v.after = dev[d].after /\ v.got = dev[d].got /\ v.open = dev[d].open
    BY <1>1 DEF Device
  <2>3. dev[d].taken = {}
    BY <2>1 DEF FeedInv, AcksInv, TakenIsShown, Resolving
  <2> HIDE DEF v
  <2> QED  BY <2>1, <2>2, <2>3, PullFeed
<1>3. ASSUME NEW x \in Resources, AckLook(d, x) PROVE FeedInv'
  <2> DEFINE next == IF rows[x].deleted THEN "append" ELSE "reread"
             row == [res |-> x, rev |-> Read(d, x).rev, gone |-> rows[x].deleted]
             v == [dev[d] EXCEPT !.seen = row, !.pc = next]
  <2>1. Pulls(d, v) /\ next \in {"append", "reread"}
    BY <1>3 DEF AckLook
  <2> HIDE DEF next, row
  <2>2. /\ v.taken = dev[d].taken /\ v.pc = next /\ v.copies = dev[d].copies
        /\ v.cursor = dev[d].cursor /\ v.mark = dev[d].mark /\ v.base = dev[d].base
        /\ v.after = dev[d].after /\ v.got = dev[d].got /\ v.open = dev[d].open
    BY <1>1 DEF Device
  <2> HIDE DEF v
  <2> QED  BY <2>1, <2>2, PullFeed DEF Resolving
<1>4. CASE AckReread(d)
  <2> DEFINE row == [dev[d].seen EXCEPT !.rev = Read(d, dev[d].seen.res).rev]
             v == [dev[d] EXCEPT !.pc = "append", !.seen = row]
  <2>1. Pulls(d, v)
    BY <1>4 DEF AckReread
  <2> HIDE DEF row
  <2>2. /\ v.taken = dev[d].taken /\ v.pc = "append" /\ v.copies = dev[d].copies
        /\ v.cursor = dev[d].cursor /\ v.mark = dev[d].mark /\ v.base = dev[d].base
        /\ v.after = dev[d].after /\ v.got = dev[d].got /\ v.open = dev[d].open
    BY <1>1 DEF Device
  <2> HIDE DEF v
  <2> QED  BY <2>1, <2>2, PullFeed DEF Resolving
<1>5. CASE AckAppend(d)
  <2> DEFINE c == [id |-> last + 1, res |-> dev[d].seen.res, rev |-> dev[d].seen.rev,
                   targeted |-> TRUE, op |-> IF dev[d].seen.gone THEN "DELETE" ELSE "UPSERT"]
             v == [dev[d] EXCEPT !.copies = @ \cup {c}, !.todo = @ \ {c.res},
                                 !.seen = Unseen, !.pc = "copy"]
  <2>1. /\ dev' = [dev EXCEPT ![d] = v] /\ UNCHANGED <<rows, locks, log, ledger, txn>>
    BY <1>5 DEF AckAppend
  <2> HIDE DEF c
  <2>2. /\ v.taken = dev[d].taken /\ v.pc = "copy"
        /\ v.cursor = dev[d].cursor /\ v.mark = dev[d].mark /\ v.base = dev[d].base
        /\ v.after = dev[d].after /\ v.got = dev[d].got /\ v.open = dev[d].open
    BY <1>1 DEF Device
  <2> HIDE DEF v
  <2>3. \A e \in Devices : dev'[e] = IF e = d THEN v ELSE dev[e]
    BY <1>1, <2>1 DEF Typed, TypeOK
  <2>4. Paging'
    BY <1>1, <2>1, <2>2, <2>3, QuietPaging
  <2>5. AcksInv'
    BY <1>1, <2>1, <2>2, DeviceAcks DEF FeedInv, Resolving
  <2>6. NumbersDiffer'
    BY <1>5, AckAppendNumbers DEF FeedInv
  <2> QED  BY <2>4, <2>5, <2>6 DEF FeedInv
<1>6. CASE AckProject(d)
  <2> DEFINE v(pc) == [dev[d] EXCEPT !.pc = pc]
  <2>1. Pulls(d, v("copy")) \/ Pulls(d, v("touch"))
    BY <1>6 DEF AckProject
  <2>2. \A pc \in {"copy", "touch"} :
          /\ v(pc).taken = dev[d].taken /\ v(pc).pc = pc /\ v(pc).copies = dev[d].copies
          /\ v(pc).cursor = dev[d].cursor /\ v(pc).mark = dev[d].mark
          /\ v(pc).base = dev[d].base /\ v(pc).after = dev[d].after
          /\ v(pc).got = dev[d].got /\ v(pc).open = dev[d].open
    BY <1>1 DEF Device
  <2> HIDE DEF v
  <2>3. ASSUME NEW pc \in {"copy", "touch"}, Pulls(d, v(pc)) PROVE FeedInv'
    BY <2>2, <2>3, PullFeed DEF Resolving
  <2> QED  BY <2>1, <2>3
<1>7. CASE AckTouch(d)
  <2>1. PICK c : c = [id |-> last + 1, res |-> Project, rev |-> rows[Project].rev + 1,
                      targeted |-> FALSE, op |-> "UPSERT"]
    OBVIOUS
  <2> DEFINE v == [dev[d] EXCEPT !.copies = {c}, !.pc = "copy"]
  <2>2. /\ dev' = [dev EXCEPT ![d] = v] /\ UNCHANGED <<rows, log, ledger, txn>>
    BY <1>7, <2>1 DEF AckTouch
  <2>3. /\ v.taken = dev[d].taken /\ v.pc = "copy"
        /\ v.cursor = dev[d].cursor /\ v.mark = dev[d].mark /\ v.base = dev[d].base
        /\ v.after = dev[d].after /\ v.got = dev[d].got /\ v.open = dev[d].open
    BY <1>1 DEF Device
  <2> HIDE DEF v
  <2>4. \A e \in Devices : dev'[e] = IF e = d THEN v ELSE dev[e]
    BY <1>1, <2>2 DEF Typed, TypeOK
  <2>5. Paging'
    BY <1>1, <2>2, <2>3, <2>4, QuietPaging
  <2>6. AcksInv'
    BY <1>1, <2>2, <2>3, DeviceAcks DEF FeedInv, Resolving
  <2>7. NumbersDiffer'
    BY <1>7, AckTouchNumbers DEF FeedInv
  <2> QED  BY <2>5, <2>6, <2>7 DEF FeedInv
<1> QED  BY <1>2, <1>3, <1>4, <1>5, <1>6, <1>7

-----------------------------------------------------------------------------
(* The theorems about paging and acknowledgements. *)

\* Nothing is in the log, and nobody has read it.
LEMMA InitFeed == Init => FeedInv
<1> SUFFICES ASSUME Init PROVE FeedInv
  OBVIOUS
<1>1. Ordered
  BY InitOrdered
<1>2. NumbersDiffer
  BY DEF Init, NumbersDiffer, Ids, OpenIds, CopyIds, Closed, Fresh
<1>3. Paging
  BY <1>1, <1>2, FreshFollows DEF Init, Paging, Ordered
<1>4. AcksInv
  BY DEF Init, AcksInv, LedgerInLog, TakenIsShown, Closed, Fresh
<1> QED  BY <1>1, <1>2, <1>3, <1>4 DEF FeedInv

\* Every step keeps the invariant.
LEMMA NextFeed == FeedInv /\ [Next]_vars => FeedInv'
<1> SUFFICES ASSUME FeedInv, [Next]_vars PROVE FeedInv'
  OBVIOUS
<1>1. Ordered'
  BY NextOrdered DEF FeedInv
<1>2. ASSUME NEW w \in Writers, Starts(w) \/ Proceeds(w) \/ Abort(w) PROVE FeedInv'
  BY <1>1, <1>2, StartsFeed, ProceedsFeed, AbortFeed
<1>3. ASSUME NEW d \in Devices, Advances(d) \/ Drop(d) \/ DropSnapshot(d) PROVE FeedInv'
  BY <1>1, <1>3, ReadsFeed, AcksFeed, AckResolveFeed, AckCommitFeed DEF Advances
<1>4. CASE UNCHANGED vars
  <2>1. UNCHANGED <<rows, locks, last, log, ledger, txn, dev>>
    BY <1>4 DEF vars
  <2>2. NumbersDiffer'
    BY <2>1, NumbersKept DEF FeedInv, OpenIds, CopyIds
  <2>3. Paging'
    BY <1>1, <2>1, QuietPaging DEF FeedInv, Ordered
  <2>4. AcksInv'
    BY <2>1 DEF FeedInv, AcksInv, LedgerInLog, TakenIsShown
  <2> QED  BY <1>1, <2>2, <2>3, <2>4 DEF FeedInv
<1> QED  BY <1>2, <1>3, <1>4 DEF Next

\* The invariant holds in every state.
LEMMA FeedHolds == Spec => []FeedInv
BY InitFeed, NextFeed, PTL DEF Spec

\* What a device has gone by is accounted for.
LEMMA FeedCovers ==
    ASSUME FeedInv, NEW d \in Devices, NEW c \in log, c.id <= dev[d].cursor
    PROVE  Accounted(d, c)
<1>1. AccountedBy(dev[d], c)
  BY DEF FeedInv, Paging, Follows, CursorCovers
<1> QED  BY <1>1 DEF AccountedBy, Accounted

\* Whatever the page size, the pulls that are lost and the writes between two pages: a
\* change behind a device's cursor was given to it, was of no use to its snapshot, or
\* committed after a watermark beyond it had been read.
THEOREM PagingComplete == Spec => []OnlyLateChangesSkipped
<1>1. FeedInv => OnlyLateChangesSkipped
  BY FeedCovers DEF OnlyLateChangesSkipped
<1> QED  BY FeedHolds, <1>1, PTL

\* A pull resolves a conflict only if its device has gone by the refresh that goes with it,
\* though it lists, takes and resolves conflicts in three steps.
THEOREM AcksCorrect == Spec => AcksWhatWasShown
<1> DEFINE Shown ==
        \A d \in Devices : AckCommit(d) =>
          \A x \in dev[d].taken :
              /\ ledger[x] # 0
              /\ \E c \in log : c.id = ledger[x] /\ c.res = x /\ Accounted(d, c)
<1>1. ASSUME FeedInv, NEW d \in Devices, NEW x \in dev[d].taken
      PROVE  /\ ledger[x] # 0
             /\ \E c \in log : c.id = ledger[x] /\ c.res = x /\ Accounted(d, c)
  <2>1. ledger[x] # 0 /\ ledger[x] <= dev[d].cursor /\ x \in Resources
    BY <1>1 DEF FeedInv, AcksInv, TakenIsShown, Ordered, Typed, TypeOK, Device
  <2>2. PICK c \in log : c.id = ledger[x] /\ c.res = x
    BY <1>1, <2>1 DEF FeedInv, AcksInv, LedgerInLog
  <2> QED  BY <1>1, <2>1, <2>2, FeedCovers
<1>2. FeedInv /\ [Next]_vars => [Shown]_vars
  BY <1>1
<1> QED  BY <1>2, FeedHolds, PTL DEF Spec, AcksWhatWasShown

=============================================================================
