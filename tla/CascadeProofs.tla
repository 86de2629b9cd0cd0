----------------------------- MODULE CascadeProofs -----------------------------
(***************************************************************************)
(* Theorems of Cascade, for any tree, any number of transactions and any   *)
(* bound on revisions: every variable keeps its type; transactions wait    *)
(* for one another in a circle only with a deletion of a scan or of the    *)
(* project, or an acknowledgement, among them; and as long as the project  *)
(* stands, a dead note is buried at its row's revision, changes are told   *)
(* in the order of their revisions, and a scan's deletion leaves no live   *)
(* child behind.                                                           *)
(*                                                                         *)
(* There are two inductive invariants.  Inv says which rows a transaction  *)
(* holds at each of its statements: a child before its scan, a scan before *)
(* the project, the project only by a transaction that is about it, and a  *)
(* conflict, except for an acknowledgement, only beside its row.  TreeInv  *)
(* adds that a row is locked by one at a time, what a transaction knows of *)
(* the rows it holds, has claimed or has listed, and that no other commit  *)
(* makes it wrong.                                                         *)
(***************************************************************************)
EXTENDS Cascade, TLAPS

Parent(r) == IF r \in Children THEN {Home[r]} ELSE {}

\* The operation is one on that kind of row, and no listed row is the project.
Fits(x) ==
    /\ x.op \in {"note.create", "note.update", "note.delete", "asset.mark"} <=> x.on \in Children
    /\ x.op \in {"scan.create", "scan.update", "scan.delete"} <=> x.on \in Scans
    /\ x.op # "asset.mark" => x.on \notin Models
    /\ x.listed[Project] = 0
    /\ x.at = "mark" => x.op = "acknowledge"
    /\ x.at = "claim" => x.op \notin Creates
    /\ x.at \in {"list", "take"} => x.op \in {"scan.delete", "project.delete"}
    /\ x.at \in {"model", "scan"} => x.on \in Children
    /\ x.at \in {"conflict", "resolve"} => x.op # "asset.mark"
    /\ Project \in x.holds => x.on = Project

\* The operations that lock in one order: all but these three.
Unruly == {"scan.delete", "project.delete", "acknowledge"}

\* What any other transaction holds, by its statement: the conflict of a row only with it.
Straight(x) ==
    x.op \notin Unruly =>
        /\ x.marks \subseteq x.holds
        /\ x.at \in {"claim", "conflict"} => x.holds = {}
        /\ x.at = "resolve" => x.holds = {x.on}
        /\ x.at \in {"model", "scan"} => x.holds \subseteq {x.on}
        /\ x.at = "project" => x.on # Project
        /\ x.at \in {"project", "commit"} => x.holds \subseteq {x.on} \cup Parent(x.on)

InOrder == \A t \in Txs : Running(t) => Fits(tx[t]) /\ Straight(tx[t])

Inv == TypeOK /\ InOrder

-----------------------------------------------------------------------------
(* Steps that write no row. *)

\* A transaction that is none of the repositories' is told from one that is.
LEMMA IdleIsNone == Idle \notin Transaction
BY DEF Idle, Transaction, Creates, Deletes, Edits

\* Where a transaction was, for the steps below.
LEMMA Where ==
  ASSUME Inv, NEW t \in Txs, Running(t)
  PROVE  tx[t] \in Transaction /\ Fits(tx[t]) /\ Straight(tx[t]) /\ tx[t].on \in Rows
<1>1. tx[t] \in Transaction
  BY DEF Inv, TypeOK, Running
<1>2. tx[t].on \in Rows
  BY <1>1 DEF Transaction
<1> QED
  BY <1>1, <1>2 DEF Inv, InOrder

\* A transaction that moves on keeps the invariant, if it holds what it may hold there.
LEMMA QuietStep ==
  ASSUME Inv, NEW t \in Txs, NEW x \in Transaction, Fits(x), Straight(x),
         tx' = [tx EXCEPT ![t] = x], UNCHANGED Others
  PROVE  Inv'
<1>1. tx \in [Txs -> Transaction \cup {Idle}]
  BY DEF Inv, TypeOK
<1>2. tx'[t] = x /\ \A u \in Txs \ {t} : tx'[u] = tx[u]
  BY <1>1
<1>3. TypeOK'
  BY <1>1 DEF Inv, TypeOK, Others
<1>4. InOrder'
  BY <1>2 DEF Inv, InOrder, Running, Fits, Straight
<1> QED
  BY <1>3, <1>4 DEF Inv

\* A transaction that ends gives up its locks.
LEMMA EndKeepsOrder ==
  ASSUME Inv, NEW t \in Txs, tx' = [tx EXCEPT ![t] = Idle]
  PROVE  InOrder' /\ tx' \in [Txs -> Transaction \cup {Idle}]
<1>1. tx \in [Txs -> Transaction \cup {Idle}]
  BY DEF Inv, TypeOK
<1>2. tx'[t] = Idle /\ \A u \in Txs \ {t} : tx'[u] = tx[u]
  BY <1>1
<1>3. InOrder'
  BY <1>2 DEF Inv, InOrder, Running, Fits, Straight
<1> QED
  BY <1>1, <1>3

\* And the rest of the invariant stands, if it has written no more than a conflict.
LEMMA EndKeeps ==
  ASSUME Inv, NEW t \in Txs, tx' = [tx EXCEPT ![t] = Idle], UNCHANGED Tables,
         open' \subseteq {Project} \cup Scans \cup Notes
  PROVE  Inv'
BY EndKeepsOrder DEF Inv, TypeOK, Tables

-----------------------------------------------------------------------------
(* The invariant. *)

\* What the tree of rows is made of.
LEMMA Tree ==
  /\ Children = Notes \cup Models /\ Rows = {Project} \cup Scans \cup Children
  /\ Project \notin Scans /\ Project \notin Children /\ Scans \cap Children = {}
  /\ \A c \in Children : Home[c] \in Scans
BY TreeAssumption DEF Children, Rows

\* No transaction has begun.
LEMMA InvInit == Init => Inv
<1> SUFFICES ASSUME Init PROVE Inv
  OBVIOUS
<1>1. /\ state \in [Rows -> {"unborn", "live", "dead"}] /\ rev \in [Rows -> Nat]
      /\ status \in [Models -> Shown] /\ shows \in [Scans -> Shown] /\ ready \in Readiness
  BY DEF Init, Shown, Status, Readiness
<1>2. last \in [Rows -> Change \cup {Nothing}]
  <2> SUFFICES ASSUME NEW r \in Rows
               PROVE (IF r \in Unborn THEN Nothing
                      ELSE Upsert(1, CASE r \in Scans -> shows[r] [] r = Project -> ready
                                       [] r \in Models -> "PENDING" [] OTHER -> "NONE"))
                       \in Change \cup {Nothing}
    BY DEF Init
  <2> DEFINE says == CASE r \in Scans -> shows[r] [] r = Project -> ready
                       [] r \in Models -> "PENDING" [] OTHER -> "NONE"
  <2>1. says \in Shown \cup Readiness
    BY <1>1, Tree DEF Shown, Status, Readiness
  <2> HIDE DEF says
  <2>2. Upsert(1, says) \in Change
    BY <2>1 DEF Upsert, Change
  <2> QED
    BY <2>2 DEF says
<1>3. TypeOK
  BY <1>1, <1>2, TreeAssumption DEF Init, TypeOK
<1>4. InOrder
  BY DEF Init, InOrder, Running
<1> QED
  BY <1>3, <1>4 DEF Inv

\* A transaction begins with nothing locked but the row it has just inserted.
LEMMA BeginKeeps ==
  ASSUME Inv, NEW t \in Txs, NEW op \in Creates \cup Deletes \cup Edits, NEW r \in Rows,
         NEW to \in Shown, NEW at \in {"mark", "list", "claim", "model", "project"},
         Begin(t, op, r, to, at), op # "asset.mark" => r \notin Models,
         op \in {"note.create", "note.update", "note.delete", "asset.mark"} <=> r \in Children,
         op \in {"scan.create", "scan.update", "scan.delete"} <=> r \in Scans,
         at = "mark" => op = "acknowledge",
         at = "claim" => op \notin Creates,
         at = "list" => op \in {"scan.delete", "project.delete"},
         at = "model" => op = "note.create",
         at = "project" => op = "scan.create"
  PROVE  Inv'
<1> DEFINE held == IF op \in Creates THEN {r} ELSE {}
           x == [op |-> op, on |-> r, to |-> to, expects |-> rev[r],
                 listed |-> [y \in Rows |-> 0], holds |-> held, marks |-> {},
                 model |-> "NONE", ready |-> "SYNCED", at |-> at]
<1>1. rev[r] \in Nat
  BY DEF Inv, TypeOK
<1>2. held \in SUBSET Rows /\ [y \in Rows |-> 0] \in [Rows -> Nat] /\ Project \in Rows
  BY DEF Rows
<1>3. x \in Transaction
  BY <1>1, <1>2 DEF Transaction, Shown, Status, Readiness
<1>4. tx' = [tx EXCEPT ![t] = x] /\ UNCHANGED Others
  BY DEF Begin
<1>5. held # {} => r \in Scans \cup Children
  BY DEF Creates
<1>6. Project \notin held
  BY <1>5, Tree
<1>7. Fits(x)
  BY <1>2, <1>6 DEF Fits, Creates
<1>8. Straight(x)
  BY <1>5, Tree DEF Straight, Creates, Unruly
<1> HIDE DEF x
<1> QED
  BY <1>3, <1>4, <1>7, <1>8, QuietStep

\* Each kind of transaction begins so.
LEMMA BeginsKeep ==
  ASSUME Inv, NEW t \in Txs, Begins(t)
  PROVE  Inv'
<1> USE Tree, TreeAssumption DEF Creates, Deletes, Edits
<1>1. {"NONE", "PENDING", "UPLOADED", "FAILED"} \subseteq Shown
  BY DEF Shown, Status
<1>2. ASSUME NEW n \in Notes, BeginNoteCreate(t, n)
      PROVE Inv'
  <2>1. Begin(t, "note.create", n, "NONE", "model") /\ n \in Children /\ n \in Rows
    BY <1>2 DEF BeginNoteCreate
  <2> QED
    BY <1>1, <2>1, BeginKeeps
<1>3. ASSUME NEW n \in Notes, NEW op \in {"note.update", "note.delete"}, BeginNoteEdit(t, n, op)
      PROVE Inv'
  <2>1. Begin(t, op, n, "NONE", "claim") /\ n \in Children /\ n \in Rows
    BY <1>3 DEF BeginNoteEdit
  <2> QED
    BY <1>1, <2>1, BeginKeeps
<1>4. ASSUME NEW m \in Models, NEW to \in {"UPLOADED", "FAILED"}, BeginAssetMark(t, m, to)
      PROVE Inv'
  <2>1. Begin(t, "asset.mark", m, to, "claim") /\ m \in Children /\ m \in Rows
    BY <1>4 DEF BeginAssetMark
  <2> QED
    BY <1>1, <2>1, BeginKeeps
<1>5. ASSUME NEW s \in Scans, NEW to \in {"NONE", "PENDING"}, BeginScanCreate(t, s, to)
      PROVE Inv'
  <2>1. Begin(t, "scan.create", s, to, "project") /\ s \in Rows /\ s \notin Children
    BY <1>5 DEF BeginScanCreate
  <2> QED
    BY <1>1, <2>1, BeginKeeps
<1>6. ASSUME NEW s \in Scans, BeginUpdate(t, s) \/ BeginDelete(t, s)
      PROVE Inv'
  <2>1. s \in Rows /\ s \notin Children /\ s # Project
    OBVIOUS
  <2>2. Begin(t, "scan.update", s, "NONE", "claim") \/ Begin(t, "scan.delete", s, "NONE", "list")
    BY <1>6, <2>1 DEF BeginUpdate, BeginDelete
  <2> QED
    BY <1>1, <2>1, <2>2, BeginKeeps
<1>7. ASSUME BeginUpdate(t, Project) \/ BeginDelete(t, Project)
      PROVE Inv'
  <2>1. Project \in Rows /\ Project \notin Children /\ Project \notin Scans
    OBVIOUS
  <2>2. \/ Begin(t, "project.update", Project, "NONE", "claim")
        \/ Begin(t, "project.delete", Project, "NONE", "list")
    BY <1>7 DEF BeginUpdate, BeginDelete
  <2> QED
    BY <1>1, <2>1, <2>2, BeginKeeps
<1>8. ASSUME BeginAcknowledge(t)
      PROVE Inv'
  <2>1. Project \in Rows /\ Project \notin Children /\ Project \notin Scans
    OBVIOUS
  <2>2. Begin(t, "acknowledge", Project, "NONE", "mark")
    BY <1>8 DEF BeginAcknowledge
  <2> QED
    BY <1>1, <2>1, <2>2, BeginKeeps
<1> QED
  BY <1>2, <1>3, <1>4, <1>5, <1>6, <1>7, <1>8 DEF Begins

\* Of the project itself no deletion makes a descendant.
LEMMA ListKeeps == ASSUME Inv, NEW t \in Txs, List(t) PROVE Inv'
<1> DEFINE found == [r \in Rows |-> IF r \in Descendants(tx[t].on) THEN rev[r] ELSE 0]
           x == [tx[t] EXCEPT !.listed = found, !.at = "claim"]
<1>1. /\ Running(t) /\ tx[t].at = "list"
      /\ tx[t] \in Transaction /\ Fits(tx[t]) /\ Straight(tx[t]) /\ tx[t].on \in Rows
  BY Where DEF List
<1>2. found \in [Rows -> Nat]
  BY DEF Inv, TypeOK
<1>3. Project \in Rows /\ Project \notin Descendants(tx[t].on)
  BY Tree DEF Descendants
<1>4. found[Project] = 0
  BY <1>3
<1>5. tx' = [tx EXCEPT ![t] = x] /\ UNCHANGED Others
  BY DEF List
<1> HIDE DEF found
<1>6. /\ x \in Transaction /\ x.at = "claim" /\ x.listed = found
      /\ x.op = tx[t].op /\ x.on = tx[t].on /\ x.holds = tx[t].holds
  BY <1>1, <1>2 DEF Transaction
<1> HIDE DEF x
<1>7. x.op \in {"scan.delete", "project.delete"}
  BY <1>1, <1>6 DEF Fits
<1>8. Fits(x) /\ Straight(x)
  BY <1>1, <1>4, <1>6, <1>7 DEF Fits, Straight, Unruly, Creates
<1> QED
  BY <1>1, <1>5, <1>6, <1>8, QuietStep

\* An acknowledgement locks conflicts, and then asks for the project or ends.
LEMMA AcknowledgeKeeps ==
  ASSUME Inv, NEW t \in Txs, (\E r \in Rows : Mark(t, r)) \/ LookReady(t)
  PROVE  Inv'
<1>1. Running(t) /\ tx[t].at = "mark"
  BY DEF Mark, LookReady
<1>2. tx[t] \in Transaction /\ Fits(tx[t]) /\ Straight(tx[t]) /\ tx[t].on \in Rows
  BY <1>1, Where
<1>3. tx[t].op = "acknowledge"
  BY <1>1, <1>2 DEF Fits
<1>4. ASSUME NEW r \in Rows, Mark(t, r)
      PROVE Inv'
  <2> DEFINE marked == tx[t].marks \cup {r}
             x == [tx[t] EXCEPT !.marks = marked]
  <2>1. tx' = [tx EXCEPT ![t] = x] /\ UNCHANGED Others
    BY <1>4 DEF Mark
  <2>2. marked \in SUBSET Rows
    BY <1>2 DEF Transaction
  <2> HIDE DEF marked
  <2>3. /\ x \in Transaction /\ x.at = "mark" /\ x.listed = tx[t].listed
        /\ x.op = tx[t].op /\ x.on = tx[t].on /\ x.holds = tx[t].holds
    BY <1>1, <1>2, <2>2 DEF Transaction
  <2> HIDE DEF x
  <2>4. Fits(x) /\ Straight(x)
    BY <1>1, <1>2, <1>3, <2>3 DEF Fits, Straight, Unruly
  <2> QED
    BY <2>1, <2>3, <2>4, QuietStep
<1>5. CASE LookReady(t) /\ Live(Project) /\ SeesReady(t) = "SYNCED"
  <2> DEFINE x == [tx[t] EXCEPT !.at = "claim"]
  <2>1. tx' = [tx EXCEPT ![t] = x] /\ UNCHANGED Others
    BY <1>5 DEF LookReady, Move
  <2>2. /\ x \in Transaction /\ x.at = "claim" /\ x.listed = tx[t].listed
        /\ x.op = tx[t].op /\ x.on = tx[t].on /\ x.holds = tx[t].holds
    BY <1>2 DEF Transaction
  <2> HIDE DEF x
  <2>3. Fits(x) /\ Straight(x)
    BY <1>2, <1>3, <2>2 DEF Fits, Straight, Unruly, Creates
  <2> QED
    BY <2>1, <2>2, <2>3, QuietStep
<1>6. CASE LookReady(t) /\ ~(Live(Project) /\ SeesReady(t) = "SYNCED")
  <2>1. /\ tx' = [tx EXCEPT ![t] = Idle] /\ UNCHANGED Tables
        /\ open' \subseteq {Project} \cup Scans \cup Notes
    BY <1>6 DEF LookReady, Inv, TypeOK
  <2> QED
    BY <2>1, EndKeeps
<1> QED
  BY <1>4, <1>5, <1>6

\* Whose row is a note, scan or project has a conflict to open or resolve.
LEMMA Disputable ==
  ASSUME Inv, NEW t \in Txs, Running(t), tx[t].op # "asset.mark"
  PROVE  tx[t].on \in {Project} \cup Scans \cup Notes
BY Where, Tree DEF Fits

\* A transaction locks its own row and goes on where it belongs.
LEMMA ClaimKeeps == ASSUME Inv, NEW t \in Txs, Claim(t) PROVE Inv'
<1> DEFINE held == tx[t].holds \cup {tx[t].on}
           next == AfterClaim(t)
           x == [tx[t] EXCEPT !.holds = held, !.at = next]
<1>1. /\ Running(t) /\ tx[t].at = "claim"
      /\ tx[t] \in Transaction /\ Fits(tx[t]) /\ Straight(tx[t]) /\ tx[t].on \in Rows
  BY Where DEF Claim, AtClaim
<1>2. held \in SUBSET Rows
  BY <1>1 DEF Transaction
<1>3. /\ tx[t].op = "acknowledge" <=> next = "commit"
      /\ tx[t].op = "asset.mark" <=> next = "model"
      /\ tx[t].op \in {"scan.delete", "project.delete"} <=> next = "take"
      /\ next \in {"commit", "model", "take", "resolve"}
  BY DEF AfterClaim
<1>4. tx' = [tx EXCEPT ![t] = x] /\ UNCHANGED Others
  BY DEF Claim
<1> HIDE DEF held, next
<1>5. /\ x \in Transaction /\ x.at = next /\ x.listed = tx[t].listed
      /\ x.op = tx[t].op /\ x.on = tx[t].on /\ x.holds = held /\ x.marks = tx[t].marks
  BY <1>1, <1>2, <1>3 DEF Transaction
<1> HIDE DEF x
<1>6. Fits(x)
  BY <1>1, <1>3, <1>5, Tree DEF Fits, held
<1>7. Straight(x)
  BY <1>1, <1>3, <1>5, Tree DEF Fits, Straight, Unruly, held
<1> QED
  BY <1>4, <1>5, <1>6, <1>7, QuietStep

\* A refused one has nothing locked, and may go on to its conflict.
LEMMA RefuseKeeps == ASSUME Inv, NEW t \in Txs, Refuse(t) \/ RecordConflict(t) PROVE Inv'
<1>1. Running(t)
  BY DEF Refuse, AtClaim, RecordConflict
<1>2. tx[t] \in Transaction /\ Fits(tx[t]) /\ Straight(tx[t]) /\ tx[t].on \in Rows
  BY <1>1, Where
<1>3. open \subseteq {Project} \cup Scans \cup Notes
  BY DEF Inv, TypeOK
<1>4. CASE Refuse(t) /\ Answered(t)
  <2>1. tx' = [tx EXCEPT ![t] = Idle] /\ UNCHANGED Others
    BY <1>4 DEF Refuse
  <2> QED
    BY <1>3, <2>1, EndKeeps DEF Others, Tables
<1>5. CASE Refuse(t) /\ ~Answered(t)
  <2> DEFINE x == [tx[t] EXCEPT !.at = "conflict"]
  <2>1. tx' = [tx EXCEPT ![t] = x] /\ UNCHANGED Others /\ tx[t].at = "claim"
    BY <1>5 DEF Refuse, Move, AtClaim
  <2>2. /\ x \in Transaction /\ x.at = "conflict" /\ x.listed = tx[t].listed
        /\ x.op = tx[t].op /\ x.on = tx[t].on /\ x.holds = tx[t].holds
        /\ x.marks = tx[t].marks
    BY <1>2 DEF Transaction
  <2>3. tx[t].op # "asset.mark"
    BY <1>5 DEF Answered
  <2> HIDE DEF x
  <2>4. Fits(x) /\ Straight(x)
    BY <1>2, <2>1, <2>2, <2>3 DEF Fits, Straight
  <2> QED
    BY <2>1, <2>2, <2>4, QuietStep
<1>6. CASE RecordConflict(t)
  <2>1. tx' = [tx EXCEPT ![t] = Idle] /\ UNCHANGED Tables /\ open' = open \cup {tx[t].on}
    BY <1>6 DEF RecordConflict
  <2>2. tx[t].op # "asset.mark"
    BY <1>2, <1>6 DEF RecordConflict, Fits
  <2>3. tx[t].on \in {Project} \cup Scans \cup Notes
    BY <1>1, <2>2, Disputable
  <2> QED
    BY <1>3, <2>1, <2>3, EndKeeps
<1> QED
  BY <1>4, <1>5, <1>6

\* A conflict is locked by the holder of its row.
LEMMA ResolveKeeps == ASSUME Inv, NEW t \in Txs, Resolve(t) PROVE Inv'
<1> DEFINE marked == tx[t].marks \cup ({tx[t].on} \cap open)
           next == AfterResolve(t)
           x == [tx[t] EXCEPT !.marks = marked, !.at = next]
<1>1. /\ Running(t) /\ tx[t].at = "resolve"
      /\ tx[t] \in Transaction /\ Fits(tx[t]) /\ Straight(tx[t]) /\ tx[t].on \in Rows
  BY Where DEF Resolve
<1>2. marked \in SUBSET Rows
  BY <1>1 DEF Transaction
<1>3. /\ next = "model" <=> tx[t].on \in Children
      /\ next = "project" <=> tx[t].on \in Scans
      /\ next \in {"model", "project", "commit"}
  BY Tree DEF AfterResolve
<1>4. tx' = [tx EXCEPT ![t] = x] /\ UNCHANGED Others
  BY DEF Resolve
<1>5. marked \subseteq tx[t].marks \cup {tx[t].on}
  OBVIOUS
<1> HIDE DEF marked, next
<1>6. /\ x \in Transaction /\ x.at = next /\ x.listed = tx[t].listed
      /\ x.op = tx[t].op /\ x.on = tx[t].on /\ x.holds = tx[t].holds /\ x.marks = marked
  BY <1>1, <1>2, <1>3 DEF Transaction
<1> HIDE DEF x
<1>7. Fits(x)
  BY <1>1, <1>3, <1>6 DEF Fits
<1>8. Straight(x)
  <2>1. x.op \notin Unruly => x.holds = {x.on} /\ x.marks \subseteq x.holds
    BY <1>1, <1>5, <1>6 DEF Straight
  <2> QED
    BY <1>3, <1>6, <2>1, Tree DEF Straight
<1> QED
  BY <1>4, <1>6, <1>7, <1>8, QuietStep

\* A deletion locks a row it has listed, which is never the project.
LEMMA TakeKeeps == ASSUME Inv, NEW t \in Txs, NEW r \in Rows, Take(t, r) PROVE Inv'
<1> DEFINE held == tx[t].holds \cup {r}
           x == [tx[t] EXCEPT !.holds = held]
<1>1. /\ Running(t) /\ tx[t].at = "take"
      /\ tx[t] \in Transaction /\ Fits(tx[t]) /\ Straight(tx[t]) /\ tx[t].on \in Rows
  BY Where DEF Take
<1>2. r \in Listed(t)
  BY DEF Take, Left
<1>3. r # Project
  BY <1>1, <1>2 DEF Listed, Fits
<1>4. held \in SUBSET Rows
  BY <1>1 DEF Transaction
<1>5. tx' = [tx EXCEPT ![t] = x] /\ UNCHANGED Others
  BY DEF Take
<1>6. Project \in held => Project \in tx[t].holds
  BY <1>3
<1> HIDE DEF held
<1>7. /\ x \in Transaction /\ x.at = "take" /\ x.listed = tx[t].listed
      /\ x.op = tx[t].op /\ x.on = tx[t].on /\ x.holds = held
  BY <1>1, <1>4 DEF Transaction
<1> HIDE DEF x
<1>8. Fits(x) /\ Straight(x)
  BY <1>1, <1>6, <1>7 DEF Fits, Straight, Unruly
<1> QED
  BY <1>5, <1>7, <1>8, QuietStep

\* A step that locks nothing and moves on: the model read, the scans read, all taken.
LEMMA ReadsKeep ==
  ASSUME Inv, NEW t \in Txs, TakenAll(t) \/ ReadModel(t) \/ ReadScans(t)
  PROVE  Inv'
<1>1. Running(t)
  BY DEF TakenAll, ReadModel, ReadScans
<1>2. tx[t] \in Transaction /\ Fits(tx[t]) /\ Straight(tx[t]) /\ tx[t].on \in Rows
  BY <1>1, Where
<1>3. CASE TakenAll(t)
  <2> DEFINE x == [tx[t] EXCEPT !.at = "resolve"]
  <2>1. tx' = [tx EXCEPT ![t] = x] /\ UNCHANGED Others /\ tx[t].at = "take"
    BY <1>3 DEF TakenAll, Move
  <2>2. /\ x \in Transaction /\ x.at = "resolve" /\ x.listed = tx[t].listed
        /\ x.op = tx[t].op /\ x.on = tx[t].on /\ x.holds = tx[t].holds
    BY <1>2 DEF Transaction
  <2> HIDE DEF x
  <2>3. x.op \in {"scan.delete", "project.delete"}
    BY <1>2, <2>1, <2>2 DEF Fits
  <2>4. Fits(x) /\ Straight(x)
    BY <1>2, <2>1, <2>2, <2>3 DEF Fits, Straight, Unruly
  <2> QED
    BY <2>1, <2>2, <2>4, QuietStep
<1>4. CASE ReadModel(t)
  <2> DEFINE seen == Shows(t, Home[tx[t].on])
             x == [tx[t] EXCEPT !.model = seen, !.at = "scan"]
  <2>1. tx' = [tx EXCEPT ![t] = x] /\ UNCHANGED Others /\ tx[t].at = "model"
    BY <1>4 DEF ReadModel
  <2>2. \A m \in Models : SeesStatus(t, m) \in Shown
    BY <1>2 DEF SeesStatus, Transaction, Inv, TypeOK
  <2>3. seen \in Shown
    BY <2>2 DEF Shows, ModelsOf, Shown
  <2> HIDE DEF seen
  <2>4. /\ x \in Transaction /\ x.at = "scan" /\ x.listed = tx[t].listed
        /\ x.op = tx[t].op /\ x.on = tx[t].on /\ x.holds = tx[t].holds
        /\ x.marks = tx[t].marks
    BY <1>2, <2>3 DEF Transaction
  <2> HIDE DEF x
  <2>5. Fits(x) /\ Straight(x)
    BY <1>2, <2>1, <2>4 DEF Fits, Straight
  <2> QED
    BY <1>1, <2>1, <2>4, <2>5, QuietStep
<1>5. CASE ReadScans(t)
  <2> DEFINE seen == SeesReady(t)
             x == [tx[t] EXCEPT !.ready = seen, !.at = "commit"]
  <2>1. tx' = [tx EXCEPT ![t] = x] /\ UNCHANGED Others /\ tx[t].at = "project"
    BY <1>5 DEF ReadScans
  <2>2. seen \in Readiness
    BY DEF SeesReady, Readiness
  <2> HIDE DEF seen
  <2>3. /\ x \in Transaction /\ x.at = "commit" /\ x.listed = tx[t].listed
        /\ x.op = tx[t].op /\ x.on = tx[t].on /\ x.holds = tx[t].holds
        /\ x.marks = tx[t].marks
    BY <1>2, <2>2 DEF Transaction
  <2> HIDE DEF x
  <2>4. Fits(x) /\ Straight(x)
    BY <1>2, <2>1, <2>3 DEF Fits, Straight
  <2> QED
    BY <1>1, <2>1, <2>3, <2>4, QuietStep
<1> QED
  BY <1>3, <1>4, <1>5

\* A child's scan is locked after the child.
LEMMA RollUpScanKeeps == ASSUME Inv, NEW t \in Txs, RollUpScan(t) PROVE Inv'
<1> DEFINE held == tx[t].holds \cup {Home[tx[t].on]}
           x == [tx[t] EXCEPT !.holds = held, !.at = "project"]
<1>1. /\ Running(t) /\ tx[t].at = "scan"
      /\ tx[t] \in Transaction /\ Fits(tx[t]) /\ Straight(tx[t]) /\ tx[t].on \in Rows
  BY Where DEF RollUpScan
<1>2. tx[t].on \in Children /\ Home[tx[t].on] \in Scans
  BY <1>1, Tree DEF Fits
<1>3. held \in SUBSET Rows
  BY <1>1, <1>2, Tree DEF Transaction
<1>4. tx' = [tx EXCEPT ![t] = x] /\ UNCHANGED Others
  BY DEF RollUpScan
<1>5. Project \in held => Project \in tx[t].holds
  BY <1>2, Tree
<1>6. tx[t].op \notin Unruly =>
         held \subseteq {tx[t].on} \cup Parent(tx[t].on) /\ tx[t].marks \subseteq held
  BY <1>1, <1>2 DEF Straight, Parent
<1>7. tx[t].on # Project
  BY <1>2, Tree
<1> HIDE DEF held
<1>8. /\ x \in Transaction /\ x.at = "project" /\ x.listed = tx[t].listed
      /\ x.op = tx[t].op /\ x.on = tx[t].on /\ x.holds = held /\ x.marks = tx[t].marks
  BY <1>1, <1>3 DEF Transaction
<1> HIDE DEF x
<1>9. Fits(x) /\ Straight(x)
  BY <1>1, <1>5, <1>6, <1>7, <1>8 DEF Fits, Straight
<1> QED
  BY <1>1, <1>4, <1>5, <1>8, <1>9, QuietStep

\* A commit writes rows of their types, and ends.
LEMMA CommitKeeps == ASSUME Inv, NEW t \in Txs, Commit(t) PROVE Inv'
<1>1. Running(t) /\ tx' = [tx EXCEPT ![t] = Idle]
  BY DEF Commit
<1>2. tx[t] \in Transaction
  BY <1>1, Where
<1>3. /\ tx[t].to \in Shown /\ tx[t].model \in Shown /\ tx[t].ready \in Readiness
      /\ tx[t].expects \in Nat /\ tx[t].listed \in [Rows -> Nat]
  BY <1>2 DEF Transaction
<1>4. /\ state \in [Rows -> {"unborn", "live", "dead"}] /\ rev \in [Rows -> Nat]
      /\ status \in [Models -> Shown] /\ shows \in [Scans -> Shown] /\ ready \in Readiness
      /\ last \in [Rows -> Change \cup {Nothing}]
  BY DEF Inv, TypeOK
<1>5. state' \in [Rows -> {"unborn", "live", "dead"}]
  BY <1>4 DEF Commit
<1>6. rev' \in [Rows -> Nat]
  <2>1. \A r \in Rows : rev[r] + 1 \in Nat
    BY <1>4
  <2> QED
    BY <1>4, <2>1 DEF Commit, NewRev
<1>7. status' \in [Models -> Shown]
  BY <1>3, <1>4 DEF Commit, SeesStatus
<1>8. shows' \in [Scans -> Shown]
  BY <1>3, <1>4 DEF Commit, NewShows
<1>9. ready' \in Readiness
  BY <1>3, <1>4 DEF Commit
<1>10. last' \in [Rows -> Change \cup {Nothing}]
  <2> DEFINE says(r) == CASE r \in Scans -> shows'[r] [] r = Project -> ready'
                          [] r \in Models -> status'[r] [] OTHER -> "NONE"
             new(r) == CASE r \in Deleted(t) -> Tombstone(Buried(t, r))
                         [] r \in (Written(t) \cup {Project}) \ Deleted(t) ->
                               Upsert(rev'[r], says(r))
                         [] OTHER -> last[r]
  <2>1. last' = [r \in Rows |-> new(r)]
    BY DEF Commit
  <2>2. ASSUME NEW r \in Rows
        PROVE new(r) \in Change \cup {Nothing}
    <3>1. Buried(t, r) \in Nat
      BY <1>3 DEF Buried
    <3>2. Tombstone(Buried(t, r)) \in Change
      BY <3>1 DEF Tombstone, Change
    <3>3. says(r) \in Shown \cup Readiness
      BY <1>7, <1>8, <1>9, Tree DEF Shown, Status
    <3>4. rev'[r] \in Nat
      BY <1>6
    <3> HIDE DEF says
    <3>5. Upsert(rev'[r], says(r)) \in Change
      BY <3>3, <3>4 DEF Upsert, Change
    <3> QED
      BY <1>4, <3>2, <3>5
  <2> HIDE DEF new
  <2> QED
    BY <2>1, <2>2
<1>11. InOrder' /\ tx' \in [Txs -> Transaction \cup {Idle}]
  BY <1>1, EndKeepsOrder
<1>12. open' \subseteq {Project} \cup Scans \cup Notes
  BY DEF Commit, Inv, TypeOK
<1>13. TypeOK'
  BY <1>5, <1>6, <1>7, <1>8, <1>9, <1>10, <1>11, <1>12 DEF TypeOK
<1> QED
  BY <1>11, <1>13 DEF Inv

\* No step of any transaction breaks the invariant.
LEMMA InvNext == Inv /\ [Next]_vars => Inv'
<1> SUFFICES ASSUME Inv, [Next]_vars PROVE Inv'
  OBVIOUS
<1>1. ASSUME NEW t \in Txs, Abort(t)
      PROVE Inv'
  BY <1>1, EndKeeps DEF Abort, Others, Tables, Inv, TypeOK
<1>2. ASSUME NEW t \in Txs, NEW r \in Rows, Take(t, r) \/ Mark(t, r)
      PROVE Inv'
  BY <1>2, TakeKeeps, AcknowledgeKeeps
<1>3. ASSUME NEW t \in Txs,
             \/ List(t) \/ LookReady(t) \/ Claim(t) \/ Refuse(t) \/ RecordConflict(t)
             \/ TakenAll(t) \/ Resolve(t) \/ ReadModel(t) \/ RollUpScan(t) \/ ReadScans(t)
             \/ Commit(t)
      PROVE Inv'
  BY <1>3, ListKeeps, AcknowledgeKeeps, ClaimKeeps, RefuseKeeps, ResolveKeeps, ReadsKeep,
     RollUpScanKeeps, CommitKeeps
<1>4. CASE UNCHANGED vars
  BY <1>4 DEF vars, Inv, TypeOK, InOrder, Running
<1> QED
  BY <1>1, <1>2, <1>3, <1>4, BeginsKeep DEF Next

-----------------------------------------------------------------------------
(***************************************************************************)
(* What the locks and the revisions are good for.  Together they say that  *)
(* what a transaction has claimed or listed is, until it commits, what the *)
(* tables hold: the row it has claimed is locked, and a child of a scan    *)
(* that is to be deleted cannot change without the scan's revision, which  *)
(* the deletion asks for.                                                  *)
(***************************************************************************)

Born(r) == state[r] # "unborn"

Below(s) == {c \in Children : Home[c] = s}

ListedBy(x) == {r \in Rows : x.listed[r] > 0}

InsertedBy(x) ==
    IF x.op \notin Creates THEN {}
    ELSE {x.on} \cup (IF x.to = "PENDING" THEN ModelsOf(x.on) ELSE {})

\* The statements before a transaction has claimed its row, or when it is refused it.
Early == {"mark", "list", "claim", "conflict"}

\* What a transaction is about to write is locked, except rows that are not there yet.
HoldsWhatItWrites(x) ==
    /\ x.at \notin Early => x.on \in x.holds
    /\ x.at \in {"project", "commit"} => Parent(x.on) \subseteq x.holds
    /\ x.at \in {"resolve", "project", "commit"} => ListedBy(x) \subseteq x.holds
    /\ ListedBy(x) # {} => x.op \in {"scan.delete", "project.delete"} /\ x.at # "list"
    /\ x.op \in Creates => x.at \notin Early \cup {"take", "resolve"}

\* Every row a transaction has read or locked is there, but for the ones it inserts, which
\* nobody else inserts.
KnowsRows(x) ==
    /\ x.op \notin Creates => Born(x.on)
    /\ \A r \in Parent(x.on) \cup ListedBy(x) \cup (x.holds \ {x.on}) : Born(r)
    /\ \A r \in InsertedBy(x) : ~Born(r)
    /\ x.op = "asset.mark" => x.on \in Models

\* The row a transaction has claimed is still as it was claimed.
ClaimStands(x) ==
    /\ x.op \notin Creates => x.expects <= rev[x.on]
    /\ x.op \notin Creates \cup {"asset.mark", "acknowledge"} /\ x.at \notin Early =>
          Live(x.on) /\ rev[x.on] = x.expects

\* As long as the revision a scan's deletion asks for is the scan's, its list is right.
ListStands(x) ==
    x.op = "scan.delete" /\ x.at # "list" =>
       /\ ListedBy(x) \subseteq Below(x.on)
       /\ Live(Project) /\ rev[x.on] = x.expects =>
             \A c \in Below(x.on) : x.listed[c] = IF Live(c) THEN rev[c] ELSE 0

Sound(x) == HoldsWhatItWrites(x) /\ KnowsRows(x) /\ ClaimStands(x) /\ ListStands(x)

AllSound == \A t \in Txs : Running(t) => Sound(tx[t])

\* A row is locked by one transaction at a time.
HeldOnce ==
    \A t, u \in Txs : Running(t) /\ Running(u) /\ t # u => tx[t].holds \cap tx[u].holds = {}

RowsInOrder ==
    /\ Born(Project)
    /\ \A r \in Rows : Born(r) => rev[r] > 0
    /\ \A c \in Children : Born(c) => Born(Home[c])

\* No reader has been shown a revision that the row has yet to reach.
LastKnown ==
    Live(Project) =>
       \A r \in Rows \ {Project} : last[r] # Nothing => last[r].rev <= rev[r]

TreeInv == Inv /\ HeldOnce /\ AllSound /\ RowsInOrder /\ LastKnown /\ NotesBuried

\* What the operators of Cascade say of a transaction's record.
LEMMA OfRecord ==
  ASSUME NEW t
  PROVE  Listed(t) = ListedBy(tx[t]) /\ Inserted(t) = InsertedBy(tx[t])
BY DEF Listed, ListedBy, Inserted, InsertedBy

\* Nobody has begun, and every row is new.
LEMMA TreeInit == Init => TreeInv
<1> SUFFICES ASSUME Init PROVE TreeInv
  OBVIOUS
<1>1. HeldOnce /\ AllSound
  BY DEF Init, HeldOnce, AllSound, Running
<1>2. /\ \A r \in Rows : state[r] = IF r \in Unborn THEN "unborn" ELSE "live"
      /\ \A r \in Rows : rev[r] = IF r \in Unborn THEN 0 ELSE 1
  BY DEF Init
<1>3. \A c \in Children : Home[c] \in Unborn => c \in Unborn
  BY TreeAssumption DEF Children
<1>4. RowsInOrder
  BY <1>2, <1>3, Tree, TreeAssumption DEF RowsInOrder, Born
<1>5. ASSUME NEW r \in Rows, last[r] # Nothing
      PROVE last[r].rev <= rev[r]
  BY <1>2, <1>5 DEF Init, Upsert
<1>6. NotesBuried
  BY <1>2, Tree DEF NotesBuried
<1> QED
  BY <1>1, <1>4, <1>5, <1>6, InvInit DEF TreeInv, LastKnown

\* A step that writes no row keeps the invariant, if what its transaction then holds and
\* knows is sound and nobody else's.
LEMMA QuietTree ==
  ASSUME TreeInv, Inv', NEW t \in Txs, NEW x \in Transaction, Sound(x),
         tx' = [tx EXCEPT ![t] = x], UNCHANGED Others,
         \A r \in x.holds :
            \/ Running(t) /\ r \in tx[t].holds
            \/ \A u \in Txs \ {t} : Running(u) => r \notin tx[u].holds
  PROVE  TreeInv'
<1>1. tx'[t] = x /\ \A u \in Txs \ {t} : tx'[u] = tx[u]
  BY DEF TreeInv, Inv, TypeOK
<1>2. state' = state /\ rev' = rev /\ last' = last
  BY DEF Others
<1>3. HeldOnce'
  BY <1>1 DEF TreeInv, HeldOnce, Running
<1>4. \A y : Sound(y) => Sound(y)'
  BY <1>2 DEF Sound, HoldsWhatItWrites, KnowsRows, ClaimStands, ListStands, Born, Live,
              ListedBy, InsertedBy, Below, ModelsOf
<1>5. AllSound'
  <2> SUFFICES ASSUME NEW u \in Txs, Running(u)' PROVE Sound(tx[u])'
    BY DEF AllSound
  <2>1. CASE u = t
    <3>1. Sound(x)'
      BY <1>4
    <3> QED
      BY <1>1, <2>1, <3>1 DEF Sound, HoldsWhatItWrites, KnowsRows, ClaimStands, ListStands,
                              Born, Live, ListedBy, InsertedBy, Below, ModelsOf
  <2>2. CASE u # t
    <3>1. tx'[u] = tx[u] /\ Running(u)
      BY <1>1, <2>2 DEF Running
    <3>2. Sound(tx[u])
      BY <3>1 DEF TreeInv, AllSound
    <3> QED
      BY <1>2, <3>1, <3>2 DEF Sound, HoldsWhatItWrites, KnowsRows, ClaimStands, ListStands,
                              Born, Live, ListedBy, InsertedBy, Below, ModelsOf
  <2> QED
    BY <2>1, <2>2
<1>6. RowsInOrder' /\ LastKnown' /\ NotesBuried'
  BY <1>2 DEF TreeInv, RowsInOrder, Born, LastKnown, NotesBuried, Live
<1> QED
  BY <1>3, <1>5, <1>6 DEF TreeInv

\* A transaction that ends without writing takes nothing from the others.
LEMMA EndTree ==
  ASSUME TreeInv, Inv', NEW t \in Txs, tx' = [tx EXCEPT ![t] = Idle], UNCHANGED Tables
  PROVE  TreeInv'
<1>1. tx'[t] = Idle /\ \A u \in Txs \ {t} : tx'[u] = tx[u]
  BY DEF TreeInv, Inv, TypeOK
<1>2. state' = state /\ rev' = rev /\ last' = last
  BY DEF Tables
<1>3. HeldOnce'
  BY <1>1 DEF TreeInv, HeldOnce, Running
<1>4. ASSUME NEW u \in Txs, Running(u)'
      PROVE Sound(tx[u])'
  <2>1. tx'[u] = tx[u] /\ Running(u)
    BY <1>1, <1>4 DEF Running
  <2>2. Sound(tx[u])
    BY <2>1 DEF TreeInv, AllSound
  <2> QED
    BY <1>2, <2>1, <2>2 DEF Sound, HoldsWhatItWrites, KnowsRows, ClaimStands, ListStands,
                            Born, Live, ListedBy, InsertedBy, Below, ModelsOf
<1>5. RowsInOrder' /\ LastKnown' /\ NotesBuried'
  BY <1>2 DEF TreeInv, RowsInOrder, Born, LastKnown, NotesBuried, Live
<1> QED
  BY <1>3, <1>4, <1>5 DEF TreeInv, AllSound

\* A transaction begins with the revision it has just read, and an insert with a row that
\* nobody else can know.
LEMMA BeginTree ==
  ASSUME TreeInv, Inv', NEW t \in Txs, NEW op \in Creates \cup Deletes \cup Edits, NEW r \in Rows,
         NEW to \in Shown, NEW at \in {"mark", "list", "claim", "model", "project"},
         Begin(t, op, r, to, at), at \in {"model", "project"} <=> op \in Creates, op = "scan.delete" => at = "list",
         at = "model" => r \in Notes, at = "project" => r \in Scans,
         op \in Creates => NotYet(r), op \notin Creates => Born(r),
         r \in Children => Born(Home[r]), to = "PENDING" => r \notin Notes,
         op = "asset.mark" => r \in Models
  PROVE  TreeInv'
<1> DEFINE held == IF op \in Creates THEN {r} ELSE {}
           x == [op |-> op, on |-> r, to |-> to, expects |-> rev[r],
                 listed |-> [y \in Rows |-> 0], holds |-> held, marks |-> {},
                 model |-> "NONE", ready |-> "SYNCED", at |-> at]
<1>1. rev[r] \in Nat
  BY DEF TreeInv, Inv, TypeOK
<1>2. held \in SUBSET Rows /\ [y \in Rows |-> 0] \in [Rows -> Nat]
  OBVIOUS
<1>3. x \in Transaction
  BY <1>1, <1>2 DEF Transaction, Shown, Status, Readiness
<1>4. tx' = [tx EXCEPT ![t] = x] /\ UNCHANGED Others
  BY DEF Begin
<1>5. ListedBy(x) = {}
  BY DEF ListedBy
<1> HIDE DEF held
<1>6. /\ x.op = op /\ x.on = r /\ x.to = to /\ x.expects = rev[r] /\ x.holds = held /\ x.at = at
      /\ x.listed \in [Rows -> Nat]
  BY <1>2
<1> HIDE DEF x
<1>7. HoldsWhatItWrites(x)
  <2>1. at \notin Early => r \in held
    BY DEF held, Early
  <2>2. at = "project" => Parent(r) = {}
    BY Tree DEF Parent
  <2> QED
    BY <1>5, <1>6, <2>1, <2>2 DEF HoldsWhatItWrites, Early
<1>8. KnowsRows(x)
  <2>1. op \in Creates => ~Born(r)
    BY DEF NotYet, Born
  <2>2. \A y \in Parent(r) \cup (held \ {r}) : Born(y)
    BY DEF Parent, held
  <2>3. ASSUME NEW y \in InsertedBy(x)
        PROVE ~Born(y)
    <3>1. op \in Creates
      BY <1>6, <2>3 DEF InsertedBy
    <3>2. y = r \/ y \in ModelsOf(r)
      BY <1>6, <2>3 DEF InsertedBy
    <3>3. y \in ModelsOf(r) => y \in Children /\ Home[y] = r
      BY DEF ModelsOf, Children
    <3> QED
      BY <2>1, <3>1, <3>2, <3>3 DEF TreeInv, RowsInOrder
  <2> QED
    BY <1>5, <1>6, <2>2, <2>3 DEF KnowsRows
<1>9. ClaimStands(x) /\ ListStands(x)
  BY <1>1, <1>6 DEF ClaimStands, ListStands, Creates, Early
<1>10. ASSUME NEW y \in held, NEW u \in Txs \ {t}, Running(u)
       PROVE y \notin tx[u].holds
  <2>1. op \in Creates /\ y = r
    BY <1>10 DEF held
  <2>2. ~Born(r) /\ tx[u].on # r
    BY <1>10, <2>1 DEF NotYet, Born
  <2>3. KnowsRows(tx[u])
    BY <1>10 DEF TreeInv, AllSound, Sound
  <2> QED
    BY <2>1, <2>2, <2>3 DEF KnowsRows
<1> QED
  BY <1>3, <1>4, <1>6, <1>7, <1>8, <1>9, <1>10, QuietTree DEF Sound

\* Each kind of transaction begins so.
LEMMA BeginsTree ==
  ASSUME TreeInv, Inv', NEW t \in Txs, Begins(t)
  PROVE  TreeInv'
<1> USE Tree DEF Creates, Deletes, Edits
<1>1. {"NONE", "PENDING", "UPLOADED", "FAILED"} \subseteq Shown
  BY DEF Shown, Status
<1>2. \A r : Live(r) => Born(r)
  BY DEF Live, Born
<1>3. \A c \in Children : Born(c) => Born(Home[c])
  BY DEF TreeInv, RowsInOrder
<1>4. ASSUME NEW n \in Notes, BeginNoteCreate(t, n)
      PROVE TreeInv'
  <2>1. /\ Begin(t, "note.create", n, "NONE", "model") /\ n \in Rows
        /\ NotYet(n) /\ Born(Home[n])
    BY <1>2, <1>4 DEF BeginNoteCreate
  <2> QED
    BY <1>1, <2>1, BeginTree
<1>5. ASSUME NEW n \in Notes, NEW op \in {"note.update", "note.delete"}, BeginNoteEdit(t, n, op)
      PROVE TreeInv'
  <2>1. Begin(t, op, n, "NONE", "claim") /\ n \in Rows /\ Born(n) /\ Born(Home[n])
    BY <1>2, <1>3, <1>5 DEF BeginNoteEdit
  <2> QED
    BY <1>1, <2>1, BeginTree
<1>6. ASSUME NEW m \in Models, NEW to \in {"UPLOADED", "FAILED"}, BeginAssetMark(t, m, to)
      PROVE TreeInv'
  <2>1. Begin(t, "asset.mark", m, to, "claim") /\ m \in Rows /\ Born(m) /\ Born(Home[m])
    BY <1>2, <1>6 DEF BeginAssetMark
  <2> QED
    BY <1>1, <2>1, BeginTree
<1>7. ASSUME NEW s \in Scans, NEW to \in {"NONE", "PENDING"}, BeginScanCreate(t, s, to)
      PROVE TreeInv'
  <2>1. /\ Begin(t, "scan.create", s, to, "project") /\ s \in Rows
        /\ s \notin Children /\ NotYet(s)
    BY <1>7 DEF BeginScanCreate
  <2> QED
    BY <1>1, <2>1, BeginTree
<1>8. ASSUME NEW r \in Scans \cup {Project}, BeginUpdate(t, r) \/ BeginDelete(t, r)
      PROVE TreeInv'
  <2>1. r \in Rows /\ r \notin Children /\ Born(r)
    BY <1>2, <1>8 DEF BeginUpdate, BeginDelete
  <2>2. \/ \E op \in {"scan.update", "project.update"} : Begin(t, op, r, "NONE", "claim")
        \/ \E op \in {"scan.delete", "project.delete"} : Begin(t, op, r, "NONE", "list")
    BY <1>8 DEF BeginUpdate, BeginDelete
  <2> QED
    BY <1>1, <2>1, <2>2, BeginTree
<1>9. ASSUME BeginAcknowledge(t)
      PROVE TreeInv'
  <2>1. Project \in Rows /\ Project \notin Children /\ Born(Project)
    BY DEF TreeInv, RowsInOrder
  <2>2. Begin(t, "acknowledge", Project, "NONE", "mark")
    BY <1>9 DEF BeginAcknowledge
  <2> QED
    BY <1>1, <2>1, <2>2, BeginTree
<1> QED
  BY <1>4, <1>5, <1>6, <1>7, <1>8, <1>9 DEF Begins

\* A list holds the live rows below, at their revisions.
LEMMA ListTree == ASSUME TreeInv, Inv', NEW t \in Txs, List(t) PROVE TreeInv'
<1> DEFINE found == [r \in Rows |-> IF r \in Descendants(tx[t].on) THEN rev[r] ELSE 0]
           x == [tx[t] EXCEPT !.listed = found, !.at = "claim"]
<1>1. /\ Running(t) /\ tx[t].at = "list" /\ Inv
      /\ tx[t] \in Transaction /\ Fits(tx[t]) /\ Straight(tx[t]) /\ tx[t].on \in Rows
  BY Where DEF List, TreeInv
<1>2. Sound(tx[t])
  BY <1>1 DEF TreeInv, AllSound
<1>3. found \in [Rows -> Nat]
  BY DEF TreeInv, Inv, TypeOK
<1>4. tx[t].op \in {"scan.delete", "project.delete"}
  BY <1>1 DEF Fits
<1>5. tx' = [tx EXCEPT ![t] = x] /\ UNCHANGED Others
  BY DEF List
<1>6. \A r \in Rows : found[r] = IF r \in Descendants(tx[t].on) THEN rev[r] ELSE 0
  OBVIOUS
<1>7. \A r \in Descendants(tx[t].on) : Live(r) /\ Born(r)
  BY DEF Descendants, Live, Born
<1>8. tx[t].on \in Scans => Descendants(tx[t].on) = {c \in Below(tx[t].on) : Live(c)}
  BY Tree DEF Descendants, Below
<1> HIDE DEF found
<1>9. /\ x \in Transaction /\ x.at = "claim" /\ x.listed = found /\ x.expects = tx[t].expects
      /\ x.op = tx[t].op /\ x.on = tx[t].on /\ x.holds = tx[t].holds
  BY <1>1, <1>3 DEF Transaction
<1> HIDE DEF x
<1>10. HoldsWhatItWrites(x)
  BY <1>4, <1>9 DEF HoldsWhatItWrites, Early, Creates
<1>11. \A r \in ListedBy(x) : r \in Descendants(tx[t].on)
  BY <1>6, <1>9 DEF ListedBy
<1>12. KnowsRows(x)
  BY <1>2, <1>4, <1>7, <1>9, <1>11 DEF Sound, KnowsRows, InsertedBy, Creates
<1>13. ClaimStands(x)
  BY <1>2, <1>4, <1>9 DEF Sound, ClaimStands, Early
<1>14. ListStands(x)
  <2>1. x.op = "scan.delete" => x.on \in Scans
    BY <1>1, <1>9 DEF Fits
  <2>2. Below(x.on) \subseteq Rows
    BY Tree DEF Below
  <2> QED
    BY <1>6, <1>8, <1>9, <1>11, <2>1, <2>2 DEF ListStands
<1> QED
  BY <1>1, <1>5, <1>9, <1>10, <1>12, <1>13, <1>14, QuietTree DEF Sound

\* A row that is claimed is locked, and as it was asked for.
LEMMA ClaimTree == ASSUME TreeInv, Inv', NEW t \in Txs, Claim(t) PROVE TreeInv'
<1> DEFINE held == tx[t].holds \cup {tx[t].on}
           next == AfterClaim(t)
           x == [tx[t] EXCEPT !.holds = held, !.at = next]
<1>1. /\ Running(t) /\ tx[t].at = "claim" /\ Free(t, tx[t].on) /\ Claimable(t) /\ Inv
      /\ tx[t] \in Transaction /\ Fits(tx[t]) /\ Straight(tx[t]) /\ tx[t].on \in Rows
  BY Where DEF Claim, AtClaim, TreeInv
<1>2. Sound(tx[t])
  BY <1>1 DEF TreeInv, AllSound
<1>3. held \in SUBSET Rows
  BY <1>1 DEF Transaction
<1>4. tx[t].op \notin Creates
  BY <1>1 DEF Fits
<1>5. /\ tx[t].op = "acknowledge" <=> next = "commit"
      /\ tx[t].op = "asset.mark" <=> next = "model"
      /\ tx[t].op \in {"scan.delete", "project.delete"} <=> next = "take"
      /\ next \in {"commit", "model", "take", "resolve"}
  BY DEF AfterClaim
<1>6. tx' = [tx EXCEPT ![t] = x] /\ UNCHANGED Others
  BY DEF Claim
<1>7. tx[t].op \notin {"asset.mark", "acknowledge"} =>
         Live(tx[t].on) /\ rev[tx[t].on] = tx[t].expects
  BY <1>1 DEF Claimable
<1> HIDE DEF held, next
<1>8. /\ x \in Transaction /\ x.at = next /\ x.listed = tx[t].listed /\ x.expects = tx[t].expects
      /\ x.op = tx[t].op /\ x.on = tx[t].on /\ x.holds = held
  BY <1>1, <1>3, <1>5 DEF Transaction
<1> HIDE DEF x
<1>9. ListedBy(x) = ListedBy(tx[t])
  BY <1>8 DEF ListedBy
<1>10. HoldsWhatItWrites(x)
  <2>1. ListedBy(x) # {} => x.at = "take" /\ x.op \in {"scan.delete", "project.delete"}
    BY <1>2, <1>5, <1>8, <1>9 DEF Sound, HoldsWhatItWrites
  <2>2. x.at \in {"project", "commit"} => x.on \notin Children
    BY <1>1, <1>5, <1>8 DEF Fits
  <2>3. x.on \in x.holds
    BY <1>8 DEF held
  <2> QED
    BY <1>4, <1>8, <2>1, <2>2, <2>3 DEF HoldsWhatItWrites, Parent
<1>11. KnowsRows(x)
  BY <1>2, <1>4, <1>8, <1>9 DEF Sound, KnowsRows, InsertedBy, held
<1>12. ClaimStands(x) /\ ListStands(x)
  BY <1>1, <1>2, <1>7, <1>8, <1>9 DEF Sound, ClaimStands, ListStands
<1>13. \A r \in x.holds :
          \/ Running(t) /\ r \in tx[t].holds
          \/ \A u \in Txs \ {t} : Running(u) => r \notin tx[u].holds
  BY <1>1, <1>8 DEF held, Free
<1> QED
  BY <1>6, <1>8, <1>10, <1>11, <1>12, <1>13, QuietTree DEF Sound

\* A transaction that moves on before it has claimed its row, or is refused it, has learnt
\* and locked no row by that.
LEMMA EarlyTree ==
  ASSUME TreeInv, Inv', NEW t \in Txs, Running(t), NEW x \in Transaction,
         tx' = [tx EXCEPT ![t] = x], UNCHANGED Others,
         x.op = tx[t].op, x.on = tx[t].on, x.to = tx[t].to, x.expects = tx[t].expects,
         x.listed = tx[t].listed, x.holds = tx[t].holds,
         tx[t].at \in Early \ {"list"}, x.at \in Early \ {"list"}
  PROVE  TreeInv'
<1>1. Sound(tx[t])
  BY DEF TreeInv, AllSound
<1>2. ListedBy(x) = ListedBy(tx[t]) /\ InsertedBy(x) = InsertedBy(tx[t])
  BY DEF ListedBy, InsertedBy
<1>3. HoldsWhatItWrites(x)
  BY <1>1, <1>2 DEF Sound, HoldsWhatItWrites, Early
<1>4. KnowsRows(x)
  BY <1>1, <1>2 DEF Sound, KnowsRows
<1>5. ClaimStands(x) /\ ListStands(x)
  BY <1>1, <1>2 DEF Sound, ClaimStands, ListStands
<1> QED
  BY <1>3, <1>4, <1>5, QuietTree DEF Sound

\* What an acknowledgement locks before the project are conflicts alone.
LEMMA AcknowledgeTree ==
  ASSUME TreeInv, Inv', NEW t \in Txs, (\E r \in Rows : Mark(t, r)) \/ LookReady(t)
  PROVE  TreeInv'
<1>1. Running(t) /\ tx[t].at = "mark" /\ Inv
  BY DEF Mark, LookReady, TreeInv
<1>2. tx[t] \in Transaction
  BY <1>1, Where
<1>3. ASSUME NEW r \in Rows, Mark(t, r)
      PROVE TreeInv'
  <2> DEFINE marked == tx[t].marks \cup {r}
             x == [tx[t] EXCEPT !.marks = marked]
  <2>1. tx' = [tx EXCEPT ![t] = x] /\ UNCHANGED Others
    BY <1>3 DEF Mark
  <2>2. marked \in SUBSET Rows
    BY <1>2 DEF Transaction
  <2> HIDE DEF marked
  <2>3. /\ x \in Transaction /\ x.at = "mark" /\ x.listed = tx[t].listed /\ x.to = tx[t].to
        /\ x.expects = tx[t].expects /\ x.op = tx[t].op /\ x.on = tx[t].on
        /\ x.holds = tx[t].holds
    BY <1>1, <1>2, <2>2 DEF Transaction
  <2> HIDE DEF x
  <2> QED
    BY <1>1, <2>1, <2>3, EarlyTree DEF Early
<1>4. CASE LookReady(t) /\ Live(Project) /\ SeesReady(t) = "SYNCED"
  <2> DEFINE x == [tx[t] EXCEPT !.at = "claim"]
  <2>1. tx' = [tx EXCEPT ![t] = x] /\ UNCHANGED Others
    BY <1>4 DEF LookReady, Move
  <2>2. /\ x \in Transaction /\ x.at = "claim" /\ x.listed = tx[t].listed /\ x.to = tx[t].to
        /\ x.expects = tx[t].expects /\ x.op = tx[t].op /\ x.on = tx[t].on
        /\ x.holds = tx[t].holds
    BY <1>2 DEF Transaction
  <2> HIDE DEF x
  <2> QED
    BY <1>1, <2>1, <2>2, EarlyTree DEF Early
<1>5. CASE LookReady(t) /\ ~(Live(Project) /\ SeesReady(t) = "SYNCED")
  BY <1>5, EndTree DEF LookReady
<1> QED
  BY <1>3, <1>4, <1>5

\* Nor does a request that is refused.
LEMMA RefuseTree ==
  ASSUME TreeInv, Inv', NEW t \in Txs, Refuse(t) \/ RecordConflict(t)
  PROVE  TreeInv'
<1>1. Running(t) /\ Inv
  BY DEF Refuse, AtClaim, RecordConflict, TreeInv
<1>2. tx[t] \in Transaction
  BY <1>1, Where
<1>3. CASE Refuse(t) /\ ~Answered(t)
  <2> DEFINE x == [tx[t] EXCEPT !.at = "conflict"]
  <2>1. tx' = [tx EXCEPT ![t] = x] /\ UNCHANGED Others /\ tx[t].at = "claim"
    BY <1>3 DEF Refuse, Move, AtClaim
  <2>2. /\ x \in Transaction /\ x.at = "conflict" /\ x.listed = tx[t].listed
        /\ x.to = tx[t].to /\ x.expects = tx[t].expects /\ x.op = tx[t].op
        /\ x.on = tx[t].on /\ x.holds = tx[t].holds
    BY <1>2 DEF Transaction
  <2> HIDE DEF x
  <2> QED
    BY <1>1, <2>1, <2>2, EarlyTree DEF Early
<1>4. CASE (Refuse(t) /\ Answered(t)) \/ RecordConflict(t)
  <2>1. tx' = [tx EXCEPT ![t] = Idle] /\ UNCHANGED Tables
    BY <1>4 DEF Refuse, RecordConflict, Others, Tables
  <2> QED
    BY <2>1, EndTree
<1> QED
  BY <1>3, <1>4

\* A row that is taken was listed, so it is there.
LEMMA TakeTree == ASSUME TreeInv, Inv', NEW t \in Txs, NEW r \in Rows, Take(t, r) PROVE TreeInv'
<1> DEFINE held == tx[t].holds \cup {r}
           x == [tx[t] EXCEPT !.holds = held]
<1>1. /\ Running(t) /\ tx[t].at = "take" /\ Inv
      /\ tx[t] \in Transaction /\ Fits(tx[t]) /\ Straight(tx[t]) /\ tx[t].on \in Rows
  BY Where DEF Take, TreeInv
<1>2. Sound(tx[t])
  BY <1>1 DEF TreeInv, AllSound
<1>3. r \in ListedBy(tx[t]) /\ Free(t, r)
  BY OfRecord DEF Take, Left
<1>4. held \in SUBSET Rows
  BY <1>1 DEF Transaction
<1>5. tx' = [tx EXCEPT ![t] = x] /\ UNCHANGED Others
  BY DEF Take
<1> HIDE DEF held
<1>6. /\ x \in Transaction /\ x.at = "take" /\ x.listed = tx[t].listed /\ x.to = tx[t].to
      /\ x.expects = tx[t].expects /\ x.op = tx[t].op /\ x.on = tx[t].on /\ x.holds = held
  BY <1>1, <1>4 DEF Transaction
<1> HIDE DEF x
<1>7. ListedBy(x) = ListedBy(tx[t]) /\ InsertedBy(x) = InsertedBy(tx[t])
  BY <1>6 DEF ListedBy, InsertedBy
<1>8. HoldsWhatItWrites(x)
  BY <1>1, <1>2, <1>6, <1>7 DEF Sound, HoldsWhatItWrites, Early, held
<1>9. KnowsRows(x)
  BY <1>2, <1>3, <1>6, <1>7 DEF Sound, KnowsRows, held
<1>10. ClaimStands(x) /\ ListStands(x)
  BY <1>1, <1>2, <1>6, <1>7 DEF Sound, ClaimStands, ListStands, Early
<1>11. \A y \in x.holds :
          \/ Running(t) /\ y \in tx[t].holds
          \/ \A u \in Txs \ {t} : Running(u) => y \notin tx[u].holds
  BY <1>1, <1>3, <1>6 DEF held, Free
<1> QED
  BY <1>5, <1>6, <1>8, <1>9, <1>10, <1>11, QuietTree DEF Sound

\* A transaction that only moves on is sound where it arrives, if it holds what it needs there.
LEMMA MoveTree ==
  ASSUME TreeInv, Inv', NEW t \in Txs, Running(t), NEW x \in Transaction,
         tx' = [tx EXCEPT ![t] = x], UNCHANGED Others,
         x.op = tx[t].op, x.on = tx[t].on, x.to = tx[t].to, x.expects = tx[t].expects,
         x.listed = tx[t].listed, x.holds = tx[t].holds,
         tx[t].at \notin Early, x.at \notin Early \cup {"take"},
         x.at = "resolve" => x.op \notin Creates,
         x.at \in {"project", "commit"} => Parent(x.on) \subseteq x.holds,
         x.at \in {"resolve", "project", "commit"} => ListedBy(x) \subseteq x.holds
  PROVE  TreeInv'
<1>1. Sound(tx[t])
  BY DEF TreeInv, AllSound
<1>2. ListedBy(x) = ListedBy(tx[t]) /\ InsertedBy(x) = InsertedBy(tx[t])
  BY DEF ListedBy, InsertedBy
<1>3. HoldsWhatItWrites(x)
  BY <1>1, <1>2 DEF Sound, HoldsWhatItWrites, Early
<1>4. KnowsRows(x)
  BY <1>1, <1>2 DEF Sound, KnowsRows
<1>5. ClaimStands(x) /\ ListStands(x)
  BY <1>1, <1>2 DEF Sound, ClaimStands, ListStands, Early
<1> QED
  BY <1>3, <1>4, <1>5, QuietTree DEF Sound

\* When nothing is left to take, all that was listed is locked.
LEMMA TakenAllTree == ASSUME TreeInv, Inv', NEW t \in Txs, TakenAll(t) PROVE TreeInv'
<1> DEFINE x == [tx[t] EXCEPT !.at = "resolve"]
<1>1. /\ Running(t) /\ tx[t].at = "take" /\ Inv
      /\ tx[t] \in Transaction /\ Fits(tx[t]) /\ Straight(tx[t]) /\ tx[t].on \in Rows
  BY Where DEF TakenAll, TreeInv
<1>2. tx' = [tx EXCEPT ![t] = x] /\ UNCHANGED Others
  BY DEF TakenAll, Move
<1>3. ListedBy(tx[t]) \subseteq tx[t].holds
  BY OfRecord DEF TakenAll, Left
<1>4. tx[t].op \notin Creates
  BY <1>1 DEF Fits, Creates
<1>5. /\ x \in Transaction /\ x.at = "resolve" /\ x.listed = tx[t].listed /\ x.to = tx[t].to
      /\ x.expects = tx[t].expects /\ x.op = tx[t].op /\ x.on = tx[t].on
      /\ x.holds = tx[t].holds
  BY <1>1 DEF Transaction
<1> HIDE DEF x
<1>6. ListedBy(x) = ListedBy(tx[t])
  BY <1>5 DEF ListedBy
<1> QED
  BY <1>1, <1>2, <1>3, <1>4, <1>5, <1>6, MoveTree DEF Early

\* A conflict is locked beside rows that are, and nothing is learnt of them.
LEMMA ResolveTree == ASSUME TreeInv, Inv', NEW t \in Txs, Resolve(t) PROVE TreeInv'
<1> DEFINE marked == tx[t].marks \cup ({tx[t].on} \cap open)
           next == AfterResolve(t)
           x == [tx[t] EXCEPT !.marks = marked, !.at = next]
<1>1. /\ Running(t) /\ tx[t].at = "resolve" /\ Inv
      /\ tx[t] \in Transaction /\ Fits(tx[t]) /\ Straight(tx[t]) /\ tx[t].on \in Rows
  BY Where DEF Resolve, TreeInv
<1>2. marked \in SUBSET Rows
  BY <1>1 DEF Transaction
<1>3. /\ next \in {"project", "commit"} => tx[t].on \notin Children
      /\ next \in {"model", "project", "commit"}
  BY Tree DEF AfterResolve
<1>4. tx' = [tx EXCEPT ![t] = x] /\ UNCHANGED Others
  BY DEF Resolve
<1>5. ListedBy(tx[t]) \subseteq tx[t].holds
  BY <1>1 DEF TreeInv, AllSound, Sound, HoldsWhatItWrites
<1> HIDE DEF marked, next
<1>6. /\ x \in Transaction /\ x.at = next /\ x.listed = tx[t].listed /\ x.to = tx[t].to
      /\ x.expects = tx[t].expects /\ x.op = tx[t].op /\ x.on = tx[t].on
      /\ x.holds = tx[t].holds
  BY <1>1, <1>2, <1>3 DEF Transaction
<1> HIDE DEF x
<1>7. ListedBy(x) = ListedBy(tx[t]) /\ (x.at \in {"project", "commit"} => Parent(x.on) = {})
  BY <1>3, <1>6 DEF ListedBy, Parent
<1> QED
  BY <1>1, <1>3, <1>4, <1>5, <1>6, <1>7, MoveTree DEF Early

\* What the rollups read is nothing the invariant speaks of.
LEMMA ReadsTree ==
  ASSUME TreeInv, Inv', NEW t \in Txs, ReadModel(t) \/ ReadScans(t)
  PROVE  TreeInv'
<1>1. Running(t) /\ Inv
  BY DEF ReadModel, ReadScans, TreeInv
<1>2. tx[t] \in Transaction /\ Fits(tx[t]) /\ Straight(tx[t]) /\ tx[t].on \in Rows
  BY <1>1, Where
<1>3. Sound(tx[t])
  BY <1>1 DEF TreeInv, AllSound
<1>4. CASE ReadModel(t)
  <2> DEFINE seen == Shows(t, Home[tx[t].on])
             x == [tx[t] EXCEPT !.model = seen, !.at = "scan"]
  <2>1. tx' = [tx EXCEPT ![t] = x] /\ UNCHANGED Others /\ tx[t].at = "model"
    BY <1>4 DEF ReadModel
  <2>2. \A m \in Models : SeesStatus(t, m) \in Shown
    BY <1>1, <1>2 DEF SeesStatus, Transaction, Inv, TypeOK
  <2>3. seen \in Shown
    BY <2>2 DEF Shows, ModelsOf, Shown
  <2> HIDE DEF seen
  <2>4. /\ x \in Transaction /\ x.at = "scan" /\ x.listed = tx[t].listed /\ x.to = tx[t].to
        /\ x.expects = tx[t].expects /\ x.op = tx[t].op /\ x.on = tx[t].on
        /\ x.holds = tx[t].holds
    BY <1>2, <2>3 DEF Transaction
  <2> HIDE DEF x
  <2> QED
    BY <1>1, <2>1, <2>4, MoveTree DEF Early
<1>5. CASE ReadScans(t)
  <2> DEFINE seen == SeesReady(t)
             x == [tx[t] EXCEPT !.ready = seen, !.at = "commit"]
  <2>1. tx' = [tx EXCEPT ![t] = x] /\ UNCHANGED Others /\ tx[t].at = "project"
    BY <1>5 DEF ReadScans
  <2>2. seen \in Readiness
    BY DEF SeesReady, Readiness
  <2> HIDE DEF seen
  <2>3. /\ x \in Transaction /\ x.at = "commit" /\ x.listed = tx[t].listed /\ x.to = tx[t].to
        /\ x.expects = tx[t].expects /\ x.op = tx[t].op /\ x.on = tx[t].on
        /\ x.holds = tx[t].holds
    BY <1>2, <2>2 DEF Transaction
  <2> HIDE DEF x
  <2>4. Parent(x.on) \cup ListedBy(x) \subseteq x.holds
    BY <1>3, <2>1, <2>3 DEF Sound, HoldsWhatItWrites, ListedBy
  <2> QED
    BY <1>1, <2>1, <2>3, <2>4, MoveTree DEF Early
<1> QED
  BY <1>4, <1>5

\* A child's scan is there, and locked from the rollup on.
LEMMA RollUpScanTree == ASSUME TreeInv, Inv', NEW t \in Txs, RollUpScan(t) PROVE TreeInv'
<1> DEFINE held == tx[t].holds \cup {Home[tx[t].on]}
           x == [tx[t] EXCEPT !.holds = held, !.at = "project"]
<1>1. /\ Running(t) /\ tx[t].at = "scan" /\ Free(t, Home[tx[t].on]) /\ Inv
      /\ tx[t] \in Transaction /\ Fits(tx[t]) /\ Straight(tx[t]) /\ tx[t].on \in Rows
  BY Where DEF RollUpScan, TreeInv
<1>2. Sound(tx[t])
  BY <1>1 DEF TreeInv, AllSound
<1>3. tx[t].on \in Children /\ Home[tx[t].on] \in Scans
  BY <1>1, Tree DEF Fits
<1>4. held \in SUBSET Rows
  BY <1>1, <1>3, Tree DEF Transaction
<1>5. Parent(tx[t].on) = {Home[tx[t].on]}
  BY <1>3 DEF Parent
<1>6. ListedBy(tx[t]) = {}
  BY <1>1, <1>2, <1>3, Tree DEF Sound, HoldsWhatItWrites, Fits
<1>7. tx' = [tx EXCEPT ![t] = x] /\ UNCHANGED Others
  BY DEF RollUpScan
<1> HIDE DEF held
<1>8. /\ x \in Transaction /\ x.at = "project" /\ x.listed = tx[t].listed /\ x.to = tx[t].to
      /\ x.expects = tx[t].expects /\ x.op = tx[t].op /\ x.on = tx[t].on /\ x.holds = held
  BY <1>1, <1>4 DEF Transaction
<1> HIDE DEF x
<1>9. ListedBy(x) = {} /\ InsertedBy(x) = InsertedBy(tx[t])
  BY <1>6, <1>8 DEF ListedBy, InsertedBy
<1>10. HoldsWhatItWrites(x)
  BY <1>1, <1>2, <1>5, <1>8, <1>9 DEF Sound, HoldsWhatItWrites, Early, held
<1>11. KnowsRows(x)
  BY <1>2, <1>5, <1>8, <1>9 DEF Sound, KnowsRows, held
<1>12. ClaimStands(x) /\ ListStands(x)
  <2>1. x.op # "scan.delete"
    BY <1>1, <1>3, <1>8, Tree DEF Fits
  <2> QED
    BY <1>1, <1>2, <1>8, <2>1 DEF Sound, ClaimStands, ListStands, Early
<1>13. \A r \in x.holds :
          \/ Running(t) /\ r \in tx[t].holds
          \/ \A u \in Txs \ {t} : Running(u) => r \notin tx[u].holds
  BY <1>1, <1>8 DEF held, Free
<1> QED
  BY <1>7, <1>8, <1>10, <1>11, <1>12, <1>13, QuietTree DEF Sound

\* Where a transaction is when it commits.
LEMMA AtCommit ==
  ASSUME TreeInv, NEW t \in Txs, Commit(t)
  PROVE  /\ Running(t) /\ tx[t].at = "commit"
         /\ tx[t] \in Transaction /\ Fits(tx[t]) /\ tx[t].on \in Rows /\ Sound(tx[t])
         /\ tx[t].on \in tx[t].holds /\ Parent(tx[t].on) \cup Listed(t) \subseteq tx[t].holds
         /\ Listed(t) # {} => tx[t].op \in {"scan.delete", "project.delete"}
         /\ Rolled(t) = Parent(tx[t].on) /\ tx[t].holds \subseteq Rows
<1>1. Running(t) /\ tx[t].at = "commit" /\ Inv
  BY DEF Commit, TreeInv
<1>2. tx[t] \in Transaction /\ Fits(tx[t]) /\ tx[t].on \in Rows /\ Sound(tx[t])
  BY <1>1, Where DEF TreeInv, AllSound
<1>3. HoldsWhatItWrites(tx[t])
  BY <1>2 DEF Sound
<1> QED
  BY <1>1, <1>2, <1>3, OfRecord DEF HoldsWhatItWrites, Early, Rolled, Parent, Transaction

\* What it writes it has locked, or it is not there yet.
LEMMA WritesItsOwn ==
  ASSUME TreeInv, NEW t \in Txs, Commit(t)
  PROVE  /\ \A r \in Written(t) : r \in tx[t].holds \/ ~Born(r)
         /\ \A r \in Inserted(t) : ~Born(r)
         /\ \A r \in Deleted(t) : Born(r) /\ r \in Written(t)
         /\ Written(t) \subseteq Rows
<1>1. KnowsRows(tx[t])
  BY AtCommit DEF Sound
<1>2. \A r \in Inserted(t) : ~Born(r)
  BY <1>1, OfRecord DEF KnowsRows
<1>3. \A r \in Deleted(t) : Born(r) /\ r \in Written(t)
  BY <1>1, OfRecord DEF KnowsRows, Deleted, Written, Deletes, Creates
<1>4. Inserted(t) \subseteq Rows
  BY AtCommit, Tree DEF Inserted, ModelsOf
<1> QED
  BY <1>2, <1>3, <1>4, AtCommit DEF Written

\* The rows it leaves alone stay as they are; those it writes move one revision on.
LEMMA CommitWrites ==
  ASSUME TreeInv, NEW t \in Txs, Commit(t)
  PROVE  \A r \in Rows :
            /\ rev[r] \in Nat
            /\ r \in Written(t) => rev'[r] = rev[r] + 1
            /\ r \notin Written(t) => rev'[r] = rev[r] /\ state'[r] = state[r]
            /\ Live(r)' => Live(r) \/ r \in Inserted(t)
            /\ Born(r) => Born(r)'
            /\ Born(r)' => Born(r) \/ r \in Inserted(t)
            /\ r \in Deleted(t) => state'[r] = "dead"
            /\ r \in Inserted(t) => Born(r)'
<1>1. rev \in [Rows -> Nat] /\ state \in [Rows -> {"unborn", "live", "dead"}]
  BY DEF TreeInv, Inv, TypeOK
<1>2. \A r \in Rows : /\ rev'[r] = IF r \in Written(t) THEN rev[r] + 1 ELSE rev[r]
                      /\ state'[r] = CASE r \in Deleted(t) -> "dead"
                                       [] r \in Inserted(t) -> "live"
                                       [] OTHER -> state[r]
  BY DEF Commit, NewRev
<1>3. Inserted(t) \subseteq Written(t) /\ Deleted(t) \subseteq Written(t)
  BY WritesItsOwn DEF Written
<1>4. Inserted(t) \cap Deleted(t) = {}
  BY WritesItsOwn
<1> HIDE DEF Born
<1>5. SUFFICES ASSUME NEW r \in Rows
               PROVE  /\ rev[r] \in Nat
                      /\ r \in Written(t) => rev'[r] = rev[r] + 1
                      /\ r \notin Written(t) => rev'[r] = rev[r] /\ state'[r] = state[r]
                      /\ Live(r)' => Live(r) \/ r \in Inserted(t)
                      /\ Born(r) => Born(r)'
                      /\ Born(r)' => Born(r) \/ r \in Inserted(t)
                      /\ r \in Deleted(t) => state'[r] = "dead"
                      /\ r \in Inserted(t) => Born(r)'
  OBVIOUS
<1>6. /\ r \in Deleted(t) => state'[r] = "dead"
      /\ r \in Inserted(t) => state'[r] = "live"
      /\ r \notin Deleted(t) \cup Inserted(t) => state'[r] = state[r]
  BY <1>2, <1>4
<1>7. r \in Deleted(t) => Born(r)
  BY WritesItsOwn
<1> QED
  BY <1>1, <1>2, <1>3, <1>6, <1>7 DEF Born, Live

\* While the project stands, whoever writes a child writes its scan.
LEMMA ScanIsTold ==
  ASSUME TreeInv, NEW t \in Txs, Commit(t), Live(Project)'
  PROVE  /\ Live(Project) /\ tx[t].op # "project.delete"
         /\ \A c \in Children : c \in Written(t) => Home[c] \in Written(t)
<1>1. tx[t].on \in Rows /\ Fits(tx[t]) /\ tx[t] \in Transaction /\ Project \in Rows
  BY AtCommit, Tree
<1>2. Project \notin Inserted(t)
  BY <1>1, Tree DEF Inserted, Creates, Fits, ModelsOf
<1>3. Live(Project)
  BY <1>1, <1>2, CommitWrites
<1>4. tx[t].op # "project.delete"
  <2>1. ASSUME tx[t].op = "project.delete"
        PROVE FALSE
    <3>1. tx[t].on = Project
      BY <1>1, <2>1, Tree DEF Fits
    <3>2. Project \in Deleted(t)
      BY <2>1, <3>1 DEF Deleted, Deletes
    <3>3. state'[Project] = "dead"
      BY <1>1, <3>2, CommitWrites
    <3> QED
      BY <3>3 DEF Live
  <2> QED
    BY <2>1
<1>5. ASSUME NEW c \in Children, c \in Written(t)
      PROVE Home[c] \in Written(t)
  <2>1. CASE c = tx[t].on
    BY <2>1 DEF Written, Rolled
  <2>2. CASE c \in Inserted(t) /\ c # tx[t].on
    BY <2>2 DEF Inserted, ModelsOf, Written
  <2>3. CASE c \in Listed(t)
    <3>1. tx[t].op = "scan.delete"
      BY <1>4, <2>3, AtCommit
    <3>2. Listed(t) \subseteq Below(tx[t].on)
      BY <3>1, AtCommit, OfRecord DEF Sound, ListStands
    <3> QED
      BY <2>3, <3>2 DEF Below, Written
  <2>4. c \notin Rolled(t)
    BY <1>5, Tree DEF Rolled
  <2> QED
    BY <1>5, <2>1, <2>2, <2>3, <2>4 DEF Written
<1> QED
  BY <1>3, <1>4, <1>5

\* What one transaction has claimed, listed or inserted another's commit does not spoil.
LEMMA OthersStaySound ==
  ASSUME TreeInv, NEW t \in Txs, Commit(t), NEW u \in Txs, u # t, Running(u), tx'[u] = tx[u]
  PROVE  Sound(tx[u])'
<1>1. Sound(tx[u]) /\ Inv /\ Running(t)
  BY AtCommit DEF TreeInv, AllSound
<1>2. tx[u] \in Transaction /\ Fits(tx[u]) /\ tx[u].on \in Rows
  BY <1>1, Where
<1>3. tx[t].holds \cap tx[u].holds = {}
  BY <1>1 DEF TreeInv, HeldOnce
<1>4. HoldsWhatItWrites(tx[u])'
  BY <1>1 DEF Sound, HoldsWhatItWrites, ListedBy
<1>5. Parent(tx[u].on) \cup ListedBy(tx[u]) \cup (tx[u].holds \ {tx[u].on}) \subseteq Rows
  BY <1>2, Tree DEF Parent, ListedBy, Transaction
<1>6. ASSUME NEW r \in InsertedBy(tx[u]), Born(r)'
      PROVE FALSE
  <2>1. ~Born(r) /\ tx[u].op \in Creates /\ r \in Rows
    BY <1>1, <1>2, <1>6, Tree DEF Sound, KnowsRows, InsertedBy, ModelsOf
  <2>2. r \in Inserted(t)
    BY <1>6, <2>1, CommitWrites
  <2>3. tx[u].on \in tx[u].holds /\ tx[t].on \in tx[t].holds
    BY <1>1, <2>1, AtCommit DEF Sound, HoldsWhatItWrites
  <2>4. tx[t].on # tx[u].on
    BY <1>3, <2>3
  <2>5. tx[t].op \in Creates /\ ~Born(tx[t].on) /\ ~Born(tx[u].on)
    BY <1>1, <2>1, <2>2, WritesItsOwn DEF Inserted, InsertedBy, Sound, KnowsRows
  <2>6. /\ r = tx[t].on \/ (r \in Children /\ Home[r] = tx[t].on)
        /\ r = tx[u].on \/ (r \in Children /\ Home[r] = tx[u].on)
    BY <1>6, <2>2, Tree DEF Inserted, InsertedBy, ModelsOf
  <2>7. /\ tx[t].on \in Children => Born(Home[tx[t].on])
        /\ tx[u].on \in Children => Born(Home[tx[u].on])
    BY <1>1, AtCommit DEF Sound, KnowsRows, Parent
  <2> QED
    BY <2>4, <2>5, <2>6, <2>7
<1>7. KnowsRows(tx[u])'
  BY <1>1, <1>2, <1>5, <1>6, CommitWrites
     DEF Sound, KnowsRows, InsertedBy, ListedBy, ModelsOf
<1>8. tx[u].op \notin Creates \cup {"asset.mark", "acknowledge"} /\ tx[u].at \notin Early =>
         tx[u].on \notin Written(t)
  BY <1>1, <1>3, WritesItsOwn DEF Sound, HoldsWhatItWrites, KnowsRows
<1>9. ClaimStands(tx[u])'
  <2>1. rev[tx[u].on] <= rev'[tx[u].on]
    BY <1>2, CommitWrites
  <2>2. tx[u].op \notin Creates => tx[u].expects <= rev'[tx[u].on]
    <3>1. tx[u].expects \in Nat /\ rev[tx[u].on] \in Nat /\ rev'[tx[u].on] \in Nat
      BY <1>2, CommitWrites DEF Transaction
    <3>2. tx[u].op \notin Creates => tx[u].expects <= rev[tx[u].on]
      BY <1>1 DEF Sound, ClaimStands
    <3> QED
      BY <2>1, <3>1, <3>2
  <2>3. tx[u].op \notin Creates \cup {"asset.mark", "acknowledge"} /\ tx[u].at \notin Early =>
           /\ Live(tx[u].on) /\ rev[tx[u].on] = tx[u].expects
           /\ rev'[tx[u].on] = rev[tx[u].on] /\ state'[tx[u].on] = state[tx[u].on]
    BY <1>1, <1>2, <1>8, CommitWrites DEF Sound, ClaimStands
  <2> QED
    BY <2>2, <2>3 DEF ClaimStands, Live
<1>10. ListStands(tx[u])'
  <2> SUFFICES ASSUME tx[u].op = "scan.delete", tx[u].at # "list",
                      Live(Project)', rev'[tx[u].on] = tx[u].expects,
                      NEW c \in Below(tx[u].on)
               PROVE  tx[u].listed[c] = IF Live(c)' THEN rev'[c] ELSE 0
    BY <1>1 DEF Sound, ListStands, ListedBy, Below
  <2>1. Live(Project)
    BY ScanIsTold
  <2>2. tx[u].expects <= rev[tx[u].on] /\ rev[tx[u].on] \in Nat
    BY <1>1, <1>2, CommitWrites DEF Sound, ClaimStands, Creates, Early
  <2>3. tx[u].on \notin Written(t)
    BY <1>2, <2>2, CommitWrites
  <2>4. rev[tx[u].on] = tx[u].expects
    BY <1>2, <2>3, CommitWrites
  <2>5. c \in Children /\ c \in Rows /\ Home[c] = tx[u].on
    BY Tree DEF Below
  <2>6. c \notin Written(t)
    BY <2>3, <2>5, ScanIsTold
  <2>7. rev'[c] = rev[c] /\ state'[c] = state[c]
    BY <2>5, <2>6, CommitWrites
  <2> QED
    BY <1>1, <2>1, <2>4, <2>7 DEF Sound, ListStands, Live
<1> QED
  BY <1>4, <1>7, <1>9, <1>10 DEF Sound

\* The change each row's readers are told: while the project stands, it is at the revision
\* the row moves to, also that of a tombstone, which is computed from what was read before.
LEMMA CommitTells ==
  ASSUME TreeInv, NEW t \in Txs, Commit(t), Live(Project)', NEW r \in Rows \ {Project}
  PROVE  /\ r \in Deleted(t) => last'[r] = Tombstone(rev[r] + 1)
         /\ r \in Written(t) => last'[r].rev = rev[r] + 1
         /\ r \notin Written(t) => last'[r] = last[r]
<1>1. /\ r \in Deleted(t) => last'[r] = Tombstone(Buried(t, r))
      /\ r \in Written(t) /\ r \notin Deleted(t) => \E w : last'[r] = Upsert(rev'[r], w)
      /\ r \notin Written(t) /\ r \notin Deleted(t) => last'[r] = last[r]
  BY DEF Commit
<1>2. r \notin Written(t) => r \notin Deleted(t)
  BY WritesItsOwn
<1>3. r \in Written(t) => rev'[r] = rev[r] + 1
  BY CommitWrites
<1>4. Live(Project) /\ tx[t].op # "project.delete" /\ tx[t].at = "commit" /\ Sound(tx[t])
  BY ScanIsTold, AtCommit
<1>5. ASSUME r \in Deleted(t)
      PROVE Buried(t, r) = rev[r] + 1
  <2>1. tx[t].op \in Deletes /\ r \in {tx[t].on} \cup Listed(t)
    BY <1>5 DEF Deleted
  <2>2. rev[tx[t].on] = tx[t].expects
    BY <1>4, <2>1 DEF Sound, ClaimStands, Deletes, Creates, Early
  <2>3. CASE r = tx[t].on
    BY <2>2, <2>3 DEF Buried
  <2>4. CASE r # tx[t].on
    <3>1. r \in Listed(t) /\ tx[t].op = "scan.delete"
      BY <1>4, <2>1, <2>4, AtCommit
    <3>2. /\ r \in Below(tx[t].on)
          /\ tx[t].listed[r] = IF Live(r) THEN rev[r] ELSE 0
      BY <1>4, <2>2, <3>1, OfRecord DEF Sound, ListStands
    <3>3. tx[t].listed[r] > 0
      BY <3>1 DEF Listed
    <3> QED
      BY <2>4, <3>2, <3>3 DEF Buried
  <2> QED
    BY <2>3, <2>4
<1>6. r \in Deleted(t) => last'[r] = Tombstone(rev[r] + 1)
  BY <1>1, <1>5
<1>7. r \in Deleted(t) => last'[r].rev = rev[r] + 1
  BY <1>6 DEF Tombstone
<1>8. r \in Written(t) /\ r \notin Deleted(t) => last'[r].rev = rev[r] + 1
  <2> SUFFICES ASSUME r \in Written(t), r \notin Deleted(t) PROVE last'[r].rev = rev[r] + 1
    OBVIOUS
  <2>1. PICK w : last'[r] = Upsert(rev'[r], w)
    BY <1>1
  <2>2. last'[r].rev = rev'[r]
    BY <2>1 DEF Upsert
  <2> QED
    BY <1>3, <2>2
<1> QED
  BY <1>1, <1>2, <1>6, <1>7, <1>8

\* A note that is dead is written no more while the project stands.
LEMMA DeadStayDead ==
  ASSUME TreeInv, NEW t \in Txs, Commit(t), Live(Project)', NEW n \in Notes, state[n] = "dead"
  PROVE  n \notin Written(t)
<1>1. Live(Project) /\ tx[t].op # "project.delete" /\ tx[t].at = "commit" /\ Sound(tx[t])
  BY ScanIsTold, AtCommit
<1>2. Fits(tx[t]) /\ tx[t] \in Transaction
  BY AtCommit
<1>3. ~Live(n) /\ Born(n) /\ n \in Children /\ n \in Rows /\ n \notin Models
  BY Tree, TreeAssumption DEF Live, Born
<1>4. n \notin Inserted(t)
  BY <1>3, WritesItsOwn
<1>5. n # tx[t].on
  <2>1. n = tx[t].on => tx[t].op # "asset.mark"
    BY <1>1, <1>3 DEF Sound, KnowsRows
  <2>2. n = tx[t].on => tx[t].op \notin Creates
    BY <1>4 DEF Inserted
  <2>3. n = tx[t].on => tx[t].op # "acknowledge"
    BY <1>2, <1>3 DEF Fits
  <2> QED
    BY <1>1, <1>3, <2>1, <2>2, <2>3 DEF Sound, ClaimStands, Early
<1>6. n \notin Listed(t)
  <2>1. ASSUME n \in Listed(t)
        PROVE FALSE
    <3>1. tx[t].op = "scan.delete"
      BY <1>1, <2>1, AtCommit
    <3>2. rev[tx[t].on] = tx[t].expects
      BY <1>1, <3>1 DEF Sound, ClaimStands, Creates, Early
    <3>3. tx[t].listed[n] = 0
      BY <1>1, <1>3, <2>1, <3>1, <3>2, OfRecord DEF Sound, ListStands
    <3> QED
      BY <2>1, <3>3 DEF Listed
  <2> QED
    BY <2>1
<1>7. n \notin Rolled(t)
  BY <1>3, Tree DEF Rolled
<1> QED
  BY <1>4, <1>5, <1>6, <1>7 DEF Written

\* A commit leaves every other transaction's claims and lists standing.
LEMMA CommitTree == ASSUME TreeInv, Inv', NEW t \in Txs, Commit(t) PROVE TreeInv'
<1>1. tx'[t] = Idle /\ \A u \in Txs \ {t} : tx'[u] = tx[u]
  BY DEF TreeInv, Inv, TypeOK, Commit
<1>2. HeldOnce'
  BY <1>1 DEF TreeInv, HeldOnce, Running
<1>3. ASSUME NEW u \in Txs, Running(u)'
      PROVE Sound(tx[u])'
  <2>1. u # t /\ tx'[u] = tx[u] /\ Running(u)
    BY <1>1, <1>3 DEF Running
  <2> QED
    BY <2>1, OthersStaySound
<1>4. ASSUME NEW r \in Rows, Born(r)'
      PROVE rev'[r] > 0
  <2>1. CASE r \in Written(t)
    BY <2>1, CommitWrites
  <2>2. CASE r \notin Written(t)
    <3>1. Born(r) /\ rev'[r] = rev[r]
      BY <1>4, <2>2, CommitWrites DEF Born
    <3> QED
      BY <3>1 DEF TreeInv, RowsInOrder
  <2> QED
    BY <2>1, <2>2
<1>5. ASSUME NEW c \in Children, Born(c)'
      PROVE Born(Home[c])'
  <2>1. c \in Rows /\ Home[c] \in Rows
    BY Tree
  <2>2. CASE Born(c)
    <3>1. Born(Home[c])
      BY <2>2 DEF TreeInv, RowsInOrder
    <3> QED
      BY <2>1, <3>1, CommitWrites
  <2>3. CASE ~Born(c)
    <3>1. c \in Inserted(t)
      BY <1>5, <2>1, <2>3, CommitWrites
    <3>2. CASE c = tx[t].on
      <4>1. Born(Home[c])
        BY <3>2, AtCommit DEF Sound, KnowsRows, Parent
      <4> QED
        BY <2>1, <4>1, CommitWrites
    <3>3. CASE c # tx[t].on
      <4>1. Home[c] \in Inserted(t)
        BY <3>1, <3>3 DEF Inserted, ModelsOf
      <4> QED
        BY <2>1, <4>1, CommitWrites
    <3> QED
      BY <3>2, <3>3
  <2> QED
    BY <2>2, <2>3
<1>6. ASSUME Live(Project)', NEW r \in Rows \ {Project}, last'[r] # Nothing
      PROVE last'[r].rev <= rev'[r]
  <2>1. rev[r] \in Nat
    BY CommitWrites
  <2>2. CASE r \in Written(t)
    <3>1. last'[r].rev = rev[r] + 1
      BY <1>6, <2>2, CommitTells
    <3> QED
      BY <2>1, <2>2, <3>1, CommitWrites
  <2>3. CASE r \notin Written(t)
    <3>1. last'[r] = last[r] /\ rev'[r] = rev[r] /\ Live(Project)
      BY <1>6, <2>3, CommitTells, CommitWrites, ScanIsTold
    <3> QED
      BY <1>6, <3>1 DEF TreeInv, LastKnown
  <2> QED
    BY <2>2, <2>3
<1>7. ASSUME Live(Project)', NEW n \in Notes, state'[n] = "dead"
      PROVE last'[n] = Tombstone(rev'[n])
  <2>1. n \in Rows \ {Project}
    BY Tree
  <2>2. CASE n \in Deleted(t)
    <3>1. last'[n] = Tombstone(rev[n] + 1)
      BY <1>7, <2>1, <2>2, CommitTells
    <3>2. rev'[n] = rev[n] + 1
      BY <2>1, <2>2, CommitWrites, WritesItsOwn
    <3> QED
      BY <3>1, <3>2
  <2>3. CASE n \notin Deleted(t)
    <3>1. state[n] = "dead"
      <4>1. n \in Inserted(t) => state'[n] = "live"
        BY <2>1, <2>3 DEF Commit
      <4>2. n \notin Inserted(t) => state'[n] = state[n]
        BY <2>1, <2>3 DEF Commit
      <4> QED
        BY <1>7, <4>1, <4>2
    <3>2. n \notin Written(t)
      BY <1>7, <3>1, DeadStayDead
    <3>3. last'[n] = last[n] /\ rev'[n] = rev[n] /\ Live(Project)
      BY <1>7, <2>1, <3>2, CommitTells, CommitWrites, ScanIsTold
    <3> QED
      BY <3>1, <3>3 DEF TreeInv, NotesBuried, Tombstone
  <2> QED
    BY <2>2, <2>3
<1>8. RowsInOrder' /\ AllSound'
  <2>1. Born(Project)'
    BY CommitWrites, Tree DEF TreeInv, RowsInOrder
  <2> QED
    BY <1>3, <1>4, <1>5, <2>1 DEF RowsInOrder, AllSound
<1>9. LastKnown' /\ NotesBuried'
  BY <1>6, <1>7 DEF LastKnown, NotesBuried, Tombstone
<1> QED
  BY <1>2, <1>8, <1>9 DEF TreeInv

\* Every step keeps the invariant.
LEMMA TreeNext == TreeInv /\ [Next]_vars => TreeInv'
<1> SUFFICES ASSUME TreeInv, [Next]_vars PROVE TreeInv'
  OBVIOUS
<1>1. Inv'
  BY InvNext DEF TreeInv
<1>2. CASE UNCHANGED vars
  <2>1. /\ state' = state /\ rev' = rev /\ last' = last /\ tx' = tx
    BY <1>2 DEF vars
  <2>2. HeldOnce' /\ RowsInOrder' /\ LastKnown' /\ NotesBuried'
    BY <2>1 DEF TreeInv, HeldOnce, Running, RowsInOrder, Born, LastKnown, NotesBuried, Live
  <2>3. ASSUME NEW u \in Txs, Running(u)'
        PROVE Sound(tx[u])'
    <3>1. Sound(tx[u])
      BY <2>1, <2>3 DEF TreeInv, AllSound, Running
    <3> QED
      BY <2>1, <3>1 DEF Sound, HoldsWhatItWrites, KnowsRows, ClaimStands, ListStands,
                        Born, Live, ListedBy, InsertedBy, Below, ModelsOf
  <2> QED
    BY <1>1, <2>2, <2>3 DEF TreeInv, AllSound
<1>3. ASSUME NEW t \in Txs, Abort(t)
      PROVE TreeInv'
  BY <1>1, <1>3, EndTree DEF Abort, Others, Tables
<1> QED
  BY <1>1, <1>2, <1>3, BeginsTree, ListTree, AcknowledgeTree, ClaimTree, RefuseTree, TakeTree,
     TakenAllTree, ResolveTree, ReadsTree, RollUpScanTree, CommitTree DEF Next

\* The invariant holds in every state.
LEMMA TreeHolds == Spec => []TreeInv
BY TreeInit, TreeNext, PTL DEF Spec

-----------------------------------------------------------------------------
(* Waiting. *)

\* Each waits for a row further up the tree than the rows it holds; and who waits for the
\* conflict of a row it has claimed waits only for an acknowledgement.
LEMMA EditsDoNotCircle == TreeInv => EditsDoNotDeadlock
<1> SUFFICES ASSUME TreeInv, NEW C \in SUBSET Txs, Circle(C), \A t \in C : tx[t].op \notin Unruly
             PROVE FALSE
  BY DEF EditsDoNotDeadlock, Unruly
<1>1. \A t \in C : \E u \in C : WaitsFor(t, u)
  BY DEF Circle
<1>2. ASSUME NEW t \in C
      PROVE /\ Running(t) /\ tx[t] \in Transaction /\ Fits(tx[t]) /\ Straight(tx[t])
            /\ HoldsWhatItWrites(tx[t])
            /\ tx[t].at \in {"claim", "conflict", "resolve", "scan", "commit"}
  <2>1. Wants(t) # {} \/ WantsMark(t) # {}
    BY <1>1 DEF WaitsFor
  <2>2. Running(t)
    BY <2>1 DEF Wants, WantsMark
  <2>3. /\ tx[t] \in Transaction /\ Fits(tx[t]) /\ Straight(tx[t])
        /\ HoldsWhatItWrites(tx[t])
    BY <2>2, Where DEF TreeInv, AllSound, Sound
  <2>4. tx[t].at \notin {"take", "mark"}
    BY <2>3 DEF Fits, Unruly
  <2> QED
    BY <2>1, <2>2, <2>3, <2>4 DEF Wants, WantsMark
<1>3. ASSUME NEW t \in C
      PROVE /\ tx[t].marks \subseteq tx[t].holds
            /\ tx[t].at \in {"claim", "conflict"} => tx[t].holds = {}
            /\ tx[t].at = "resolve" => tx[t].holds = {tx[t].on}
            /\ tx[t].at = "scan" => tx[t].holds \subseteq {tx[t].on} /\ tx[t].on \in Children
            /\ tx[t].at = "commit" => tx[t].holds \subseteq {tx[t].on} \cup Parent(tx[t].on)
  BY <1>2 DEF Fits, Straight
<1>4. ASSUME NEW t \in C, NEW u \in C, WaitsFor(t, u)
      PROVE /\ t # u /\ tx[t].holds \cap tx[u].holds = {} /\ tx[u].holds # {}
            /\ (Wants(t) \cup WantsMark(t)) \cap tx[u].holds # {}
  <2>1. t # u /\ t \in Txs /\ u \in Txs /\ Running(t) /\ Running(u)
    BY <1>2, <1>4 DEF WaitsFor
  <2>2. tx[t].holds \cap tx[u].holds = {}
    BY <2>1 DEF TreeInv, HeldOnce
  <2>3. (Wants(t) \cup WantsMark(t)) \cap tx[u].holds # {}
    BY <1>3, <1>4 DEF WaitsFor
  <2> QED
    BY <2>1, <2>2, <2>3
<1>5. ASSUME NEW t \in C, tx[t].at = "resolve"
      PROVE FALSE
  <2>1. PICK u \in C : WaitsFor(t, u)
    BY <1>1
  <2>2. Wants(t) \cup WantsMark(t) = {tx[t].on}
    BY <1>2, <1>5 DEF Wants, WantsMark
  <2> QED
    BY <1>3, <1>4, <1>5, <2>1, <2>2
<1>6. ASSUME NEW t \in C, tx[t].at = "commit"
      PROVE FALSE
  <2>1. PICK u \in C : WaitsFor(t, u)
    BY <1>1
  <2>2. Wants(t) \cup WantsMark(t) = {Project}
    BY <1>2, <1>6 DEF Wants, WantsMark
  <2>3. Project \in tx[u].holds
    BY <1>4, <2>1, <2>2
  <2>4. tx[u].on = Project
    BY <1>2, <2>3 DEF Fits
  <2>5. tx[u].at = "commit"
    BY <1>2, <1>3, <1>5, <2>3, <2>4, Tree
  <2>6. PICK v \in C : WaitsFor(u, v)
    BY <1>1
  <2>7. Wants(u) \cup WantsMark(u) = {Project}
    BY <1>2, <2>5 DEF Wants, WantsMark
  <2> QED
    BY <1>4, <2>3, <2>6, <2>7
<1>7. ASSUME NEW t \in C, tx[t].at = "scan"
      PROVE FALSE
  <2>1. PICK u \in C : WaitsFor(t, u)
    BY <1>1
  <2>2. Wants(t) \cup WantsMark(t) = {Home[tx[t].on]}
    BY <1>2, <1>7 DEF Wants, WantsMark
  <2>3. Home[tx[t].on] \in tx[u].holds /\ Home[tx[t].on] \in Scans
    BY <1>3, <1>4, <1>7, <2>1, <2>2, Tree
  <2>4. tx[u].at \notin {"claim", "conflict", "scan"}
    BY <1>3, <2>3, Tree
  <2> QED
    BY <1>2, <1>5, <1>6, <2>4
<1>8. ASSUME NEW t \in C
      PROVE FALSE
  <2>1. PICK u \in C : WaitsFor(t, u)
    BY <1>1
  <2>2. tx[u].at \notin {"claim", "conflict"}
    BY <1>3, <1>4, <2>1
  <2> QED
    BY <1>2, <1>5, <1>6, <1>7, <2>2
<1> QED
  BY <1>8 DEF Circle

\* What a step is that changes the tables.
LEMMA OnlyCommitsWrite ==
  ASSUME [Next]_vars, state' # state \/ last' # last
  PROVE  \E t \in Txs : Commit(t)
<1>1. \A t : Begins(t) => state' = state /\ last' = last
  BY DEF Begins, BeginNoteCreate, BeginNoteEdit, BeginAssetMark, BeginScanCreate, BeginUpdate,
         BeginDelete, BeginAcknowledge, Begin, Others
<1>2. \A t : \/ LookReady(t) \/ List(t) \/ Claim(t) \/ Refuse(t) \/ RecordConflict(t)
             \/ TakenAll(t) \/ Resolve(t) \/ (\E r \in Rows : Take(t, r) \/ Mark(t, r))
             \/ ReadModel(t) \/ RollUpScan(t) \/ ReadScans(t) \/ Abort(t)
             => state' = state /\ last' = last
  BY DEF LookReady, List, Claim, Refuse, RecordConflict, TakenAll, Resolve, Take, Mark,
         ReadModel, RollUpScan, ReadScans, Abort, Others, Tables
<1>3. CASE UNCHANGED vars
  BY <1>3 DEF vars
<1>4. CASE Next
  BY <1>1, <1>2, <1>4 DEF Next
<1> QED
  BY <1>3, <1>4

\* One row's step of RevisionsGrow.
LEMMA ChangesGrow ==
  ASSUME TreeInv, [Next]_vars, Live(Project)', NEW r \in Rows \ {Project},
         last'[r] # last[r], last[r] # Nothing
  PROVE  last'[r].rev > last[r].rev
<1>1. PICK t \in Txs : Commit(t)
  BY OnlyCommitsWrite
<1>2. last'[r].rev = rev[r] + 1
  BY <1>1, CommitTells
<1>3. last[r].rev <= rev[r]
  BY <1>1, ScanIsTold DEF TreeInv, LastKnown
<1>4. rev[r] \in Nat /\ last[r].rev \in Nat
  <2>1. last[r] \in Change
    BY DEF TreeInv, Inv, TypeOK
  <2> QED
    BY <1>1, <2>1, CommitWrites DEF Change
<1> QED
  BY <1>2, <1>3, <1>4

\* One scan's step of ChildrenDieWithScan.
LEMMA ChildDies ==
  ASSUME TreeInv, [Next]_vars, Live(Project)', NEW s \in Scans, NEW c \in Children,
         Home[c] = s, Live(s), state'[s] = "dead", Live(c)
  PROVE  state'[c] = "dead"
<1>1. PICK t \in Txs : Commit(t)
  BY OnlyCommitsWrite DEF Live
<1>2. s \in Rows /\ c \in Rows /\ s \notin Children
  BY Tree
<1>3. s \in Deleted(t)
  <2>1. s \notin Deleted(t) => state'[s] \in {"live", state[s]}
    BY <1>1, <1>2 DEF Commit
  <2> QED
    BY <2>1 DEF Live
<1>4. Live(Project) /\ tx[t].op # "project.delete" /\ tx[t].at = "commit" /\ Sound(tx[t])
  BY <1>1, ScanIsTold, AtCommit
<1>5. tx[t].op = "scan.delete" /\ s = tx[t].on
  <2>1. s \notin Listed(t)
    BY <1>1, <1>2, <1>4, AtCommit, OfRecord DEF Sound, ListStands, Below
  <2>2. s = tx[t].on /\ tx[t].op \in Deletes
    BY <1>3, <2>1 DEF Deleted
  <2> QED
    BY <1>1, <1>2, <1>4, <2>2, AtCommit DEF Fits, Deletes
<1>6. tx[t].listed[c] = rev[c]
  <2>1. rev[s] = tx[t].expects
    BY <1>4, <1>5 DEF Sound, ClaimStands, Creates, Early
  <2> QED
    BY <1>4, <1>5, <2>1 DEF Sound, ListStands, Below
<1>7. rev[c] > 0
  BY <1>2 DEF TreeInv, RowsInOrder, Born, Live
<1>8. c \in Deleted(t)
  BY <1>2, <1>5, <1>6, <1>7 DEF Deleted, Listed, Deletes
<1> QED
  BY <1>1, <1>2, <1>8, CommitWrites
-----------------------------------------------------------------------------
(* The theorems. *)

\* The invariant holds in every state.
LEMMA Invariance == Spec => []Inv
BY InvInit, InvNext, PTL DEF Spec

\* Every variable of the tree and its transactions holds what the program can put in it.
THEOREM TypeCorrect == Spec => []TypeOK
<1>1. Inv => TypeOK
  BY DEF Inv
<1> QED
  BY <1>1, Invariance, PTL

\* However many transactions of the repositories meet, over whatever conflicts, those that
\* wait for one another in a circle have a deletion of a scan or of the project, or an
\* acknowledgement of the feed, among them.
THEOREM LocksInOrder == Spec => []EditsDoNotDeadlock
BY EditsDoNotCircle, TreeHolds, PTL

\* However a note's edits and deletions meet a deletion of its scan, which reads the note
\* before it locks anything, a note that is dead was last told to readers by a tombstone at
\* its row's revision, as long as the project stands.
THEOREM NotesStayBuried == Spec => []NotesBuried
<1>1. TreeInv => NotesBuried
  BY DEF TreeInv
<1> QED
  BY <1>1, TreeHolds, PTL

\* As long as the project stands, no two changes of a scan, note or asset are told to readers
\* out of the order of their revisions.
THEOREM RevisionsOnlyGrow == Spec => RevisionsGrow
<1> DEFINE Grow ==
             Live(Project)' =>
                \A r \in Rows \ {Project} :
                   last'[r] # last[r] /\ last[r] # Nothing => last'[r].rev > last[r].rev
<1>1. TreeInv /\ [Next]_vars => [Grow]_vars
  BY ChangesGrow
<1> QED
  BY <1>1, TreeHolds, PTL DEF Spec, RevisionsGrow

\* No note or asset outlives its scan in a project that stands: the revision the deletion
\* asks for tells it of every child that came after its list.
THEOREM ChildrenFollow == Spec => ChildrenDieWithScan
<1> DEFINE Follow ==
             \A s \in Scans, c \in Children :
                (/\ Live(Project) /\ Live(Project)' /\ Home[c] = s
                 /\ Live(s) /\ state'[s] = "dead" /\ Live(c)) => state'[c] = "dead"
<1>1. TreeInv /\ [Next]_vars => [Follow]_vars
  BY ChildDies
<1> QED
  BY <1>1, TreeHolds, PTL DEF Spec, ChildrenDieWithScan

=============================================================================
