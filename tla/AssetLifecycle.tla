--------------------------- MODULE AssetLifecycle ---------------------------
(***************************************************************************)
(* What the scan-asset component promises of one (scan, asset type) slot,  *)
(* with requests, clocks, storage and jobs left out: a row is opened,      *)
(* re-opened, settled once per session, entombed, or discarded, and its    *)
(* revision counts every one of those writes.                              *)
(*                                                                         *)
(* AssetUpload implements this specification (AssetUpload!Lifecycle).      *)
(***************************************************************************)
EXTENDS Naturals

CONSTANT None          \* no row occupies the slot

VARIABLES asset,       \* None, or the row as a reader of the table sees it
          opened       \* how many rows the slot has had

Status == {"PENDING", "UPLOADED", "FAILED"}

vars == <<asset, opened>>

TypeOK ==
    /\ opened \in Nat
    /\ \/ asset = None
       \/ asset \in [id: Nat, status: Status, rev: Nat, deleted: BOOLEAN]

New(id) == [id |-> id, status |-> "PENDING", rev |-> 1, deleted |-> FALSE]

Init ==
    \/ asset = None /\ opened = 0
    \/ asset = New(1) /\ opened = 1

\* The slot is empty: a new upload session inserts a row with a fresh identity.
Open ==
    /\ asset = None
    /\ asset' = New(opened + 1)
    /\ opened' = opened + 1

\* Every other write goes to the row in place and moves its revision by one.
Write(status, deleted) ==
    /\ asset # None
    /\ asset' = [id |-> asset.id, status |-> status, rev |-> asset.rev + 1,
                  deleted |-> deleted]
    /\ UNCHANGED opened

\* A session request starts the upload over, whatever became of the last one.
Renew == asset # None /\ Write("PENDING", asset.deleted)

\* A session is settled from PENDING only: never from a settled state.
Settle ==
    /\ asset # None
    /\ asset.status = "PENDING"
    /\ \E status \in {"UPLOADED", "FAILED"} : Write(status, asset.deleted)

\* The scan or its project is deleted and takes the asset with it, a deleted one once
\* more if both are; a tombstone is never lifted.
Entomb == asset # None /\ Write(asset.status, TRUE)

\* Cleanup removes a row that holds no upload. An upload and a tombstone stay.
Discard ==
    /\ asset # None
    /\ asset.status # "UPLOADED"
    /\ ~asset.deleted
    /\ asset' = None
    /\ UNCHANGED opened

Next == Open \/ Renew \/ Settle \/ Entomb \/ Discard

Spec == Init /\ [][Next]_vars
=============================================================================
