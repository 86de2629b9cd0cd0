----------------------------- MODULE MCIdempotency -----------------------------
(***************************************************************************)
(* The keys Idempotency is checked on: one of an invitation, one of a scan *)
(* and one of a note.                                                      *)
(***************************************************************************)
EXTENDS Idempotency, TLC

CONSTANTS i1, s1, n1

MCKind == i1 :> "invitation" @@ s1 :> "scan" @@ n1 :> "plain"
=============================================================================
