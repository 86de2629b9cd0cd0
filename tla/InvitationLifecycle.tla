------------------------- MODULE InvitationLifecycle -------------------------
(***************************************************************************)
(* What sharing promises of invitations, with requests, clocks and the     *)
(* accesses they give left out: an invitation is sent once, settled at     *)
(* most once, accepted only by somebody it is addressed to, and a          *)
(* recipient has at most one that is open.                                 *)
(*                                                                         *)
(* Sharing implements this specification (Sharing!Lifecycle).              *)
(***************************************************************************)
CONSTANTS
    None,       \* an invitation not sent, nobody
    Anyone,     \* the recipient of an invitation sent to an email address
    Users,
    Invites

VARIABLE letter    \* per invitation None, or its recipient, status and acceptor

Status == {"PENDING", "ACCEPTED", "DECLINED", "REVOKED"}

Letter == [to: Users \cup {Anyone}, status: Status, by: Users \cup {None}]

Init == letter = [i \in Invites |-> None]

Open(i) == letter[i] # None /\ letter[i].status = "PENDING"

Send(i) ==
    /\ letter[i] = None
    /\ \E to \in Users \cup {Anyone} :
          letter'[i] = [to |-> to, status |-> "PENDING", by |-> None]

Accept(i) ==
    /\ Open(i)
    /\ \E u \in Users :
          /\ letter[i].to \in {u, Anyone}
          /\ letter'[i] = [letter[i] EXCEPT !.status = "ACCEPTED", !.by = u]

Decline(i) == Open(i) /\ letter'[i] = [letter[i] EXCEPT !.status = "DECLINED"]

\* Revoked by the owner, or expired, which is recorded as the same status.
Revoke(i) == Open(i) /\ letter'[i] = [letter[i] EXCEPT !.status = "REVOKED"]

OneOpenEach == \A i, j \in Invites : Open(i) /\ Open(j) /\ letter[i].to = letter[j].to => i = j

\* One step may settle several invitations and send another in their place.
Next ==
    /\ letter' \in [Invites -> Letter \cup {None}]
    /\ \A i \in Invites :
          letter'[i] = letter[i] \/ Send(i) \/ Accept(i) \/ Decline(i) \/ Revoke(i)
    /\ OneOpenEach'

Spec == Init /\ [][Next]_letter
=============================================================================
