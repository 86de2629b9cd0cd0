---------------------------- MODULE SharingProofs ----------------------------
(***************************************************************************)
(* Theorems about Sharing, for any users, invitations, links, requests and *)
(* lifetimes, and any bound on the clock and on revisions.                 *)
(***************************************************************************)
EXTENDS Sharing, TLAPS

(***************************************************************************)
(* The inductive invariant.                                                *)
(***************************************************************************)
ByInvitation == {"resend", "revoke", "acceptCheck", "accept", "declineCheck", "decline"}
ByRecipient == {"acceptCheck", "accept", "declineCheck", "decline"}
ByUser == ByRecipient \cup {"joinCheck", "join", "expel", "leave"}

\* What a request has read stays true of rows that are never deleted: its
\* invitation was sent, to its user or to anyone; its link and access exist.
Holds(r) ==
    /\ req[r].pc \in ByInvitation => req[r].on \in Invites /\ inv[req[r].on] # None
    /\ req[r].pc \in ByUser => req[r].user \in Users
    /\ req[r].pc \in ByRecipient => MayUse(req[r].on, req[r].user)
    /\ req[r].pc \in {"joinCheck", "join"} =>
          req[r].on \in Links /\ link[req[r].on] # None
    /\ req[r].pc = "leave" => access[req[r].user] # None

RequestsHold == \A r \in Requests : Holds(r)

\* A deletion under way is a project's and holds accesses that exist.
DeleterHolds ==
    deleter # None =>
        /\ scope = "project"
        /\ \A u \in Users : deleter[u] # None => access[u] # None

\* A recipient has at most one open invitation.
OnePendingEach ==
    \A i, j \in Invites : Pending(i) /\ Pending(j) /\ inv[i].to = inv[j].to => i = j

Inv == TypeOK /\ RequestsHold /\ DeleterHolds /\ OnePendingEach

(***************************************************************************)
(* How rows move.                                                          *)
(***************************************************************************)
\* What a step may do to an invitation: nothing, send it, renew it, settle it, or
\* have it accepted by a user it is addressed to.
Moved(i) ==
    \/ inv'[i] = inv[i]
    \/ /\ inv[i] = None
       /\ inv'[i] \in Invitation /\ inv'[i].status = "PENDING" /\ inv'[i].by = None
    \/ /\ Pending(i)
       /\ inv'[i] \in Invitation /\ inv'[i].to = inv[i].to
       /\ \/ inv'[i].status \in {"PENDING", "DECLINED", "REVOKED"} /\ inv'[i].by = inv[i].by
          \/ /\ inv'[i].status = "ACCEPTED"
             /\ inv'[i].by \in Users
             /\ inv[i].to \in {inv'[i].by, Anyone}

\* What a step may do to an access: nothing, grant it, or end it; the user is told.
KeptNow(u) == access'[u] = access[u] /\ told'[u] = told[u]

GrantedNow(u) ==
    /\ access'[u] \in Access /\ ~access'[u].revoked /\ ~access'[u].removed
    /\ scope = "project" => told'[u] = [op |-> "UPSERT", rev |-> access'[u].rev]

EndedNow(u) ==
    /\ access[u] # None
    /\ access'[u] \in Access /\ (access'[u].revoked \/ access'[u].removed)
    /\ live' /\ scope = "project" => told'[u] = [op |-> "DELETE", rev |-> access'[u].rev]

AccessesTyped ==
    /\ access' \in [Users -> Access \cup {None}]
    /\ told' \in [Users -> Change \cup {None}]

\* A fresh request is well typed.
LEMMA IdleType == Idle \in Request /\ Idle.pc = "idle"
BY DEF Idle, Request

\* A revision that counts the next write is a number.
LEMMA CountedType == ASSUME NEW n \in Nat PROVE Counted(n) \in Nat
<1>1. n + 1 \in Nat
  OBVIOUS
<1>2. QED BY <1>1 DEF Counted

\* A request that looks at something goes on from what it has read.
LEMMA LooksType ==
    ASSUME req \in [Requests -> Request], NEW r \in Requests, NEW state \in Request,
           Looks(r, state)
    PROVE  req' \in [Requests -> Request] /\ req' = [req EXCEPT ![r] = state]
BY DEF Looks

\* A request that ends is idle, and the others go on.
LEMMA EndsType ==
    ASSUME req \in [Requests -> Request], NEW r \in Requests, Ends(r)
    PROVE  /\ req' \in [Requests -> Request]
           /\ \A q \in Requests : req'[q] = Idle \/ req'[q] = req[q]
BY IdleType DEF Ends

\* A grant leaves an active access and tells its user.
LEMMA GrantsType ==
    ASSUME TypeOK, NEW u \in Users, Grants(u)
    PROVE  /\ AccessesTyped
           /\ GrantedNow(u)
           /\ \A v \in Users : v # u => KeptNow(v)
<1>1. access[u] # None => access[u].rev \in Nat
  BY DEF TypeOK, Access
<1>2. Granted(u).rev \in Nat /\ Granted(u) \in Access
      /\ ~Granted(u).revoked /\ ~Granted(u).removed
  BY <1>1, CountedType DEF Granted, Access
<1>3. access' = [access EXCEPT ![u] = Granted(u)]
  BY DEF Grants
<1>4. [op |-> "UPSERT", rev |-> Granted(u).rev] \in Change
  BY <1>2 DEF Change
<1>5. told' = IF scope = "project"
              THEN [told EXCEPT ![u] = [op |-> "UPSERT", rev |-> Granted(u).rev]] ELSE told
  BY DEF Grants, Tells
<1> HIDE DEF Granted
<1>6. access'[u] = Granted(u) /\ AccessesTyped
  BY <1>2, <1>3, <1>4, <1>5 DEF TypeOK, AccessesTyped
<1>7. QED BY <1>2, <1>3, <1>5, <1>6 DEF TypeOK, GrantedNow, KeptNow

(***************************************************************************)
(* Every step moves invitations as Moved says.                             *)
(***************************************************************************)
LettersTyped == inv' \in [Invites -> Invitation \cup {None}] /\ \A i \in Invites : Moved(i)

\* The steps that write no invitation.
LEMMA LettersKept == ASSUME TypeOK, UNCHANGED inv PROVE LettersTyped
BY DEF TypeOK, LettersTyped, Moved

\* A write of one open invitation in place, which keeps its recipient.
LEMMA OneLetter ==
    ASSUME TypeOK, NEW i \in Invites, Pending(i), NEW new \in Invitation,
           inv' = [inv EXCEPT ![i] = new], new.to = inv[i].to,
           \/ new.status \in {"PENDING", "DECLINED", "REVOKED"} /\ new.by = inv[i].by
           \/ /\ new.status = "ACCEPTED" /\ new.by \in Users
              /\ inv[i].to \in {new.by, Anyone}
    PROVE  LettersTyped
<1>1. inv'[i] = new /\ \A j \in Invites : j # i => inv'[j] = inv[j]
  BY DEF TypeOK
<1>2. inv' \in [Invites -> Invitation \cup {None}]
  BY DEF TypeOK
<1>3. ASSUME NEW j \in Invites PROVE Moved(j)
  BY <1>1 DEF Moved
<1>4. QED BY <1>2, <1>3 DEF LettersTyped

\* Invitations that expired are revoked, several at a time.
LEMMA RevokedType ==
    ASSUME TypeOK, NEW i \in Invites, Pending(i)
    PROVE  LET new == [inv[i] EXCEPT !.status = "REVOKED"]
           IN  new \in Invitation /\ new.to = inv[i].to /\ new.by = inv[i].by
               /\ new.status = "REVOKED"
<1>1. inv[i] \in Invitation
  BY DEF TypeOK, Pending
<1>2. QED BY <1>1 DEF Invitation, Status

\* The insert of an invitation, with the expired ones that give way.
LEMMA InsertMoves ==
    ASSUME Inv, NEW r \in Requests, NEW i \in Invites, CreateInsert(r, i)
    PROVE  LettersTyped
<1> DEFINE new == [to |-> req[r].to, status |-> "PENDING", by |-> None,
                   until |-> req[r].until]
<1>1. new \in Invitation
  BY DEF Inv, TypeOK, Request, Invitation, Status
<1>2. ~Pending(i)
  BY DEF CreateInsert, Pending
<1>3. /\ inv'[i] = new
      /\ \A j \in Invites : j # i =>
            inv'[j] = IF j \in GiveWay(r) THEN [inv[j] EXCEPT !.status = "REVOKED"]
                      ELSE inv[j]
  BY DEF CreateInsert
<1>4. ASSUME NEW j \in Invites
      PROVE  inv'[j] \in Invitation \cup {None} /\ Moved(j)
  <2>1. CASE j = i
    BY <2>1, <1>1, <1>3 DEF Moved, CreateInsert
  <2>2. CASE j # i /\ j \in GiveWay(r)
    <3>1. Pending(j)
      BY <2>2 DEF GiveWay
    <3>2. inv'[j] = [inv[j] EXCEPT !.status = "REVOKED"]
      BY <1>3, <2>2
    <3>3. QED BY <3>1, <3>2, RevokedType DEF Moved, Inv
  <2>3. CASE j # i /\ j \notin GiveWay(r)
    BY <2>3, <1>3 DEF Moved, Inv, TypeOK
  <2>4. QED BY <2>1, <2>2, <2>3
<1>5. inv' = [j \in Invites |-> inv'[j]]
  BY DEF CreateInsert
<1>6. QED BY <1>4, <1>5 DEF LettersTyped

\* The expiry job.
LEMMA ExpireMoves == ASSUME Inv, ExpireInvitations PROVE LettersTyped
<1>1. inv' = [j \in Invites |-> inv'[j]]
  BY DEF ExpireInvitations
<1>2. ASSUME NEW j \in Invites
      PROVE  inv'[j] \in Invitation \cup {None} /\ Moved(j)
  <2>1. CASE j \in Overdue
    <3>1. Pending(j) /\ inv'[j] = [inv[j] EXCEPT !.status = "REVOKED"]
      BY <2>1 DEF Overdue, ExpireInvitations
    <3>2. QED BY <3>1, RevokedType DEF Moved, Inv
  <2>2. CASE j \notin Overdue
    BY <2>2 DEF ExpireInvitations, Moved, Inv, TypeOK
  <2>3. QED BY <2>1, <2>2
<1>3. QED BY <1>1, <1>2 DEF LettersTyped

\* A recipient's acceptance.
LEMMA AcceptMoves ==
    ASSUME Inv, NEW r \in Requests, Accept(r)
    PROVE  /\ req[r].on \in Invites /\ req[r].user \in Users /\ Pending(req[r].on)
           /\ inv'[req[r].on].status = "ACCEPTED" /\ inv'[req[r].on].by = req[r].user
           /\ LettersTyped
<1> DEFINE i == req[r].on
           new == [inv[i] EXCEPT !.status = "ACCEPTED", !.by = req[r].user]
<1>1. i \in Invites /\ req[r].user \in Users /\ Pending(i)
  BY DEF Inv, RequestsHold, Holds, ByInvitation, ByRecipient, ByUser, Accept, Acceptable
<1>2. inv[i].to \in {req[r].user, Anyone}
  BY DEF Inv, RequestsHold, Holds, ByRecipient, Accept, MayUse
<1>3. inv' = [inv EXCEPT ![i] = new]
  BY DEF Accept
<1>4. TypeOK /\ inv[i] \in Invitation /\ "ACCEPTED" \in Status
  BY <1>1 DEF Inv, TypeOK, Pending, Status
<1>5. new \in Invitation /\ new.to = inv[i].to /\ new.by = req[r].user
      /\ new.status = "ACCEPTED"
  BY <1>1, <1>4 DEF Invitation
<1>6. inv'[i] = new
  BY <1>1, <1>3, <1>4 DEF TypeOK
<1> HIDE DEF i, new
<1>7. LettersTyped
  BY <1>1, <1>2, <1>3, <1>4, <1>5, OneLetter
<1>8. QED BY <1>1, <1>5, <1>6, <1>7 DEF i

\* A resend, a revocation and a decline.
LEMMA OwnerMoves ==
    ASSUME Inv, NEW r \in Requests, ResendWrite(r) \/ RevokeWrite(r) \/ Decline(r)
    PROVE  LettersTyped
<1> DEFINE i == req[r].on
<1>1. i \in Invites /\ Pending(i) /\ TypeOK
  BY DEF Inv, RequestsHold, Holds, ByInvitation, ResendWrite, RevokeWrite, Decline
<1>2. {"REVOKED", "DECLINED"} \subseteq Status
  BY DEF Status
<1>3. req[r].at + TTL \in Nat
  BY <1>1, ConstantsOK DEF TypeOK, Request
<1>4. inv[i] \in Invitation /\ inv[i].status = "PENDING"
  BY <1>1 DEF TypeOK, Pending
<1>5. CASE ResendWrite(r)
  <2> DEFINE new == [inv[i] EXCEPT !.until = req[r].at + TTL]
  <2>1. inv' = [inv EXCEPT ![i] = new]
    BY <1>5 DEF ResendWrite
  <2>2. new \in Invitation /\ new.to = inv[i].to /\ new.by = inv[i].by
        /\ new.status = "PENDING"
    BY <1>3, <1>4 DEF Invitation
  <2> HIDE DEF new, i
  <2>3. QED BY <1>1, <2>1, <2>2, OneLetter
<1>6. ASSUME NEW status \in {"REVOKED", "DECLINED"}, Settles(i, status) PROVE LettersTyped
  <2> DEFINE new == [inv[i] EXCEPT !.status = status]
  <2>1. inv' = [inv EXCEPT ![i] = new]
    BY <1>6 DEF Settles
  <2>2. new \in Invitation /\ new.to = inv[i].to /\ new.by = inv[i].by
        /\ new.status = status
    BY <1>2, <1>4 DEF Invitation
  <2> HIDE DEF new, i
  <2>3. QED BY <1>1, <2>1, <2>2, OneLetter
<1>7. QED BY <1>5, <1>6 DEF RevokeWrite, Decline

\* All steps.
LEMMA LettersMove == Inv /\ [Next]_vars => LettersTyped
<1> SUFFICES ASSUME Inv, [Next]_vars PROVE LettersTyped
  OBVIOUS
<1>0. TypeOK
  BY DEF Inv
<1>1. CASE UNCHANGED inv
  BY <1>0, <1>1, LettersKept
<1>2. CASE inv' # inv
  <2>1. CASE ExpireInvitations
    BY <2>1, ExpireMoves
  <2>2. ASSUME NEW r \in Requests, Owner(r) PROVE LettersTyped
    BY <1>2, <2>2, InsertMoves, OwnerMoves
       DEF Owner, CreateLook, ResendLook, RevokeLook, ExpelLook, Expel, Looks
  <2>3. ASSUME NEW r \in Requests, Viewer(r) PROVE LettersTyped
    BY <1>2, <2>3, AcceptMoves, OwnerMoves
       DEF Viewer, AcceptLook, DeclineLook, AcceptCheck, DeclineCheck, JoinLook, JoinCheck,
           Join, LeaveLook, Leave, Looks, Checks
  <2>4. QED
    BY <1>2, <2>1, <2>2, <2>3
       DEF Next, vars, Drop, CreateLink, RevokeLink, DeleteLook, DeleteProject, DeleteFails,
           DeleteScan, Tick
<1>3. QED BY <1>1, <1>2

(***************************************************************************)
(* Every step keeps accesses, grants them or ends them.                    *)
(***************************************************************************)
\* The end of one access, of which its user is told.
LEMMA EndsAccess ==
    ASSUME TypeOK, NEW u \in Users, access[u] # None,
           NEW new \in Access, new.revoked \/ new.removed,
           access' = [access EXCEPT ![u] = new],
           NEW n \in Nat, Tells(u, "DELETE", n), scope = "project" => n = new.rev
    PROVE  /\ AccessesTyped
           /\ EndedNow(u)
           /\ \A v \in Users : v # u => KeptNow(v)
<1>1. [op |-> "DELETE", rev |-> n] \in Change
  BY DEF Change
<1>2. access'[u] = new /\ AccessesTyped
  BY <1>1 DEF TypeOK, Tells, AccessesTyped
<1>3. QED BY <1>2 DEF TypeOK, Tells, EndedNow, KeptNow

\* The owner's revocation of an access.
LEMMA ExpelEnds ==
    ASSUME Inv, NEW r \in Requests, Expel(r)
    PROVE  AccessesTyped /\ \A v \in Users : KeptNow(v) \/ EndedNow(v)
<1> DEFINE u   == req[r].user
           rev == Counted(access[u].rev)
           new == [access[u] EXCEPT !.revoked = TRUE, !.rev = rev]
<1>1. u \in Users /\ access[u] # None /\ TypeOK
  BY DEF Inv, RequestsHold, Holds, ByUser, Expel
<1>2. access[u] \in Access /\ access[u].rev \in Nat
  BY <1>1 DEF TypeOK, Access
<1>3. rev \in Nat
  BY <1>2, CountedType
<1>4. access' = [access EXCEPT ![u] = new] /\ Tells(u, "DELETE", rev)
  BY DEF Expel
<1> HIDE DEF u, rev
<1>5. new \in Access /\ new.revoked /\ new.rev = rev
  BY <1>2, <1>3 DEF Access
<1> HIDE DEF new
<1>6. QED BY <1>1, <1>3, <1>4, <1>5, EndsAccess

\* A viewer's removal of their own access: the revision read is still the row's.
LEMMA LeaveEnds ==
    ASSUME Inv, NEW r \in Requests, Leave(r)
    PROVE  AccessesTyped /\ \A v \in Users : KeptNow(v) \/ EndedNow(v)
<1> DEFINE u   == req[r].user
           n   == Counted(req[r].rev)
           rev == Counted(access[u].rev)
           new == [access[u] EXCEPT !.removed = TRUE, !.rev = rev]
<1>1. u \in Users /\ access[u] # None /\ TypeOK
  BY DEF Inv, RequestsHold, Holds, ByUser, Leave
<1>2. access[u] \in Access /\ access[u].rev \in Nat /\ req[r].rev \in Nat
  BY <1>1 DEF TypeOK, Access, Request
<1>3. rev \in Nat /\ n \in Nat
  BY <1>2, CountedType
<1>4. access' = [access EXCEPT ![u] = new] /\ Tells(u, "DELETE", n)
  BY DEF Leave
<1>5. scope = "project" => n = rev
  BY DEF Leave, Unmoved
<1> HIDE DEF u, rev, n
<1>6. new \in Access /\ new.removed /\ new.rev = rev
  BY <1>2, <1>3 DEF Access
<1> HIDE DEF new
<1>7. QED BY <1>1, <1>3, <1>4, <1>5, <1>6, EndsAccess

\* The deletion of a project: what it has read it revokes.
LEMMA DeleteEnds ==
    ASSUME Inv, DeleteProject
    PROVE  AccessesTyped /\ \A v \in Users : KeptNow(v) \/ EndedNow(v)
<1>1. /\ TypeOK /\ DeleterHolds /\ deleter # None /\ ~live'
      /\ access' = [u \in Users |-> access'[u]] /\ told' = [u \in Users |-> told'[u]]
  BY DEF Inv, DeleteProject
<1>2. ASSUME NEW u \in Users
      PROVE  /\ access'[u] \in Access \cup {None} /\ told'[u] \in Change \cup {None}
             /\ KeptNow(u) \/ EndedNow(u)
  <2>1. CASE deleter[u] = None
    BY <1>1, <2>1 DEF DeleteProject, TypeOK, KeptNow
  <2>2. CASE deleter[u] # None
    <3>1. access[u] # None /\ deleter[u] \in Nat
      BY <1>1, <2>2 DEF DeleterHolds, TypeOK
    <3>2. access[u] \in Access /\ access[u].rev \in Nat
      BY <1>1, <3>1 DEF TypeOK, Access
    <3>3. access[u].rev + 1 \in Nat /\ deleter[u] + 1 \in Nat
      BY <3>1, <3>2
    <3>4. /\ access'[u] = [access[u] EXCEPT !.revoked = TRUE, !.rev = access[u].rev + 1]
          /\ told'[u] = [op |-> "DELETE", rev |-> deleter[u] + 1]
      BY <2>2 DEF DeleteProject
    <3>5. access'[u] \in Access /\ access'[u].revoked
      BY <3>2, <3>3, <3>4 DEF Access
    <3>6. told'[u] \in Change
      BY <3>3, <3>4 DEF Change
    <3>7. QED BY <1>1, <3>1, <3>5, <3>6 DEF EndedNow
  <2>3. QED BY <2>1, <2>2
<1>3. QED BY <1>1, <1>2 DEF AccessesTyped

\* A user who joins through a link is one who looked at it.
LEMMA JoinGrants ==
    ASSUME Inv, NEW r \in Requests, Join(r)
    PROVE  /\ AccessesTyped
           /\ GrantedNow(req[r].user)
           /\ \A v \in Users : v # req[r].user => KeptNow(v)
<1> DEFINE u == req[r].user
<1>1. u \in Users /\ TypeOK /\ Grants(u)
  BY DEF Inv, RequestsHold, Holds, ByUser, Join
<1> HIDE DEF u
<1>2. AccessesTyped /\ GrantedNow(u) /\ \A v \in Users : v # u => KeptNow(v)
  BY <1>1, GrantsType
<1>3. QED BY <1>2 DEF u

\* So does one who accepts.
LEMMA AcceptGrants ==
    ASSUME Inv, NEW r \in Requests, Accept(r)
    PROVE  /\ AccessesTyped
           /\ GrantedNow(req[r].user)
           /\ \A v \in Users : v # req[r].user => KeptNow(v)
<1> DEFINE u == req[r].user
<1>1. u \in Users /\ TypeOK /\ Grants(u)
  BY DEF Inv, RequestsHold, Holds, ByUser, ByRecipient, Accept
<1> HIDE DEF u
<1>2. AccessesTyped /\ GrantedNow(u) /\ \A v \in Users : v # u => KeptNow(v)
  BY <1>1, GrantsType
<1>3. QED BY <1>2 DEF u

\* A step that touches no access.
AccessesKept == UNCHANGED <<access, told>>

\* Every step leaves all accesses, and what their users were told, alone, or is one
\* of the five actions that grant or end accesses.
LEMMA AccessSteps ==
    ASSUME [Next]_vars
    PROVE  \/ AccessesKept
           \/ \E r \in Requests : Accept(r) \/ Join(r) \/ Expel(r) \/ Leave(r)
           \/ DeleteProject
<1>1. ASSUME NEW r \in Requests, Owner(r) PROVE AccessesKept \/ Expel(r)
  BY <1>1 DEF Owner, CreateLook, CreateInsert, ResendLook, ResendWrite, RevokeLook,
              RevokeWrite, ExpelLook, Looks, AccessesKept
<1>2. ASSUME NEW r \in Requests, Viewer(r)
      PROVE  AccessesKept \/ Accept(r) \/ Join(r) \/ Leave(r)
  BY <1>2 DEF Viewer, AcceptLook, DeclineLook, AcceptCheck, DeclineCheck, JoinLook,
              JoinCheck, Decline, LeaveLook, Looks, Checks, AccessesKept
<1>3. CASE UNCHANGED vars
  BY <1>3 DEF vars, AccessesKept
<1>4. CASE \/ \E r \in Requests : Drop(r)
           \/ \E l \in Links : CreateLink(l) \/ RevokeLink(l)
           \/ ExpireInvitations \/ DeleteLook \/ DeleteFails \/ DeleteScan \/ Tick
  BY <1>4 DEF Drop, CreateLink, RevokeLink, ExpireInvitations, DeleteLook, DeleteFails,
              DeleteScan, Tick, AccessesKept
<1>5. QED BY <1>1, <1>2, <1>3, <1>4 DEF Next

\* Every step keeps, grants or ends the access of each user and tells the user of
\* just that.
LEMMA AccessesMove ==
    ASSUME Inv, [Next]_vars
    PROVE  AccessesTyped /\ \A v \in Users : KeptNow(v) \/ GrantedNow(v) \/ EndedNow(v)
<1>1. CASE AccessesKept
  BY <1>1 DEF Inv, TypeOK, AccessesKept, AccessesTyped, KeptNow
<1>2. ASSUME NEW r \in Requests, Accept(r) \/ Join(r) \/ Expel(r) \/ Leave(r)
      PROVE  AccessesTyped /\ \A v \in Users : KeptNow(v) \/ GrantedNow(v) \/ EndedNow(v)
  BY <1>2, AcceptGrants, JoinGrants, ExpelEnds, LeaveEnds
<1>3. QED BY <1>1, <1>2, AccessSteps, DeleteEnds

(***************************************************************************)
(* Type correctness.                                                       *)
(***************************************************************************)
\* The program starts well typed.
LEMMA InvInit == Init => Inv
<1> SUFFICES ASSUME Init PROVE Inv
  OBVIOUS
<1>1. TypeOK
  BY IdleType DEF Init, TypeOK
<1>2. \A r \in Requests : req[r].pc = "idle"
  BY IdleType DEF Init
<1>3. RequestsHold /\ DeleterHolds /\ OnePendingEach
  BY <1>2 DEF Init, RequestsHold, Holds, ByInvitation, ByRecipient, ByUser, DeleterHolds,
              OnePendingEach, Pending
<1>4. QED BY <1>1, <1>3 DEF Inv

\* How a request moves: it ends, it stays, or it holds what it has just read.
RequestMoves ==
    /\ req' \in [Requests -> Request]
    /\ \A q \in Requests :
          req'[q] = req[q] \/ req'[q].pc \in {"idle", "create"} \/ Holds(q)'

\* A request that ends.
LEMMA EndMoves ==
    ASSUME TypeOK, NEW r \in Requests, Ends(r)
    PROVE  RequestMoves
<1>1. req \in [Requests -> Request]
  BY DEF TypeOK
<1>2. QED BY <1>1, EndsType, IdleType DEF RequestMoves

\* A request that begins with a look.
LEMMA LookMoves ==
    ASSUME TypeOK, NEW r \in Requests, NEW state \in Request, Looks(r, state),
           state.pc = "create" \/ Holds(r)'
    PROVE  RequestMoves
<1>1. req' = [req EXCEPT ![r] = state]
  BY DEF Looks
<1>2. QED BY <1>1 DEF RequestMoves, TypeOK

\* A request that goes on after a second look.
LEMMA CheckMoves ==
    ASSUME Inv, NEW r \in Requests, AcceptCheck(r) \/ DeclineCheck(r) \/ JoinCheck(r)
    PROVE  RequestMoves
<1>1. TypeOK /\ Holds(r)
  BY DEF Inv, RequestsHold
<1>2. ASSUME NEW before \in {"acceptCheck", "declineCheck", "joinCheck"},
             NEW after \in {"accept", "decline", "join"},
             Checks(r, before, after),
             \/ before = "acceptCheck" /\ after = "accept"
             \/ before = "declineCheck" /\ after = "decline"
             \/ before = "joinCheck" /\ after = "join"
      PROVE  RequestMoves
  <2>1. /\ req' = [req EXCEPT ![r].pc = after] /\ req[r].pc = before
        /\ UNCHANGED <<inv, link, access>>
    BY <1>2 DEF Checks
  <2>2. req[r] \in Request
    BY <1>1 DEF TypeOK
  <2>3. req' \in [Requests -> Request] /\ req'[r].pc = after /\ req'[r].on = req[r].on
        /\ req'[r].user = req[r].user /\ \A q \in Requests : q # r => req'[q] = req[q]
    BY <1>1, <2>1, <2>2 DEF TypeOK, Request
  <2>4. Holds(r)'
    BY <1>1, <1>2, <2>1, <2>3
       DEF Holds, ByInvitation, ByRecipient, ByUser, MayUse
  <2>5. QED BY <2>3, <2>4 DEF RequestMoves
<1>3. QED BY <1>2 DEF AcceptCheck, DeclineCheck, JoinCheck

\* The looks of the owner.
LEMMA OwnerLooks ==
    ASSUME Inv, NEW r \in Requests,
           \/ \E to \in Users \cup {Anyone}, life \in Lifetimes : CreateLook(r, to, life)
           \/ \E i \in Invites : ResendLook(r, i) \/ RevokeLook(r, i)
           \/ \E u \in Users : ExpelLook(r, u)
    PROVE  RequestMoves
<1>1. TypeOK /\ clock \in Nat
  BY DEF Inv, TypeOK
<1>2. ASSUME NEW to \in Users \cup {Anyone}, NEW life \in Lifetimes, CreateLook(r, to, life)
      PROVE  RequestMoves
  <2> DEFINE state == [Idle EXCEPT !.pc = "create", !.to = to, !.at = clock,
                                   !.until = clock + life]
  <2>1. clock + life \in Nat
    BY <1>1, ConstantsOK
  <2>2. state \in Request /\ state.pc = "create"
    BY <1>1, <2>1 DEF Idle, Request
  <2>3. Looks(r, state)
    BY <1>2 DEF CreateLook
  <2> HIDE DEF state
  <2>4. QED BY <1>1, <2>2, <2>3, LookMoves
<1>3. ASSUME NEW i \in Invites, ResendLook(r, i) PROVE RequestMoves
  <2> DEFINE state == [Idle EXCEPT !.pc = "resend", !.on = i, !.at = clock]
  <2>1. state \in Request /\ state.pc = "resend" /\ state.on = i
    BY <1>1 DEF Idle, Request
  <2>2. Looks(r, state) /\ inv[i] # None
    BY <1>3 DEF ResendLook, Pending
  <2> HIDE DEF state
  <2>3. req'[r] = state /\ inv'[i] # None
    BY <1>1, <2>2 DEF Looks, TypeOK
  <2>4. Holds(r)'
    BY <2>1, <2>3 DEF Holds, ByInvitation, ByRecipient, ByUser
  <2>5. QED BY <1>1, <2>1, <2>2, <2>4, LookMoves
<1>4. ASSUME NEW i \in Invites, RevokeLook(r, i) PROVE RequestMoves
  <2> DEFINE state == [Idle EXCEPT !.pc = "revoke", !.on = i]
  <2>1. state \in Request /\ state.pc = "revoke" /\ state.on = i
    BY <1>1 DEF Idle, Request
  <2>2. Looks(r, state) /\ inv[i] # None
    BY <1>4 DEF RevokeLook, Pending
  <2> HIDE DEF state
  <2>3. req'[r] = state /\ inv'[i] # None
    BY <1>1, <2>2 DEF Looks, TypeOK
  <2>4. Holds(r)'
    BY <2>1, <2>3 DEF Holds, ByInvitation, ByRecipient, ByUser
  <2>5. QED BY <1>1, <2>1, <2>2, <2>4, LookMoves
<1>5. ASSUME NEW u \in Users, ExpelLook(r, u) PROVE RequestMoves
  <2> DEFINE state == [Idle EXCEPT !.pc = "expel", !.user = u]
  <2>1. state \in Request /\ state.pc = "expel" /\ state.user = u
    BY DEF Idle, Request
  <2>2. Looks(r, state)
    BY <1>5 DEF ExpelLook
  <2> HIDE DEF state
  <2>3. req'[r] = state
    BY <1>1, <2>2 DEF Looks, TypeOK
  <2>4. Holds(r)'
    BY <2>1, <2>3 DEF Holds, ByInvitation, ByRecipient, ByUser
  <2>5. QED BY <1>1, <2>1, <2>2, <2>4, LookMoves
<1>6. QED BY <1>2, <1>3, <1>4, <1>5

\* The looks of recipients and viewers.
LEMMA ViewerLooks ==
    ASSUME Inv, NEW r \in Requests,
           \/ \E i \in Invites, u \in Users : AcceptLook(r, i, u) \/ DeclineLook(r, i, u)
           \/ \E l \in Links, u \in Users : JoinLook(r, l, u)
           \/ \E u \in Users : LeaveLook(r, u)
    PROVE  RequestMoves
<1>1. TypeOK /\ clock \in Nat
  BY DEF Inv, TypeOK
<1>2. ASSUME NEW i \in Invites, NEW u \in Users, AcceptLook(r, i, u) PROVE RequestMoves
  <2> DEFINE state == [Idle EXCEPT !.pc = "acceptCheck", !.on = i, !.user = u, !.at = clock]
  <2>1. state \in Request /\ state.pc = "acceptCheck" /\ state.on = i /\ state.user = u
    BY <1>1 DEF Idle, Request
  <2>2. Looks(r, state) /\ inv[i] # None /\ MayUse(i, u)
    BY <1>2 DEF AcceptLook, Invited, Pending
  <2> HIDE DEF state
  <2>3. req'[r] = state /\ inv'[i] # None /\ inv'[i].to \in {u, Anyone}
    BY <1>1, <2>2 DEF Looks, TypeOK, MayUse
  <2>4. Holds(r)'
    BY <2>1, <2>3 DEF Holds, ByInvitation, ByRecipient, ByUser, MayUse
  <2>5. QED BY <1>1, <2>1, <2>2, <2>4, LookMoves
<1>3. ASSUME NEW i \in Invites, NEW u \in Users, DeclineLook(r, i, u) PROVE RequestMoves
  <2> DEFINE state == [Idle EXCEPT !.pc = "declineCheck", !.on = i, !.user = u]
  <2>1. /\ state \in Request /\ state.pc = "declineCheck"
        /\ state.on = i /\ state.user = u
    BY <1>1 DEF Idle, Request
  <2>2. Looks(r, state) /\ inv[i] # None /\ MayUse(i, u)
    BY <1>3 DEF DeclineLook, Invited, Pending
  <2> HIDE DEF state
  <2>3. req'[r] = state /\ inv'[i] # None /\ inv'[i].to \in {u, Anyone}
    BY <1>1, <2>2 DEF Looks, TypeOK, MayUse
  <2>4. Holds(r)'
    BY <2>1, <2>3 DEF Holds, ByInvitation, ByRecipient, ByUser, MayUse
  <2>5. QED BY <1>1, <2>1, <2>2, <2>4, LookMoves
<1>4. ASSUME NEW l \in Links, NEW u \in Users, JoinLook(r, l, u) PROVE RequestMoves
  <2> DEFINE state == [Idle EXCEPT !.pc = "joinCheck", !.on = l, !.user = u]
  <2>1. state \in Request /\ state.pc = "joinCheck" /\ state.on = l /\ state.user = u
    BY <1>1 DEF Idle, Request
  <2>2. Looks(r, state) /\ link[l] # None
    BY <1>4 DEF JoinLook
  <2> HIDE DEF state
  <2>3. req'[r] = state /\ link'[l] # None
    BY <1>1, <2>2 DEF Looks, TypeOK
  <2>4. Holds(r)'
    BY <2>1, <2>3 DEF Holds, ByInvitation, ByRecipient, ByUser
  <2>5. QED BY <1>1, <2>1, <2>2, <2>4, LookMoves
<1>5. ASSUME NEW u \in Users, LeaveLook(r, u) PROVE RequestMoves
  <2> DEFINE state == [Idle EXCEPT !.pc = "leave", !.user = u, !.rev = access[u].rev]
  <2>1. access[u] # None /\ access[u].rev \in Nat
    BY <1>1, <1>5 DEF LeaveLook, TypeOK, Access
  <2>2. state \in Request /\ state.pc = "leave" /\ state.user = u
    BY <2>1 DEF Idle, Request
  <2>3. Looks(r, state)
    BY <1>5 DEF LeaveLook
  <2> HIDE DEF state
  <2>4. req'[r] = state /\ access'[u] # None
    BY <1>1, <2>1, <2>3 DEF Looks, TypeOK
  <2>5. Holds(r)'
    BY <2>2, <2>4 DEF Holds, ByInvitation, ByRecipient, ByUser
  <2>6. QED BY <1>1, <2>2, <2>3, <2>5, LookMoves
<1>6. QED BY <1>2, <1>3, <1>4, <1>5

\* All steps.
LEMMA RequestsMove == ASSUME Inv, [Next]_vars PROVE RequestMoves
<1>1. TypeOK
  BY DEF Inv
<1>2. CASE UNCHANGED req
  BY <1>1, <1>2 DEF TypeOK, RequestMoves
<1>3. ASSUME NEW r \in Requests, Ends(r) PROVE RequestMoves
  BY <1>1, <1>3, EndMoves
<1>4. ASSUME NEW r \in Requests, Owner(r) PROVE RequestMoves
  BY <1>3, <1>4, OwnerLooks DEF Owner, CreateInsert, ResendWrite, RevokeWrite, Expel
<1>5. ASSUME NEW r \in Requests, Viewer(r) PROVE RequestMoves
  BY <1>3, <1>5, ViewerLooks, CheckMoves DEF Viewer, Accept, Decline, Join, Leave
<1>6. ASSUME NEW r \in Requests, Drop(r) PROVE RequestMoves
  BY <1>3, <1>6 DEF Drop
<1>7. CASE \/ \E l \in Links : CreateLink(l) \/ RevokeLink(l)
           \/ ExpireInvitations \/ DeleteLook \/ DeleteProject \/ DeleteFails \/ DeleteScan
           \/ Tick \/ UNCHANGED vars
  BY <1>2, <1>7 DEF CreateLink, RevokeLink, ExpireInvitations, DeleteLook, DeleteProject,
                    DeleteFails, DeleteScan, Tick, vars
<1>8. QED BY <1>4, <1>5, <1>6, <1>7 DEF Next

\* Links are made and revoked, never taken back.
LEMMA LinksMove ==
    ASSUME Inv, [Next]_vars
    PROVE  /\ link' \in [Links -> ShareLink \cup {None}]
           /\ \A l \in Links : link[l] # None => link'[l] # None
<1>1. TypeOK /\ link \in [Links -> ShareLink \cup {None}] /\ clock + TTL \in Nat
  BY ConstantsOK DEF Inv, TypeOK
<1>2. ASSUME NEW l \in Links, CreateLink(l) \/ RevokeLink(l)
      PROVE  /\ link' \in [Links -> ShareLink \cup {None}]
             /\ \A k \in Links : link[k] # None => link'[k] # None
  <2>1. CASE CreateLink(l)
    <3>1. [until |-> clock + TTL, revoked |-> FALSE] \in ShareLink
      BY <1>1 DEF ShareLink
    <3>2. link' = [link EXCEPT ![l] = [until |-> clock + TTL, revoked |-> FALSE]]
      BY <2>1 DEF CreateLink
    <3>3. None \notin ShareLink
      BY ConstantsOK
    <3>4. QED BY <1>1, <3>1, <3>2, <3>3
  <2>2. CASE RevokeLink(l)
    <3> DEFINE new == [link[l] EXCEPT !.revoked = TRUE]
    <3>1. link[l] \in ShareLink /\ link' = [link EXCEPT ![l] = new]
      BY <1>1, <2>2 DEF RevokeLink
    <3>2. new \in ShareLink
      BY <3>1 DEF ShareLink
    <3>3. None \notin ShareLink
      BY ConstantsOK
    <3> HIDE DEF new
    <3>4. QED BY <1>1, <3>1, <3>2, <3>3
  <2>3. QED BY <1>2, <2>1, <2>2
<1>3. CASE UNCHANGED link
  BY <1>1, <1>3
<1>4. ASSUME NEW r \in Requests, Owner(r) PROVE UNCHANGED link
  BY <1>4 DEF Owner, CreateLook, CreateInsert, ResendLook, ResendWrite, RevokeLook,
              RevokeWrite, ExpelLook, Expel, Looks
<1>5. ASSUME NEW r \in Requests, Viewer(r) PROVE UNCHANGED link
  BY <1>5 DEF Viewer, AcceptLook, DeclineLook, AcceptCheck, DeclineCheck, JoinLook,
              JoinCheck, Accept, Join, Leave, Decline, LeaveLook, Looks, Checks
<1>6. QED
  BY <1>2, <1>3, <1>4, <1>5
     DEF Next, vars, Drop, ExpireInvitations, DeleteLook, DeleteProject, DeleteFails,
         DeleteScan, Tick

\* What is shared stays what it is, and is deleted once.
LEMMA ScopeMoves ==
    ASSUME Inv, [Next]_vars
    PROVE  scope' = scope /\ live' \in BOOLEAN /\ (live' => live) /\ clock' \in Nat
<1>1. live \in BOOLEAN /\ clock \in Nat /\ clock + 1 \in Nat
  BY DEF Inv, TypeOK
<1>2. ASSUME NEW r \in Requests, Owner(r) PROVE UNCHANGED <<scope, live, clock>>
  BY <1>2 DEF Owner, CreateLook, CreateInsert, ResendLook, ResendWrite, RevokeLook,
              RevokeWrite, ExpelLook, Expel, Looks
<1>3. ASSUME NEW r \in Requests, Viewer(r) PROVE UNCHANGED <<scope, live, clock>>
  BY <1>3 DEF Viewer, AcceptLook, DeclineLook, AcceptCheck, DeclineCheck, JoinLook,
              JoinCheck, Accept, Join, Leave, Decline, LeaveLook, Looks, Checks
<1>4. CASE DeleteProject \/ DeleteScan
  BY <1>1, <1>4 DEF DeleteProject, DeleteScan
<1>5. CASE Tick
  BY <1>1, <1>5 DEF Tick
<1>6. CASE \/ \E r \in Requests : Drop(r)
           \/ \E l \in Links : CreateLink(l) \/ RevokeLink(l)
           \/ ExpireInvitations \/ DeleteLook \/ DeleteFails \/ UNCHANGED vars
  BY <1>1, <1>6 DEF vars, Drop, CreateLink, RevokeLink, ExpireInvitations, DeleteLook,
                    DeleteFails
<1>7. QED BY <1>1, <1>2, <1>3, <1>4, <1>5, <1>6 DEF Next

\* A deletion under way holds what it read until it ends.
LEMMA DeleterMoves ==
    ASSUME Inv, [Next]_vars
    PROVE  /\ deleter' \in [Users -> Nat \cup {None}] \cup {None}
           /\ DeleterHolds'
<1>1. TypeOK /\ DeleterHolds /\ scope' = scope
  BY ScopeMoves DEF Inv
<1>2. \A u \in Users : access[u] # None => access'[u] # None
  BY AccessesMove, ConstantsOK DEF KeptNow, GrantedNow, EndedNow
<1>3. CASE UNCHANGED deleter
  BY <1>1, <1>2, <1>3 DEF DeleterHolds, TypeOK
<1>4. CASE DeleteProject \/ DeleteFails
  BY <1>4 DEF DeleteProject, DeleteFails, DeleterHolds
<1>5. CASE DeleteLook
  <2>1. /\ scope = "project" /\ UNCHANGED access
        /\ deleter' = [u \in Users |-> IF Active(u) THEN access[u].rev ELSE None]
    BY <1>5 DEF DeleteLook
  <2>2. \A u \in Users : Active(u) => access[u] # None /\ access[u].rev \in Nat
    BY <1>1 DEF Active, TypeOK, Access
  <2>3. QED BY <1>1, <2>1, <2>2 DEF DeleterHolds
<1>6. ASSUME NEW r \in Requests, Owner(r) PROVE UNCHANGED deleter
  BY <1>6 DEF Owner, CreateLook, CreateInsert, ResendLook, ResendWrite, RevokeLook,
              RevokeWrite, ExpelLook, Expel, Looks
<1>7. ASSUME NEW r \in Requests, Viewer(r) PROVE UNCHANGED deleter
  BY <1>7 DEF Viewer, AcceptLook, DeclineLook, AcceptCheck, DeclineCheck, JoinLook,
              JoinCheck, Accept, Join, Leave, Decline, LeaveLook, Looks, Checks
<1>8. CASE \/ \E r \in Requests : Drop(r)
           \/ \E l \in Links : CreateLink(l) \/ RevokeLink(l)
           \/ ExpireInvitations \/ DeleteScan \/ Tick \/ UNCHANGED vars
  BY <1>3, <1>8 DEF vars, Drop, CreateLink, RevokeLink, ExpireInvitations, DeleteScan, Tick
<1>9. QED BY <1>3, <1>4, <1>5, <1>6, <1>7, <1>8 DEF Next

\* Every step keeps every variable in its type.
LEMMA TypeStep == Inv /\ [Next]_vars => TypeOK'
<1> SUFFICES ASSUME Inv, [Next]_vars PROVE TypeOK'
  OBVIOUS
<1>1. scope \in {"project", "scan"}
  BY DEF Inv, TypeOK
<1>2. inv' \in [Invites -> Invitation \cup {None}]
  BY LettersMove DEF LettersTyped
<1>3. QED
  BY <1>1, <1>2, LinksMove, ScopeMoves, DeleterMoves, AccessesMove, RequestsMove
     DEF TypeOK, AccessesTyped, RequestMoves

\* What requests have read stays true.
LEMMA HoldStep == Inv /\ [Next]_vars => RequestsHold'
<1> SUFFICES ASSUME Inv, [Next]_vars, NEW q \in Requests PROVE Holds(q)'
  BY DEF RequestsHold
<1>1. CASE req'[q].pc \in {"idle", "create"}
  BY <1>1 DEF Holds, ByInvitation, ByRecipient, ByUser
<1>2. CASE req'[q] = req[q]
  <2>1. Holds(q)
    BY DEF Inv, RequestsHold
  <2>2. \A i \in Invites : inv[i] # None => inv'[i] # None /\ inv'[i].to = inv[i].to
    BY LettersMove, ConstantsOK DEF LettersTyped, Moved
  <2>3. \A l \in Links : link[l] # None => link'[l] # None
    BY LinksMove
  <2>4. \A u \in Users : access[u] # None => access'[u] # None
    BY AccessesMove, ConstantsOK DEF KeptNow, GrantedNow, EndedNow
  <2>5. QED BY <1>2, <2>1, <2>2, <2>3, <2>4
            DEF Holds, ByInvitation, ByRecipient, ByUser, MayUse
<1>3. QED BY <1>1, <1>2, RequestsMove DEF RequestMoves

(***************************************************************************)
(* One open invitation for each recipient.                                 *)
(***************************************************************************)
\* Only a creation opens an invitation.
LEMMA OpenBefore ==
    ASSUME Inv, [Next]_vars
    PROVE  \/ \A i \in Invites : Pending(i)' => Pending(i) /\ inv'[i].to = inv[i].to
           \/ \E r \in Requests, i \in Invites : CreateInsert(r, i)
<1> DEFINE Opened == \E r \in Requests, i \in Invites : CreateInsert(r, i)
           Closing == \A i \in Invites : Pending(i)' => Pending(i) /\ inv'[i].to = inv[i].to
<1>1. TypeOK /\ RequestsHold
  BY DEF Inv
<1>2. ASSUME UNCHANGED inv PROVE Closing
  BY <1>2 DEF Pending
<1>3. ASSUME NEW k \in Invites, Pending(k), \A i \in Invites : i # k => inv'[i] = inv[i],
             LettersTyped
      PROVE  Closing
  BY <1>3 DEF LettersTyped, Moved, Pending
<1>4. ASSUME NEW r \in Requests, ResendWrite(r) \/ RevokeWrite(r) \/ Decline(r) \/ Accept(r)
      PROVE  Closing
  <2>1. req[r].on \in Invites /\ Pending(req[r].on)
    BY <1>1, <1>4 DEF RequestsHold, Holds, ByInvitation, ResendWrite, RevokeWrite, Decline,
                      Accept, Acceptable
  <2>2. \A i \in Invites : i # req[r].on => inv'[i] = inv[i]
    BY <1>1, <1>4 DEF TypeOK, ResendWrite, RevokeWrite, Decline, Accept, Settles
  <2>3. LettersTyped
    BY LettersMove
  <2>4. QED BY <1>3, <2>1, <2>2, <2>3
<1>5. CASE ExpireInvitations
  <2>1. ASSUME NEW i \in Invites, Pending(i)' PROVE inv'[i] = inv[i]
    <3>1. CASE i \in Overdue
      <4>1. Pending(i) /\ inv'[i] = [inv[i] EXCEPT !.status = "REVOKED"]
        BY <1>5, <3>1 DEF ExpireInvitations, Overdue
      <4>2. QED BY <1>1, <2>1, <4>1, RevokedType DEF Pending
    <3>2. CASE i \notin Overdue
      BY <1>5, <3>2 DEF ExpireInvitations
    <3>3. QED BY <3>1, <3>2
  <2>2. QED BY <2>1 DEF Pending
<1>6. ASSUME NEW r \in Requests, Owner(r)
      PROVE  Opened \/ UNCHANGED inv \/ ResendWrite(r) \/ RevokeWrite(r)
  BY <1>6 DEF Owner, CreateLook, ResendLook, RevokeLook, ExpelLook, Expel, Looks
<1>7. ASSUME NEW r \in Requests, Viewer(r)
      PROVE  UNCHANGED inv \/ Accept(r) \/ Decline(r)
  BY <1>7
     DEF Viewer, AcceptLook, DeclineLook, AcceptCheck, DeclineCheck, JoinLook, JoinCheck,
         Join, Leave, LeaveLook, Looks, Checks
<1>8. CASE \/ \E r \in Requests : Drop(r)
           \/ \E l \in Links : CreateLink(l) \/ RevokeLink(l)
           \/ DeleteLook \/ DeleteProject \/ DeleteFails \/ DeleteScan \/ Tick
           \/ UNCHANGED vars
  BY <1>2, <1>8 DEF vars, Drop, CreateLink, RevokeLink, DeleteLook, DeleteProject,
                    DeleteFails, DeleteScan, Tick
<1> HIDE DEF Opened, Closing
<1>9. QED BY <1>2, <1>4, <1>5, <1>6, <1>7, <1>8 DEF Next, Opened, Closing

\* The index and the invitations that give way leave one open for each recipient.
LEMMA PendingStep == Inv /\ [Next]_vars => OnePendingEach'
<1> SUFFICES ASSUME Inv, [Next]_vars PROVE OnePendingEach'
  OBVIOUS
<1>1. OnePendingEach /\ TypeOK
  BY DEF Inv
<1>2. CASE \A i \in Invites : Pending(i)' => Pending(i) /\ inv'[i].to = inv[i].to
  BY <1>1, <1>2 DEF OnePendingEach
<1>3. ASSUME NEW r \in Requests, NEW i \in Invites, CreateInsert(r, i)
      PROVE  OnePendingEach'
  <2>1. inv'[i].to = req[r].to
    BY <1>3 DEF CreateInsert
  <2>2. ASSUME NEW j \in Invites, j # i, Pending(j)'
        PROVE  inv'[j] = inv[j] /\ Pending(j) /\ inv[j].to # req[r].to
    <3>1. inv'[j] = IF j \in GiveWay(r) THEN [inv[j] EXCEPT !.status = "REVOKED"]
                    ELSE inv[j]
      BY <1>3, <2>2 DEF CreateInsert
    <3>2. j \notin GiveWay(r)
      <4>1. SUFFICES ASSUME j \in GiveWay(r) PROVE FALSE
        OBVIOUS
      <4>2. Pending(j)
        BY <4>1 DEF GiveWay
      <4>3. QED BY <1>1, <2>2, <3>1, <4>1, <4>2, RevokedType DEF Pending
    <3>3. inv'[j] = inv[j] /\ Pending(j)
      BY <2>2, <3>1, <3>2 DEF Pending
    <3>4. QED BY <1>3, <3>2, <3>3 DEF CreateInsert, Vacant
  <2>3. QED BY <1>1, <2>1, <2>2 DEF OnePendingEach
<1>4. QED BY <1>2, <1>3, OpenBefore

\* The invariant is inductive.
LEMMA InvStep == Inv /\ [Next]_vars => Inv'
BY TypeStep, HoldStep, DeleterMoves, PendingStep DEF Inv

\* It holds of every reachable state.
LEMMA Invariance == Spec => []Inv
<1>1. Init => Inv
  BY InvInit
<1>2. Inv /\ [Next]_vars => Inv'
  BY InvStep
<1>3. QED BY <1>1, <1>2, PTL DEF Spec

\* Every variable of sharing keeps its type.
THEOREM TypeCorrect == Spec => []TypeOK
<1>1. Inv => TypeOK
  BY DEF Inv
<1>2. QED BY <1>1, Invariance, PTL

(***************************************************************************)
(* What viewers are told, and who becomes one.                             *)
(***************************************************************************)
\* The change log shows each viewer their access, as long as the project stands.
THEOREM LogCorrect == Spec => []LogShowsAccess
<1>1. Init => LogShowsAccess
  BY DEF Init, LogShowsAccess
<1>2. Inv /\ LogShowsAccess /\ [Next]_vars => LogShowsAccess'
  <2> SUFFICES ASSUME Inv, LogShowsAccess, [Next]_vars, live', scope' = "project",
                      NEW u \in Users
               PROVE  told'[u] = IF access'[u] = None THEN None
                                 ELSE [op |-> IF Active(u)' THEN "UPSERT" ELSE "DELETE",
                                       rev |-> access'[u].rev]
    BY DEF LogShowsAccess
  <2>1. live /\ scope = "project"
    BY ScopeMoves
  <2>2. CASE KeptNow(u)
    BY <2>1, <2>2 DEF LogShowsAccess, KeptNow, Active
  <2>3. CASE GrantedNow(u)
    BY <2>1, <2>3, ConstantsOK DEF GrantedNow, Active
  <2>4. CASE EndedNow(u)
    BY <2>1, <2>4, ConstantsOK DEF EndedNow, Active
  <2>5. QED BY <2>2, <2>3, <2>4, AccessesMove
<1>3. QED BY <1>1, <1>2, Invariance, PTL DEF Spec

\* Whatever requests raced, nobody becomes a viewer but by the acceptance of an open
\* invitation that had not expired for the request, or through a link.
THEOREM AccessWarranted == Spec => GrantsAreWarranted
<1>1. ASSUME Inv, [Next]_vars, NEW u \in Users, Active(u)', ~Active(u) PROVE Warranted(u)
  <2>1. ~KeptNow(u) /\ ~EndedNow(u)
    BY <1>1, ConstantsOK DEF Active, KeptNow, EndedNow
  <2>2. ASSUME NEW r \in Requests, Accept(r) PROVE Warranted(u)
    <3>1. req[r].user = u
      BY <1>1, <2>1, <2>2, AcceptGrants
    <3>2. /\ req[r].on \in Invites /\ Pending(req[r].on)
          /\ inv'[req[r].on].status = "ACCEPTED" /\ inv'[req[r].on].by = u
      BY <1>1, <2>2, <3>1, AcceptMoves
    <3>3. inv[req[r].on].until \in Nat /\ req[r].at \in Nat
      BY <1>1, <3>2 DEF Inv, TypeOK, Pending, Invitation, Request
    <3>4. req[r].at < inv[req[r].on].until
      BY <2>2, <3>3 DEF Accept, Acceptable, Expired
    <3>5. QED BY <3>1, <3>2, <3>4 DEF Warranted, AcceptedNow
  <2>3. ASSUME NEW r \in Requests, Join(r) PROVE Warranted(u)
    <3>1. req[r].user = u
      BY <1>1, <2>1, <2>3, JoinGrants
    <3>2. req[r].on \in Links /\ link[req[r].on] # None /\ req[r].pc = "join"
      BY <1>1, <2>3 DEF Inv, RequestsHold, Holds, Join
    <3>3. QED BY <3>1, <3>2 DEF Warranted
  <2>4. ASSUME NEW r \in Requests, Expel(r) \/ Leave(r) PROVE FALSE
    BY <1>1, <2>1, <2>4, ExpelEnds, LeaveEnds
  <2>5. ~DeleteProject
    BY <1>1, <2>1, DeleteEnds
  <2>6. ~AccessesKept
    BY <2>1 DEF AccessesKept, KeptNow
  <2>7. QED BY <1>1, <2>2, <2>3, <2>4, <2>5, <2>6, AccessSteps
<1>2. Inv /\ [Next]_vars =>
        [\A u \in Users : Active(u)' /\ ~Active(u) => Warranted(u)]_vars
  BY <1>1
<1>3. QED BY <1>2, Invariance, PTL DEF Spec, GrantsAreWarranted

(***************************************************************************)
(* Sharing implements the lifecycle of invitations.                        *)
(***************************************************************************)
\* An accepted letter, field by field.
LEMMA AcceptedLetter ==
    ASSUME NEW x \in Letter, NEW u \in Users
    PROVE  [x EXCEPT !.status = "ACCEPTED", !.by = u]
             = [to |-> x.to, status |-> "ACCEPTED", by |-> u]
<1> DEFINE y == [x EXCEPT !.status = "ACCEPTED", !.by = u]
           z == [to |-> x.to, status |-> "ACCEPTED", by |-> u]
<1>1. y \in Letter /\ y.to = x.to /\ y.status = "ACCEPTED" /\ y.by = u
  BY DEF Letter, Status
<1>2. z \in Letter /\ z.to = x.to /\ z.status = "ACCEPTED" /\ z.by = u
  BY DEF Letter, Status
<1> HIDE DEF y, z
<1>3. y = z
  BY <1>1, <1>2 DEF Letter
<1>4. QED BY <1>3 DEF y, z

\* However its requests and the expiry job race, every invitation is sent once,
\* settled at most once and accepted by nobody it is not addressed to.
THEOREM Implements == Spec => LifecycleSpec
<1> DEFINE Shown(x) == IF x = None THEN None
                       ELSE [to |-> x.to, status |-> x.status, by |-> x.by]
           letter == [i \in Invites |-> Shown(inv[i])]
<1>a. ASSUME NEW x \in Invitation PROVE x # None /\ Shown(x) \in Letter /\ Shown(x) # None
  <2>1. x # None
    BY ConstantsOK
  <2>2. [to |-> x.to, status |-> x.status, by |-> x.by] \in Letter
    BY DEF Invitation, Letter
  <2>3. QED BY <2>1, <2>2, ConstantsOK
<1>b. Letter = Lifecycle!Letter
  BY DEF Letter, Status, Lifecycle!Letter, Lifecycle!Status
<1>1. Init => Lifecycle!Init
  BY DEF Init, Lifecycle!Init
<1>2. Inv /\ [Next]_vars => [Lifecycle!Next]_letter
  <2> SUFFICES ASSUME Inv, [Next]_vars PROVE Lifecycle!Next
    OBVIOUS
  <2>1. /\ inv \in [Invites -> Invitation \cup {None}]
        /\ inv' \in [Invites -> Invitation \cup {None}]
    BY InvStep DEF Inv, TypeOK
  <2>2. letter' \in [Invites -> Lifecycle!Letter \cup {None}]
    BY <2>1, <1>a, <1>b
  <2>3. ASSUME NEW i \in Invites
        PROVE  \/ letter'[i] = letter[i] \/ Lifecycle!Send(i) \/ Lifecycle!Accept(i)
               \/ Lifecycle!Decline(i) \/ Lifecycle!Revoke(i)
    <3>1. letter[i] = Shown(inv[i]) /\ letter'[i] = Shown(inv'[i])
      OBVIOUS
    <3>2. CASE inv'[i] = inv[i]
      BY <3>1, <3>2
    <3>3. CASE inv[i] = None /\ inv'[i] \in Invitation /\ inv'[i].status = "PENDING"
               /\ inv'[i].by = None
      <4>1. letter[i] = None
            /\ letter'[i] = [to |-> inv'[i].to, status |-> "PENDING", by |-> None]
        BY <1>a, <3>1, <3>3
      <4>2. inv'[i].to \in Users \cup {Anyone}
        BY <3>3 DEF Invitation
      <4> HIDE DEF letter
      <4>3. QED BY <4>1, <4>2 DEF Lifecycle!Send, letter
    <3>4. CASE Pending(i) /\ inv'[i] \in Invitation /\ inv'[i].to = inv[i].to
      <4>1. inv[i] \in Invitation /\ inv[i].status = "PENDING"
        BY <2>1, <3>4 DEF Pending
      <4>2. /\ letter[i] = [to |-> inv[i].to, status |-> "PENDING", by |-> inv[i].by]
            /\ letter[i] # None
            /\ letter'[i] = [to |-> inv[i].to, status |-> inv'[i].status, by |-> inv'[i].by]
        BY <1>a, <3>1, <3>4, <4>1
      <4>3. Lifecycle!Open(i)
        BY <4>2 DEF Lifecycle!Open
      <4>4. CASE inv'[i].status = "PENDING" /\ inv'[i].by = inv[i].by
        BY <4>2, <4>4
      <4>5. CASE inv'[i].status = "DECLINED" /\ inv'[i].by = inv[i].by
        BY <4>2, <4>3, <4>5 DEF Lifecycle!Decline
      <4>6. CASE inv'[i].status = "REVOKED" /\ inv'[i].by = inv[i].by
        BY <4>2, <4>3, <4>6 DEF Lifecycle!Revoke
      <4>7. CASE /\ inv'[i].status = "ACCEPTED" /\ inv'[i].by \in Users
                 /\ inv[i].to \in {inv'[i].by, Anyone}
        <5>1. PICK u \in Users : u = inv'[i].by
          BY <4>7
        <5>2. letter[i] \in Letter /\ letter[i].to = inv[i].to
          BY <1>a, <3>1, <4>1, <4>2
        <5>3. letter'[i] = [to |-> letter[i].to, status |-> "ACCEPTED", by |-> u]
          BY <4>2, <4>7, <5>1, <5>2
        <5> HIDE DEF letter
        <5>4. letter'[i] = [letter[i] EXCEPT !.status = "ACCEPTED", !.by = u]
          BY <5>2, <5>3, AcceptedLetter
        <5>5. letter[i].to \in {u, Anyone}
          BY <4>7, <5>1, <5>2
        <5> USE DEF letter
        <5>6. QED BY <4>3, <5>4, <5>5 DEF Lifecycle!Accept
      <4>8. Moved(i)
        BY LettersMove DEF LettersTyped
      <4>9. QED BY <3>2, <3>3, <4>4, <4>5, <4>6, <4>7, <4>8 DEF Moved
    <3>5. Moved(i)
      BY LettersMove DEF LettersTyped
    <3>6. QED BY <3>2, <3>3, <3>4, <3>5 DEF Moved
  <2>4. Lifecycle!OneOpenEach'
    <3>1. OnePendingEach'
      BY InvStep DEF Inv
    <3>2. ASSUME NEW i \in Invites, Lifecycle!Open(i)'
          PROVE  Pending(i)' /\ letter'[i].to = inv'[i].to
      BY <2>1, <3>2 DEF Lifecycle!Open, Pending
    <3>3. QED BY <3>1, <3>2 DEF Lifecycle!OneOpenEach, OnePendingEach
  <2>5. QED BY <2>2, <2>3, <2>4 DEF Lifecycle!Next
<1>3. QED BY <1>1, <1>2, Invariance, PTL DEF Spec, LifecycleSpec, Lifecycle!Spec
=============================================================================
