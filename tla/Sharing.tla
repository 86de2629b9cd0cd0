------------------------------- MODULE Sharing -------------------------------
(***************************************************************************)
(* One project or scan and who may view it: invitations, reusable share    *)
(* links, the viewers' access rows with the changes that tell each viewer  *)
(* of theirs, and the deletion of what is shared.                          *)
(*                                                                         *)
(* A request looks (reads and checks rows), may look again, and writes in  *)
(* one statement or transaction. Each is an action of its own, because     *)
(* anything may happen in between; a write holds the rows it changes until *)
(* its commit and is one action. A request that ends without writing (a    *)
(* 4xx answer) just goes away. Idempotency keys, mail and the token behind *)
(* a reference are left out: who may use a reference is what matters here. *)
(***************************************************************************)
EXTENDS Integers, FiniteSets

CONSTANTS
    None,        \* no row, nobody
    Anyone,      \* the recipient of an invitation sent to an email address
    Users,       \* the users who are not the owner
    Invites,     \* ids of invitations
    Links,       \* ids of share links
    Requests,    \* requests the API may be serving at one time
    Lifetimes,   \* values of expiresInSeconds
    TTL,         \* invitationTtlSeconds
    MaxClock,    \* bound: time stops here
    MaxRev       \* bound: nobody joins again whose access was written this often

Status == {"PENDING", "ACCEPTED", "DECLINED", "REVOKED"}

Invitation == [to: Users \cup {Anyone}, status: Status, by: Users \cup {None}, until: Nat]

\* What its lifecycle shows of an invitation.
Letter == [to: Users \cup {Anyone}, status: Status, by: Users \cup {None}]

ShareLink == [until: Nat, revoked: BOOLEAN]

\* revoked: the owner took the access away; removed: the viewer gave it up.
Access == [rev: Nat, revoked: BOOLEAN, removed: BOOLEAN]

\* The last access change written for the viewer's eyes.
Change == [op: {"UPSERT", "DELETE"}, rev: Nat]

ASSUME ConstantsOK ==
    /\ Lifetimes \subseteq Nat \ {0}
    /\ TTL \in Nat \ {0}
    /\ MaxClock \in Nat /\ MaxRev \in Nat
    /\ Anyone \notin Users /\ None \notin Users /\ None # Anyone
    /\ None \notin Invites /\ None \notin Links
    /\ None \notin Invitation /\ None \notin ShareLink
    /\ None \notin Access /\ None \notin Change /\ None \notin Letter

VARIABLES
    clock,       \* the time every process reads
    scope,       \* what is shared: a project or a scan
    live,        \* it has not been deleted
    inv,         \* invitations
    link,        \* share links
    access,      \* per user the ProjectAccess or ScanAccess row
    told,        \* per user the last change of it targeted at the user
    req,         \* what each request has read and where it stands
    deleter      \* the deletion of the project: per user the revision it read

vars == <<clock, scope, live, inv, link, access, told, req, deleter>>

Idle == [pc |-> "idle", on |-> None, user |-> None, to |-> Anyone, at |-> 0,
         until |-> 0, rev |-> 0]

\* at: the clock read with the row, where the write depends on it.
Request == [pc: {"idle", "create", "resend", "revoke", "acceptCheck", "accept",
                 "declineCheck", "decline", "joinCheck", "join", "expel", "leave"},
            on: Invites \cup Links \cup {None},
            user: Users \cup {None},
            to: Users \cup {Anyone},
            at: Nat, until: Nat, rev: Nat]

(***************************************************************************)
(* Rows.                                                                   *)
(***************************************************************************)
Pending(i) == inv[i] # None /\ inv[i].status = "PENDING"

\* No use after this time: the owner may renew it, the expiry job revokes it.
Expired(i, now) == inv[i].until <= now

Active(u) == access[u] # None /\ ~access[u].revoked /\ ~access[u].removed

Looks(r, state) ==
    /\ req[r] = Idle
    /\ req' = [req EXCEPT ![r] = state]
    /\ UNCHANGED <<clock, scope, live, inv, link, access, told, deleter>>

Checks(r, before, after) ==
    /\ req[r].pc = before
    /\ ~Active(req[r].user)
    /\ req' = [req EXCEPT ![r].pc = after]
    /\ UNCHANGED <<clock, scope, live, inv, link, access, told, deleter>>

Ends(r) == req' = [req EXCEPT ![r] = Idle]

Settles(i, status) == inv' = [inv EXCEPT ![i] = [@ EXCEPT !.status = status]]

\* Only project accesses carry a revision and are in the change log.
Counted(rev) == IF scope = "project" THEN rev + 1 ELSE 0

Tells(u, op, rev) ==
    told' = IF scope = "project"
            THEN [told EXCEPT ![u] = [op |-> op, rev |-> rev]] ELSE told

\* The upsert of an access: a viewer who comes back gets the old row.
Granted(u) == [rev |-> IF access[u] = None THEN Counted(0) ELSE Counted(access[u].rev),
               revoked |-> FALSE, removed |-> FALSE]

Grants(u) ==
    /\ access' = [access EXCEPT ![u] = Granted(u)]
    /\ Tells(u, "UPSERT", Granted(u).rev)

(***************************************************************************)
(* Invitations: the owner's requests.                                      *)
(***************************************************************************)
\* (Bound: Invites; nobody starts to create one when no id is left.)
CreateLook(r, to, life) ==
    /\ live
    /\ \E i \in Invites : inv[i] = None
    /\ Looks(r, [Idle EXCEPT !.pc = "create", !.to = to, !.at = clock,
                             !.until = clock + life])

\* Open invitations of the recipient that have expired give way ...
GiveWay(r) == {j \in Invites : Pending(j) /\ inv[j].to = req[r].to /\ Expired(j, req[r].at)}

\* ... and the partial unique index admits no other.
Vacant(r) == \A j \in Invites : Pending(j) /\ inv[j].to = req[r].to => j \in GiveWay(r)

CreateInsert(r, i) ==
    /\ req[r].pc = "create"
    /\ inv[i] = None
    /\ Vacant(r)
    /\ inv' = [j \in Invites |->
                 IF j = i THEN [to |-> req[r].to, status |-> "PENDING", by |-> None,
                                until |-> req[r].until]
                 ELSE IF j \in GiveWay(r) THEN [inv[j] EXCEPT !.status = "REVOKED"]
                 ELSE inv[j]]
    /\ Ends(r)
    /\ UNCHANGED <<clock, scope, live, link, access, told, deleter>>

ResendLook(r, i) ==
    /\ live
    /\ Pending(i) /\ ~Expired(i, clock)
    /\ Looks(r, [Idle EXCEPT !.pc = "resend", !.on = i, !.at = clock])

\* The time left may become shorter than the creation had asked for.
ResendWrite(r) ==
    /\ req[r].pc = "resend"
    /\ Pending(req[r].on)
    /\ inv' = [inv EXCEPT ![req[r].on] = [@ EXCEPT !.until = req[r].at + TTL]]
    /\ Ends(r)
    /\ UNCHANGED <<clock, scope, live, link, access, told, deleter>>

RevokeLook(r, i) ==
    /\ live
    /\ Pending(i)
    /\ Looks(r, [Idle EXCEPT !.pc = "revoke", !.on = i])

RevokeWrite(r) ==
    /\ req[r].pc = "revoke"
    /\ Pending(req[r].on)
    /\ Settles(req[r].on, "REVOKED")
    /\ Ends(r)
    /\ UNCHANGED <<clock, scope, live, link, access, told, deleter>>

(***************************************************************************)
(* Invitations: the recipient's requests and the expiry job.               *)
(***************************************************************************)
\* A bound invitation is its user's alone, any other is the bearer's.
MayUse(i, u) == inv[i].to \in {u, Anyone}

Invited(i, u) ==
    /\ live
    /\ Pending(i) /\ ~Expired(i, clock)
    /\ MayUse(i, u)

AcceptLook(r, i, u) ==
    /\ Invited(i, u)
    /\ Looks(r, [Idle EXCEPT !.pc = "acceptCheck", !.on = i, !.user = u, !.at = clock])

AcceptCheck(r) == Checks(r, "acceptCheck", "accept")

\* Mutants of Acceptable: the status is not asked again; the expiry is not.
BugAcceptableSettled(r) == inv[req[r].on] # None /\ ~Expired(req[r].on, req[r].at)

BugAcceptableExpired(r) == Pending(req[r].on)

\* The condition of the guarded update.
Acceptable(r) == Pending(req[r].on) /\ ~Expired(req[r].on, req[r].at)

Accept(r) ==
    /\ req[r].pc = "accept"
    /\ Acceptable(r)
    /\ inv' = [inv EXCEPT ![req[r].on] = [@ EXCEPT !.status = "ACCEPTED",
                                                   !.by = req[r].user]]
    /\ Grants(req[r].user)
    /\ Ends(r)
    /\ UNCHANGED <<clock, scope, live, link, deleter>>

DeclineLook(r, i, u) ==
    /\ Invited(i, u)
    /\ Looks(r, [Idle EXCEPT !.pc = "declineCheck", !.on = i, !.user = u])

DeclineCheck(r) == Checks(r, "declineCheck", "decline")

Decline(r) ==
    /\ req[r].pc = "decline"
    /\ Pending(req[r].on)
    /\ Settles(req[r].on, "DECLINED")
    /\ Ends(r)
    /\ UNCHANGED <<clock, scope, live, link, access, told, deleter>>

Overdue == {i \in Invites : Pending(i) /\ Expired(i, clock)}

\* Mutant: the job writes the status the API shows for expired invitations.
BugExpireInvitations ==
    /\ Overdue # {}
    /\ inv' = [i \in Invites |-> IF i \in Overdue THEN [inv[i] EXCEPT !.status = "EXPIRED"]
                                 ELSE inv[i]]
    /\ UNCHANGED <<clock, scope, live, link, access, told, req, deleter>>

ExpireInvitations ==
    /\ Overdue # {}
    /\ inv' = [i \in Invites |-> IF i \in Overdue THEN [inv[i] EXCEPT !.status = "REVOKED"]
                                 ELSE inv[i]]
    /\ UNCHANGED <<clock, scope, live, link, access, told, req, deleter>>

(***************************************************************************)
(* Share links. A dead entity's links resolve to nothing, so a link made   *)
(* or revoked while it is being deleted makes no difference.               *)
(***************************************************************************)
CreateLink(l) ==
    /\ live
    /\ link[l] = None
    /\ link' = [link EXCEPT ![l] = [until |-> clock + TTL, revoked |-> FALSE]]
    /\ UNCHANGED <<clock, scope, live, inv, access, told, req, deleter>>

RevokeLink(l) ==
    /\ live
    /\ link[l] # None /\ ~link[l].revoked
    /\ link' = [link EXCEPT ![l] = [@ EXCEPT !.revoked = TRUE]]
    /\ UNCHANGED <<clock, scope, live, inv, access, told, req, deleter>>

\* (Bound: MaxRev; a link may be used again and again.)
JoinLook(r, l, u) ==
    /\ live
    /\ link[l] # None /\ ~link[l].revoked /\ clock < link[l].until
    /\ access[u] # None => access[u].rev < MaxRev
    /\ Looks(r, [Idle EXCEPT !.pc = "joinCheck", !.on = l, !.user = u])

JoinCheck(r) == Checks(r, "joinCheck", "join")

\* Neither the link nor what it shares is looked at again.
Join(r) ==
    /\ req[r].pc = "join"
    /\ Grants(req[r].user)
    /\ Ends(r)
    /\ UNCHANGED <<clock, scope, live, inv, link, deleter>>

(***************************************************************************)
(* Viewers leave or are made to.                                           *)
(***************************************************************************)
ExpelLook(r, u) ==
    /\ live
    /\ Looks(r, [Idle EXCEPT !.pc = "expel", !.user = u])

Expel(r) ==
    LET u   == req[r].user
        rev == Counted(access[u].rev)
    IN  /\ req[r].pc = "expel"
        /\ access[u] # None
        /\ ~access[u].revoked
        /\ access' = [access EXCEPT ![u] = [@ EXCEPT !.revoked = TRUE, !.rev = rev]]
        /\ Tells(u, "DELETE", rev)
        /\ Ends(r)
        /\ UNCHANGED <<clock, scope, live, inv, link, deleter>>

LeaveLook(r, u) ==
    /\ access[u] # None /\ ~access[u].removed
    /\ Looks(r, [Idle EXCEPT !.pc = "leave", !.user = u, !.rev = access[u].rev])

\* Mutant: the revision that was read is not asked for.
BugUnmoved(r) == ~access[req[r].user].removed

\* The guarded write of a project access asks for the revision that was read.
Unmoved(r) ==
    /\ ~access[req[r].user].removed
    /\ scope = "project" => access[req[r].user].rev = req[r].rev

Leave(r) ==
    LET u   == req[r].user
        rev == Counted(req[r].rev)
    IN  /\ req[r].pc = "leave"
        /\ Unmoved(r)
        /\ access' = [access EXCEPT ![u] = [@ EXCEPT !.removed = TRUE,
                                                     !.rev = Counted(access[u].rev)]]
        /\ Tells(u, "DELETE", rev)
        /\ Ends(r)
        /\ UNCHANGED <<clock, scope, live, inv, link, deleter>>

(***************************************************************************)
(* The deletion of what is shared.                                         *)
(***************************************************************************)
\* A project's deletion reads the active accesses with the project ...
DeleteLook ==
    /\ scope = "project"
    /\ live /\ deleter = None
    /\ deleter' = [u \in Users |-> IF Active(u) THEN access[u].rev ELSE None]
    /\ UNCHANGED <<clock, scope, live, inv, link, access, told, req>>

\* ... and revokes those it has read, whatever they are by now.
DeleteProject ==
    /\ deleter # None
    /\ live' = FALSE
    /\ access' = [u \in Users |->
                    IF deleter[u] = None THEN access[u]
                    ELSE [access[u] EXCEPT !.revoked = TRUE, !.rev = access[u].rev + 1]]
    /\ told' = [u \in Users |->
                  IF deleter[u] = None THEN told[u]
                  ELSE [op |-> "DELETE", rev |-> deleter[u] + 1]]
    /\ deleter' = None
    /\ UNCHANGED <<clock, scope, inv, link, req>>

\* The deletion of a scan, or of its project, leaves the scan's accesses alone.
DeleteScan ==
    /\ scope = "scan"
    /\ live
    /\ live' = FALSE
    /\ UNCHANGED <<clock, scope, inv, link, access, told, req, deleter>>

DeleteFails ==
    /\ deleter # None
    /\ deleter' = None
    /\ UNCHANGED <<clock, scope, live, inv, link, access, told, req>>

(***************************************************************************)
(* The specification.                                                      *)
(***************************************************************************)
\* A request that is refused, fails or dies.
Drop(r) ==
    /\ req[r] # Idle
    /\ Ends(r)
    /\ UNCHANGED <<clock, scope, live, inv, link, access, told, deleter>>

Tick ==
    /\ clock < MaxClock
    /\ clock' = clock + 1
    /\ UNCHANGED <<scope, live, inv, link, access, told, req, deleter>>

Init ==
    /\ clock = 0
    /\ scope \in {"project", "scan"}
    /\ live = TRUE
    /\ inv = [i \in Invites |-> None]
    /\ link = [l \in Links |-> None]
    /\ access = [u \in Users |-> None]
    /\ told = [u \in Users |-> None]
    /\ req = [r \in Requests |-> Idle]
    /\ deleter = None

Owner(r) ==
    \/ \E to \in Users \cup {Anyone}, life \in Lifetimes : CreateLook(r, to, life)
    \/ \E i \in Invites : CreateInsert(r, i) \/ ResendLook(r, i) \/ RevokeLook(r, i)
    \/ ResendWrite(r)
    \/ RevokeWrite(r)
    \/ \E u \in Users : ExpelLook(r, u)
    \/ Expel(r)

Viewer(r) ==
    \/ \E i \in Invites, u \in Users : AcceptLook(r, i, u) \/ DeclineLook(r, i, u)
    \/ AcceptCheck(r)
    \/ Accept(r)
    \/ DeclineCheck(r)
    \/ Decline(r)
    \/ \E l \in Links, u \in Users : JoinLook(r, l, u)
    \/ JoinCheck(r)
    \/ Join(r)
    \/ \E u \in Users : LeaveLook(r, u)
    \/ Leave(r)

Next ==
    \/ \E r \in Requests : Owner(r) \/ Viewer(r) \/ Drop(r)
    \/ \E l \in Links : CreateLink(l) \/ RevokeLink(l)
    \/ ExpireInvitations
    \/ DeleteLook \/ DeleteProject \/ DeleteFails \/ DeleteScan
    \/ Tick

Spec == Init /\ [][Next]_vars

(***************************************************************************)
(* Properties.                                                             *)
(***************************************************************************)
\* Every variable holds what the program can put in it.
TypeOK ==
    /\ clock \in Nat
    /\ scope \in {"project", "scan"}
    /\ live \in BOOLEAN
    /\ inv \in [Invites -> Invitation \cup {None}]
    /\ link \in [Links -> ShareLink \cup {None}]
    /\ access \in [Users -> Access \cup {None}]
    /\ told \in [Users -> Change \cup {None}]
    /\ req \in [Requests -> Request]
    /\ deleter \in [Users -> Nat \cup {None}] \cup {None}

\* However requests, resends and the expiry job race, an invitation is settled at
\* most once, and accepted by nobody but a user it is addressed to.
Lifecycle == INSTANCE InvitationLifecycle
    WITH letter <- [i \in Invites |->
                      IF inv[i] = None THEN None
                      ELSE [to |-> inv[i].to, status |-> inv[i].status, by |-> inv[i].by]]

LifecycleSpec == Lifecycle!Spec

AcceptedNow(i, u) ==
    /\ Pending(i)
    /\ inv'[i].status = "ACCEPTED" /\ inv'[i].by = u

\* A request that accepts an invitation open and not expired for it, or that comes
\* through a link.
Warranted(u) ==
    \E r \in Requests :
        /\ req[r].user = u
        /\ \/ \E i \in Invites :
                 req[r].on = i /\ AcceptedNow(i, u) /\ req[r].at < inv[i].until
           \/ \E l \in Links :
                 req[r].on = l /\ req[r].pc = "join" /\ link[l] # None

\* A user becomes a viewer only by accepting an open invitation that has not expired
\* for the request that accepts it, or through a link. A retry, a resend, the expiry
\* job or a settled invitation gives nobody access again.
GrantsAreWarranted ==
    [][\A u \in Users : Active(u)' /\ ~Active(u) => Warranted(u)]_vars

\* As long as the project stands, the last access change a user can see is their
\* access: an UPSERT at its revision while it is active, a DELETE at its revision
\* once it is not, whoever ended it and however often it came back.
LogShowsAccess ==
    live /\ scope = "project" => \A u \in Users :
        told[u] = IF access[u] = None THEN None
                  ELSE [op |-> IF Active(u) THEN "UPSERT" ELSE "DELETE",
                        rev |-> access[u].rev]
=============================================================================
