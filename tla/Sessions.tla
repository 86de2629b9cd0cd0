-------------------------------- MODULE Sessions --------------------------------
(***************************************************************************)
(* Signing in with Apple and refreshing a session (auth.service, with      *)
(* prisma-user-repository, prisma-refresh-token-repository and the jose    *)
(* issuer and verifiers).  A sign-in makes the user, issues a pair of      *)
(* tokens and saves the refresh token, in statements of their own; a       *)
(* refresh issues the next pair and then exchanges the two refresh tokens  *)
(* in one transaction.  Any number of requests may present one token, a    *)
(* request may die between two statements, and its answer may be lost.     *)
(*                                                                         *)
(* A refresh token is known by its jti; the access token issued with it    *)
(* goes by the same name.  Times are in seconds, as tokens are issued.     *)
(***************************************************************************)
EXTENDS Naturals

CONSTANTS
    Users,          \* the people Apple vouches for
    PublicIds,      \* the public ids that may be drawn
    Signing,        \* bound: those who sign in; the others have signed in before
    Tokens,         \* the jtis that may be drawn
    Requests,       \* the requests that may run at a time
    NoToken, NoId,
    AccessTtl, RefreshTtl,
    Attempts,       \* how often a public id is drawn
    MaxTime         \* bound: where the clock stops

ASSUME SessionsAssumption ==
    /\ Signing \subseteq Users /\ Signing # {} /\ NoToken \notin Tokens /\ NoId \notin PublicIds
    /\ AccessTtl \in Nat /\ RefreshTtl \in Nat /\ Attempts \in Nat \ {0} /\ MaxTime \in Nat

VARIABLES
    now,        \* the clock
    publicId,   \* of each user; NoId if there is no such user yet
    token,      \* the table of refresh tokens
    given,      \* the tokens some client has received
    req         \* what each request is doing

vars == <<now, publicId, token, given, req>>

\* A row of the table; `session' is the token of the sign-in it goes back to.
Row == [state : {"none", "live", "revoked"}, owner : Users, session : Tokens, issued : Nat]

\* A request: the user it acts for, the token it was sent, the pair it has issued.
Request ==
    [at : {"idle", "upsert", "issue", "save", "rotate", "answer"}, user : Users,
     old : Tokens \cup {NoToken}, new : Tokens \cup {NoToken}, issued : Nat, tries : Nat]

Saved(t) == token[t].state # "none"
Live(t) == token[t].state = "live"

\* Where the issuer and the verifiers put the end of a pair issued at a time.
AccessValid(t) == Saved(t) /\ now < token[t].issued + AccessTtl
RefreshValid(t) == Saved(t) /\ now < token[t].issued + RefreshTtl

At(r, where) == req[r].at = where
Busy(r) == ~At(r, "idle")
Go(r, where) == req' = [req EXCEPT ![r].at = where]

Someone == CHOOSE u \in Users : TRUE

Idle == [at |-> "idle", user |-> Someone, old |-> NoToken, new |-> NoToken,
         issued |-> 0, tries |-> 0]

Done(r) == req' = [req EXCEPT ![r] = Idle]

Init ==
    /\ now = 0
    /\ publicId \in [Users -> PublicIds \cup {NoId}]
    /\ \A u \in Users : publicId[u] = NoId <=> u \in Signing
    /\ \A u, v \in Users : u # v /\ publicId[u] = publicId[v] => u \in Signing
    /\ token = [t \in Tokens |->
                   [state |-> "none", owner |-> Someone, session |-> t, issued |-> 0]]
    /\ given = {}
    /\ req = [r \in Requests |-> Idle]

-----------------------------------------------------------------------------
(* Signing in. *)

\* Apple's token has been verified: it vouches for the user.
SignIn(r, u) ==
    /\ ~Busy(r)
    /\ req' = [req EXCEPT ![r].at = "upsert", ![r].user = u, ![r].tries = 1]
    /\ UNCHANGED <<now, publicId, token, given>>

Taken(id) == \E u \in Users : publicId[u] = id

\* Mutant: an upsert writes the id it has drawn over a user's.
BugDrawn(u, id) == id

\* A user keeps the public id; only a new one gets the id that was drawn.
Drawn(u, id) == IF publicId[u] = NoId THEN id ELSE publicId[u]

Upsert(r) ==
    /\ At(r, "upsert")
    /\ \E id \in PublicIds :
          /\ publicId[req[r].user] = NoId => ~Taken(id)
          /\ publicId' = [publicId EXCEPT ![req[r].user] = Drawn(req[r].user, id)]
    /\ Go(r, "issue")
    /\ UNCHANGED <<now, token, given>>

\* The id drawn for a new user is somebody's: another is drawn, a few times.
Collide(r) ==
    /\ At(r, "upsert") /\ publicId[req[r].user] = NoId
    /\ \E id \in PublicIds : Taken(id)
    /\ IF req[r].tries >= Attempts THEN Done(r)
       ELSE req' = [req EXCEPT ![r].tries = @ + 1]
    /\ UNCHANGED <<now, publicId, token, given>>

\* A jti is random: no row and no other request has it.
Fresh(t) == ~Saved(t) /\ \A q \in Requests : req[q].new # t

Issue(r, t) ==
    /\ At(r, "issue") /\ Fresh(t)
    /\ req' = [req EXCEPT ![r].at = IF req[r].old = NoToken THEN "save" ELSE "rotate",
                          ![r].new = t, ![r].issued = now]
    /\ UNCHANGED <<now, publicId, token, given>>

\* The row of the pair a request has issued.
NewRow(r, session) ==
    [state |-> "live", owner |-> req[r].user, session |-> session, issued |-> req[r].issued]

SaveToken(r) ==
    /\ At(r, "save")
    /\ token' = [token EXCEPT ![req[r].new] = NewRow(r, req[r].new)]
    /\ Go(r, "answer")
    /\ UNCHANGED <<now, publicId, given>>

-----------------------------------------------------------------------------
(* Refreshing. *)

\* The token's signature and expiry are verified; it names the user.
Refresh(r, t) ==
    /\ ~Busy(r) /\ t \in given /\ RefreshValid(t)
    /\ req' = [req EXCEPT ![r].at = "issue", ![r].user = token[t].owner, ![r].old = t]
    /\ UNCHANGED <<now, publicId, token, given>>

\* Mutant: a token that has been exchanged is exchanged again.
BugRotatable(t) == RefreshValid(t)

\* The where of the update that revokes the token: it waits for the row, and asks again.
Rotatable(t) == Live(t) /\ RefreshValid(t)

\* Both rows are written by one transaction.
Rotated(r) ==
    [token EXCEPT ![req[r].old].state = "revoked",
                  ![req[r].new] = NewRow(r, token[req[r].old].session)]

Rotate(r) ==
    /\ At(r, "rotate") /\ Rotatable(req[r].old)
    /\ token' = Rotated(r)
    /\ Go(r, "answer")
    /\ UNCHANGED <<now, publicId, given>>

Refuse(r) ==
    /\ At(r, "rotate") /\ ~Rotatable(req[r].old)
    /\ Done(r)
    /\ UNCHANGED <<now, publicId, token, given>>

-----------------------------------------------------------------------------

Answer(r) ==
    /\ At(r, "answer")
    /\ given' = given \cup {req[r].new}
    /\ Done(r)
    /\ UNCHANGED <<now, publicId, token>>

\* Mutant: when the answer is lost, the exchange is undone.
BugLose(r) ==
    /\ Busy(r)
    /\ Done(r)
    /\ token' = IF At(r, "answer") /\ req[r].old # NoToken
                THEN [token EXCEPT ![req[r].old].state = "live", ![req[r].new].state = "none"]
                ELSE token
    /\ UNCHANGED <<now, publicId, given>>

\* The process dies, a statement fails, or the answer is lost.
Lose(r) ==
    /\ Busy(r)
    /\ Done(r)
    /\ UNCHANGED <<now, publicId, token, given>>

Tick ==
    /\ now < MaxTime
    /\ now' = now + 1
    /\ UNCHANGED <<publicId, token, given, req>>

Handle(r) ==
    \/ Upsert(r) \/ Collide(r) \/ SaveToken(r) \/ Rotate(r)
    \/ \E t \in Tokens : Issue(r, t)

Next ==
    \/ \E r \in Requests :
          \/ \E u \in Signing : SignIn(r, u)
          \/ \E t \in Tokens : Refresh(r, t)
          \/ Handle(r) \/ Refuse(r) \/ Answer(r) \/ Lose(r)
    \/ Tick

Spec == Init /\ [][Next]_vars

-----------------------------------------------------------------------------
(* Properties. *)

\* The type of every variable.
SessionsTypeOK ==
    /\ now \in Nat
    /\ publicId \in [Users -> PublicIds \cup {NoId}]
    /\ token \in [Tokens -> Row]
    /\ given \in SUBSET Tokens
    /\ req \in [Requests -> Request]

\* A session that was begun has exactly one live token for as long as it is kept, whatever
\* requests race for it or die in between: no exchange leaves it with two, or with none.
OneLiveToken ==
    \A s \in Tokens :
       Saved(s) /\ token[s].session = s =>
          \E t \in Tokens :
             /\ Live(t) /\ token[t].session = s
             /\ \A u \in Tokens : Live(u) /\ token[u].session = s => u = t

\* The public id invitations are addressed to is one user's and for ever: signing in again,
\* even twice at a time, neither changes it nor hands it to somebody else.
PublicIdsStay ==
    [][\A u \in Users :
          /\ publicId[u] # NoId => publicId'[u] = publicId[u]
          /\ \A v \in Users \ {u} : publicId'[u] # NoId => publicId'[u] # publicId'[v]]_publicId

\* Each token is exchanged once, for one token, of the same session: see SessionLifecycle.
HeadOf(s) ==
    IF \E t \in Tokens : Live(t) /\ token[t].session = s
    THEN CHOOSE t \in Tokens : Live(t) /\ token[t].session = s
    ELSE NoToken

Lifecycle == INSTANCE SessionLifecycle
    WITH head <- [s \in Tokens |-> HeadOf(s)],
         spent <- {t \in Tokens : token[t].state = "revoked"}

LifecycleSpec == Lifecycle!Spec
=============================================================================
