------------------------------ MODULE GatewayProofs ------------------------------
(***************************************************************************)
(* Theorems of Gateway, for any limits and any choice of the routes that   *)
(* are requested: what SessionsProofs shows of the requests that sign in   *)
(* and refresh still holds behind the limiters and across restarts of the  *)
(* process; the limiters of single routes count nobody unknown; and every  *)
(* error has its status.                                                   *)
(***************************************************************************)
EXTENDS Gateway, SessionsProofs

-----------------------------------------------------------------------------
(* A restart ends every request at once, which no step of Sessions does. *)

LEMMA CrashKeeps == ASSUME SessionsInv, Crash PROVE SessionsInv'
<1>1. /\ token' = token /\ publicId' = publicId /\ given' = given /\ now' = now
      /\ \A r \in Requests : req'[r] = Idle
      /\ req' = [r \in Requests |-> Idle]
  BY DEF Crash
<1>2. Someone \in Users
  BY SessionsAssumption DEF Someone
<1>3. Idle \in Request
  BY <1>2 DEF Idle, Request
<1>4. SessionsTypeOK' /\ IdsDistinct'
  BY <1>1, <1>3 DEF SessionsInv, SessionsTypeOK, IdsDistinct
<1>5. AllSound'
  BY <1>1, <1>3 DEF AllSound, Sound, Idle
<1>6. Rooted' /\ OneLiveToken'
  BY <1>1, QuietTokens
<1> QED
  BY <1>4, <1>5, <1>6 DEF SessionsInv

\* Every other step is one of Sessions, or leaves it alone.
LEMMA SessionsStep == GatewayNext => [Next]_vars \/ Crash
<1>1. ASSUME NEW r \in Requests, NEW route, NEW bearer, Arrive(r, route, bearer)
      PROVE UNCHANGED vars
  BY <1>1 DEF Arrive
<1>2. ASSUME NEW r \in Requests, NEW l, Count(r, l)
      PROVE UNCHANGED vars
  BY <1>2 DEF Count
<1>3. ASSUME NEW r \in Requests, Authenticate(r) \/ Respond(r) \/ Reject(r)
      PROVE UNCHANGED vars
  BY <1>3 DEF Authenticate, Respond, Reject
<1>4. ASSUME NEW r \in Requests, Enter(r) \/ Work(r) \/ Leave(r)
      PROVE Next
  BY <1>4 DEF Enter, Work, Leave, Next
<1>5. Clock => Next
  BY DEF Clock, Next
<1> QED
  BY <1>1, <1>2, <1>3, <1>4, <1>5 DEF GatewayNext

LEMMA SessionsInvariance == GatewaySpec => []SessionsInv
<1>1. GatewayInit => SessionsInv
  BY InvInit DEF GatewayInit
<1>2. SessionsInv /\ [GatewayNext]_allVars => SessionsInv'
  <2>1. UNCHANGED allVars => UNCHANGED vars
    BY DEF allVars
  <2> QED
    BY <2>1, SessionsStep, CrashKeeps, InvNext
<1> QED
  BY <1>1, <1>2, PTL DEF GatewaySpec

-----------------------------------------------------------------------------
(* The theorems. *)

\* Behind the stack of app.ts, whatever requests race, die or are cut off by a restart, a
\* session has one live refresh token for as long as it is kept.
THEOREM ServedOneLiveToken == GatewaySpec => []OneLiveToken
<1>1. SessionsInv => OneLiveToken
  BY DEF SessionsInv
<1> QED
  BY <1>1, SessionsInvariance, PTL

\* The server with its restarts still exchanges each refresh token once, for one nobody had.
THEOREM ServedImplements == GatewaySpec => LifecycleSpec
<1>1. GatewayInit => Lifecycle!Init
  BY InitImplements DEF GatewayInit
<1>2. SessionsInv /\ HeadsRight /\ HeadsRight' /\ [GatewayNext]_allVars =>
         [Lifecycle!Next]_<<[s \in Tokens |-> HeadOf(s)],
                            {t \in Tokens : token[t].state = "revoked"}>>
  <2> SUFFICES ASSUME SessionsInv, HeadsRight, HeadsRight', [GatewayNext]_allVars
               PROVE [Lifecycle!Next]_<<[s \in Tokens |-> HeadOf(s)],
                                        {t \in Tokens : token[t].state = "revoked"}>>
    OBVIOUS
  <2>1. [Next]_vars \/ Crash
    BY SessionsStep DEF allVars
  <2>2. CASE Crash
    <3>1. token' = token
      BY <2>2 DEF Crash
    <3>2. \A s \in Tokens : HeadOf(s)' = HeadOf(s)
      BY <3>1, HeadStays DEF Live
    <3> QED
      BY <3>1, <3>2
  <2> QED
    BY <2>1, <2>2, StepImplements
<1> QED
  BY <1>1, <1>2, Heads, SessionsInvariance, PTL DEF GatewaySpec, LifecycleSpec, Lifecycle!Spec

\* Nor does the server with its restarts ever change a public id, or give it to a second user.
THEOREM ServedIdsStay == GatewaySpec => PublicIdsStay
<1>1. SessionsInv /\ SessionsInv' /\ [GatewayNext]_allVars =>
        [\A u \in Users :
           /\ publicId[u] # NoId => publicId'[u] = publicId[u]
           /\ \A v \in Users \ {u} : publicId'[u] # NoId => publicId'[u] # publicId'[v]]_publicId
  <2>1. Crash => publicId' = publicId
    BY DEF Crash
  <2>2. [GatewayNext]_allVars => [Next]_vars \/ Crash
    BY SessionsStep DEF allVars
  <2> QED
    BY <2>1, <2>2, StepIds
<1> QED
  BY <1>1, SessionsInvariance, PTL DEF GatewaySpec, PublicIdsStay

-----------------------------------------------------------------------------
(* The routes, table by table. *)

Own == Limiters \ {"api", "appleAuth", "refreshAuth"}
Middleware == Limiters \cup {"auth"}

\* Before a limiter of a single route, the access token is checked.
CheckedFirst(stack) ==
    \A i \in DOMAIN stack : stack[i] \in Own => \E j \in 1..(i - 1) : stack[j] = "auth"

\* What is asked of a table: the stacks of its routes and the router they belong to.
Wired(route) == route.before \in Seq(Middleware) /\ CheckedFirst(route.before)

LEMMA PrivateWired == \A n, router, errors : Wired(Private(n, router, errors))
BY DEF Private, Open, Wired, CheckedFirst, Middleware, Own, Limiters

LEMMA LimitedWired ==
    /\ \A n, router, errors : Wired(Limited(n, router, "invitationCreate", errors))
    /\ \A n, router, errors : Wired(Limited(n, router, "invitationAccept", errors))
    /\ \A n, router, errors : Wired(Limited(n, router, "uploadSessionCreate", errors))
    /\ \A n, router, errors : Wired(Limited(n, router, "downloadUrl", errors))
BY DEF Limited, Open, Wired, CheckedFirst, Middleware, Own, Limiters

LEMMA OpenWired ==
    /\ \A n, router, errors : Wired(Open(n, router, <<"api", "appleAuth">>, errors))
    /\ \A n, router, errors : Wired(Open(n, router, <<"api", "refreshAuth">>, errors))
    /\ \A n, router, errors : Wired(Open(n, router, <<>>, errors))
BY DEF Open, Wired, CheckedFirst, Middleware, Own, Limiters

LEMMA RoutesWired == \A route \in Routes : Wired(route)
<1>1. \A route \in AuthRoutes : Wired(route)
  BY OpenWired, ZenonT(30) DEF AuthRoutes
<1>2. \A route \in SyncRoutes : Wired(route)
  BY PrivateWired, ZenonT(30) DEF SyncRoutes
<1>3. \A route \in ProjectRoutes : Wired(route)
  BY PrivateWired, ZenonT(30) DEF ProjectRoutes
<1>4. \A route \in ScanRoutes : Wired(route)
  BY PrivateWired, ZenonT(30) DEF ScanRoutes
<1>5. \A route \in AssetRoutes : Wired(route)
  BY PrivateWired, LimitedWired, ZenonT(30) DEF AssetRoutes
<1>6. \A route \in NoteRoutes : Wired(route)
  BY PrivateWired, ZenonT(30) DEF NoteRoutes
<1>7. \A route \in InvitationRoutes : Wired(route)
  BY PrivateWired, LimitedWired, ZenonT(30) DEF InvitationRoutes
<1>8. \A route \in RecipientRoutes : Wired(route)
  BY PrivateWired, LimitedWired, ZenonT(30) DEF RecipientRoutes
<1>9. \A route \in ViewerRoutes : Wired(route)
  BY PrivateWired, ZenonT(30) DEF ViewerRoutes
<1>10. \A route \in LinkRoutes : Wired(route)
  BY PrivateWired, ZenonT(30) DEF LinkRoutes
<1>11. \A route \in SharedProjectRoutes : Wired(route)
  BY PrivateWired, ZenonT(30) DEF SharedProjectRoutes
<1>12. \A route \in SharedScanRoutes : Wired(route)
  BY PrivateWired, ZenonT(30) DEF SharedScanRoutes
<1>13. \A route \in UserRoutes : Wired(route)
  BY PrivateWired, ZenonT(30) DEF UserRoutes
<1>14. \A route \in HealthRoutes : Wired(route)
  BY OpenWired, ZenonT(30) DEF HealthRoutes, Health
<1> QED
  BY <1>1, <1>2, <1>3, <1>4, <1>5, <1>6, <1>7, <1>8,
     <1>9, <1>10, <1>11, <1>12, <1>13, <1>14 DEF Routes

-----------------------------------------------------------------------------
(* The requests on their way. *)

\* A request whose user is not known yet has the check before every limiter of a single
\* route that it still has to pass.
UserBeforeOwn ==
    \A r \in Requests : call[r].at = "stack" /\ call[r].user \notin Users =>
                            CheckedFirst(call[r].left)

GatewayInv == GatewayTypeOK /\ UserBeforeOwn

\* One request moves, and the others stay where they are.
LEMMA CallMoves ==
    ASSUME GatewayInv, SessionsTypeOK', NEW r \in Requests, NEW c \in Call,
           c.at = "stack" /\ c.user \notin Users => CheckedFirst(c.left),
           call' = [call EXCEPT ![r] = c], hits' = hits
    PROVE  GatewayInv'
BY DEF GatewayInv, GatewayTypeOK, UserBeforeOwn

\* Middleware that lets a request pass.
LEMMA Passed ==
    ASSUME NEW stack \in Seq(Middleware), stack # <<>>, CheckedFirst(stack)
    PROVE  /\ Tail(stack) \in Seq(Middleware)
           /\ Head(stack) # "auth" => Head(stack) \notin Own /\ CheckedFirst(Tail(stack))
<1>1. Tail(stack) \in Seq(Middleware) /\ Len(stack) \in Nat \ {0} /\ Head(stack) = stack[1]
      /\ DOMAIN stack = 1..Len(stack) /\ DOMAIN Tail(stack) = 1..(Len(stack) - 1)
      /\ \A i \in 1..(Len(stack) - 1) : Tail(stack)[i] = stack[i + 1]
  OBVIOUS
<1>2. ASSUME Head(stack) # "auth" PROVE Head(stack) \notin Own /\ CheckedFirst(Tail(stack))
  <2>1. Head(stack) \notin Own
    BY <1>1 DEF CheckedFirst
  <2>2. ASSUME NEW i \in 1..(Len(stack) - 1), Tail(stack)[i] \in Own
        PROVE  \E j \in 1..(i - 1) : Tail(stack)[j] = "auth"
    <3>1. i + 1 \in DOMAIN stack /\ stack[i + 1] \in Own
      BY <1>1, <2>2
    <3>2. PICK j \in 1..i : stack[j] = "auth"
      BY <3>1 DEF CheckedFirst
    <3>3. j - 1 \in 1..(i - 1) /\ Tail(stack)[j - 1] = stack[j]
      BY <1>1, <1>2, <3>2
    <3> QED
      BY <3>2, <3>3
  <2> QED
    BY <1>1, <2>1, <2>2 DEF CheckedFirst
<1> QED
  BY <1>1, <1>2

LEMMA NoCallIsCall == NoCall \in Call
<1>1. Health \in Routes
  BY DEF Routes, HealthRoutes
<1> QED
  BY <1>1 DEF NoCall, Call

LEMMA OverKeeps ==
    ASSUME GatewayInv, SessionsTypeOK', NEW r \in Requests, Over(r), hits' = hits
    PROVE  GatewayInv'
<1>1. NoCall \in Call /\ NoCall.at # "stack"
  BY NoCallIsCall DEF NoCall
<1> QED
  BY <1>1, CallMoves DEF Over

LEMMA ArriveKeeps ==
    ASSUME GatewayInv, SessionsTypeOK', NEW r \in Requests, NEW route \in Requested,
           NEW bearer \in Bearers(route), Arrive(r, route, bearer)
    PROVE  GatewayInv'
<1> DEFINE c == [at |-> "stack", route |-> route, left |-> route.before,
                 bearer |-> bearer, user |-> NoUser]
<1>1. route \in Routes /\ Wired(route)
  BY RoutesWired DEF Requested
<1>2. bearer \in Tokens \cup {NoToken}
  BY DEF Bearers, GatewayInv, GatewayTypeOK, SessionsTypeOK
<1>3. c \in Call /\ CheckedFirst(c.left)
  BY <1>1, <1>2 DEF Call, Wired, Middleware
<1> HIDE DEF c
<1>4. call' = [call EXCEPT ![r] = c] /\ hits' = hits
  BY DEF Arrive, c
<1> QED
  BY <1>3, <1>4, CallMoves

LEMMA CountKeeps ==
    ASSUME GatewayInv, SessionsTypeOK', NEW r \in Requests, NEW l \in Limiters, Count(r, l)
    PROVE  GatewayInv'
<1>1. CASE hits[l] >= Max[l]
  <2>1. Over(r) /\ hits' = hits
    BY <1>1, GatewayAssumption DEF Count, GatewayInv, GatewayTypeOK
  <2> QED
    BY <2>1, OverKeeps
<1>2. CASE hits[l] < Max[l]
  <2>1. call[r] \in Call /\ call \in [Requests -> Call]
    BY DEF GatewayInv, GatewayTypeOK
  <2> DEFINE c == [call[r] EXCEPT !.left = Tail(call[r].left)]
  <2>2. /\ call[r].at = "stack" /\ call[r].left # <<>> /\ Head(call[r].left) = l
        /\ call' = [call EXCEPT ![r] = c] /\ hits' = [hits EXCEPT ![l] = @ + 1]
    BY <1>2 DEF Count, Before
  <2>3. call[r].left \in Seq(Middleware)
    BY <2>1 DEF Call, Middleware
  <2>4. l # "auth"
    BY DEF Limiters
  <2>5. Tail(call[r].left) \in Seq(Middleware)
    BY <2>2, <2>3
  <2>6. c \in Call /\ c.at = call[r].at /\ c.user = call[r].user
        /\ c.left = Tail(call[r].left)
    BY <2>1, <2>5 DEF Call, Middleware
  <2>7. ASSUME c.user \notin Users PROVE CheckedFirst(c.left)
    <3>1. CheckedFirst(call[r].left)
      BY <2>2, <2>6, <2>7 DEF GatewayInv, UserBeforeOwn
    <3> QED
      BY <2>2, <2>3, <2>4, <2>6, <3>1, Passed
  <2> HIDE DEF c
  <2>8. call' \in [Requests -> Call]
    BY <2>1, <2>2, <2>6
  <2>9. UserBeforeOwn'
    <3>1. \A q \in Requests : call'[q] = IF q = r THEN c ELSE call[q]
      BY <2>1, <2>2
    <3> QED
      BY <2>7, <3>1 DEF UserBeforeOwn, GatewayInv
  <2>10. hits' \in [Limiters -> Nat] /\ \A m \in Limiters : hits'[m] <= Max[m]
    <3>1. hits \in [Limiters -> Nat] /\ \A m \in Limiters : hits[m] <= Max[m]
      BY DEF GatewayInv, GatewayTypeOK
    <3>2. \A m \in Limiters : hits'[m] = (IF m = l THEN hits[l] + 1 ELSE hits[m])
      BY <2>2, <3>1
    <3>3. hits[l] \in Nat /\ Max[l] \in Nat
      BY <3>1, GatewayAssumption
    <3>4. hits[l] + 1 \in Nat /\ hits[l] + 1 <= Max[l]
      BY <1>2, <3>3
    <3>5. hits' \in [Limiters -> Nat]
      BY <2>2, <3>1, <3>4
    <3> QED
      BY <3>1, <3>2, <3>4, <3>5
  <2> QED
    BY <2>8, <2>9, <2>10 DEF GatewayInv, GatewayTypeOK
<1> QED
  BY <1>1, <1>2, GatewayAssumption DEF GatewayInv, GatewayTypeOK

LEMMA AuthenticateKeeps ==
    ASSUME GatewayInv, SessionsTypeOK', NEW r \in Requests, Authenticate(r)
    PROVE  GatewayInv'
<1>0. hits' = hits
  BY DEF Authenticate
<1>1. CASE Over(r)
  BY <1>0, <1>1, OverKeeps
<1>2. CASE ~Over(r)
  <2>1. call[r] \in Call /\ call \in [Requests -> Call] /\ token \in [Tokens -> Row]
    BY DEF GatewayInv, GatewayTypeOK, SessionsTypeOK
  <2>2. PICK t \in Tokens : t = call[r].bearer
    BY <1>2, <2>1 DEF Authenticate, Call
  <2>3. PICK u \in Users : u = token[t].owner
    BY <2>1 DEF Row
  <2> DEFINE c == [call[r] EXCEPT !.left = Tail(call[r].left), !.user = u, !.bearer = NoToken]
  <2>4. call[r].left # <<>> /\ call' = [call EXCEPT ![r] = c]
    BY <1>2, <2>1, <2>2, <2>3 DEF Authenticate, Before
  <2>5. Tail(call[r].left) \in Seq(Limiters \cup {"auth"})
    BY <2>1, <2>4 DEF Call
  <2>6. c \in Call /\ c.user \in Users
    BY <2>1, <2>5 DEF Call
  <2> HIDE DEF c
  <2> QED
    BY <1>0, <2>4, <2>6, CallMoves
<1> QED
  BY <1>1, <1>2

LEMMA EnterKeeps ==
    ASSUME GatewayInv, SessionsTypeOK', NEW r \in Requests, Enter(r)
    PROVE  GatewayInv'
<1> DEFINE c == [call[r] EXCEPT !.at = "service"]
<1>1. call' = [call EXCEPT ![r] = c] /\ hits' = hits
  BY DEF Enter
<1>2. call[r] \in Call
  BY DEF GatewayInv, GatewayTypeOK
<1>3. c \in Call /\ c.at # "stack"
  BY <1>2 DEF Call
<1> HIDE DEF c
<1> QED
  BY <1>1, <1>3, CallMoves

LEMMA GatewayKeeps == GatewayInv /\ SessionsTypeOK' /\ [GatewayNext]_allVars => GatewayInv'
<1> SUFFICES ASSUME GatewayInv, SessionsTypeOK', [GatewayNext]_allVars PROVE GatewayInv'
  OBVIOUS
<1>1. ASSUME NEW r \in Requests, Respond(r) \/ Reject(r) \/ Leave(r) PROVE GatewayInv'
  BY <1>1, OverKeeps DEF Respond, Reject, Leave
<1>2. CASE UNCHANGED <<hits, call>>
  BY <1>2 DEF GatewayInv, GatewayTypeOK, UserBeforeOwn
<1>3. CASE Crash
  <2>1. /\ call' = [r \in Requests |-> NoCall] /\ hits' = [l \in Limiters |-> 0]
        /\ NoCall \in Call /\ NoCall.at # "stack"
    BY <1>3, NoCallIsCall DEF Crash, NoCall
  <2> QED
    BY <2>1, GatewayAssumption DEF GatewayInv, GatewayTypeOK, UserBeforeOwn
<1>4. CASE Clock
  <2>1. call' = call
    BY <1>4 DEF Clock
  <2>2. hits' \in [Limiters -> Nat] /\ \A l \in Limiters : hits'[l] <= Max[l]
    BY <1>4, GatewayAssumption DEF Clock, GatewayInv, GatewayTypeOK
  <2> QED
    BY <2>1, <2>2 DEF GatewayInv, GatewayTypeOK, UserBeforeOwn
<1>5. ASSUME NEW r \in Requests, NEW route \in Requested, NEW bearer \in Bearers(route),
             Arrive(r, route, bearer)
      PROVE  GatewayInv'
  BY <1>5, ArriveKeeps
<1>6. ASSUME NEW r \in Requests, NEW l \in Limiters, Count(r, l) PROVE GatewayInv'
  BY <1>6, CountKeeps
<1>7. ASSUME NEW r \in Requests, Authenticate(r) PROVE GatewayInv'
  BY <1>7, AuthenticateKeeps
<1>8. ASSUME NEW r \in Requests, Enter(r) PROVE GatewayInv'
  BY <1>8, EnterKeeps
<1> QED
  BY <1>1, <1>2, <1>3, <1>4, <1>5, <1>6, <1>7, <1>8
     DEF GatewayNext, allVars, gatewayVars, Work

LEMMA GatewayInvariance == GatewaySpec => []GatewayInv
<1>1. GatewayInit /\ SessionsTypeOK => GatewayInv
  <2> SUFFICES ASSUME GatewayInit, SessionsTypeOK PROVE GatewayInv
    OBVIOUS
  <2>1. /\ call = [r \in Requests |-> NoCall] /\ hits = [l \in Limiters |-> 0]
        /\ NoCall \in Call /\ NoCall.at # "stack"
    BY NoCallIsCall DEF GatewayInit, NoCall
  <2> QED
    BY <2>1, GatewayAssumption DEF GatewayInv, GatewayTypeOK, UserBeforeOwn
<1>2. SessionsInv => SessionsTypeOK
  BY DEF SessionsInv
<1> QED
  BY <1>1, <1>2, GatewayKeeps, SessionsInvariance, PTL DEF GatewaySpec

\* No limiter ever counts past its limit, and every request stands at a known place of the
\* stack of a known route.
THEOREM ServedTypes == GatewaySpec => []GatewayTypeOK
<1>1. GatewayInv => GatewayTypeOK
  BY DEF GatewayInv
<1> QED
  BY <1>1, GatewayInvariance, PTL

\* With whatever limits and routes, and however requests are mixed: nobody without a valid
\* access token uses up the limiter of a single route.
THEOREM StrangersStopped == GatewaySpec => StrangersSpendNothing
<1>1. ASSUME GatewayInv, [GatewayNext]_allVars, NEW l \in Own, hits'[l] > hits[l]
      PROVE  \E r \in Requests : Before(r, l) /\ call[r].user \in Users
  <2>1. hits \in [Limiters -> Nat] /\ l \in Limiters
    BY <1>1 DEF GatewayInv, GatewayTypeOK, Own
  <2>2. ~Clock /\ ~Crash /\ hits' # hits
    BY <1>1, <2>1 DEF Clock, Crash
  <2>3. PICK r \in Requests, m \in Limiters : Count(r, m)
    BY <1>1, <2>2 DEF GatewayNext, allVars, gatewayVars, Arrive, Authenticate, Respond,
                      Reject, Enter, Work, Leave
  <2>4. Before(r, m) /\ m = l
    BY <1>1, <2>1, <2>3 DEF Count
  <2>5. call[r] \in Call
    BY <1>1 DEF GatewayInv, GatewayTypeOK
  <2>6. call[r].left \in Seq(Middleware) /\ call[r].left # <<>> /\ Head(call[r].left) \in Own
    BY <1>1, <2>4, <2>5 DEF Before, Call, Middleware
  <2>7. ~CheckedFirst(call[r].left)
    <3>1. "auth" \notin Own
      BY DEF Own, Limiters
    <3> QED
      BY <2>6, <3>1, Passed
  <2> QED
    BY <1>1, <2>4, <2>5, <2>7 DEF GatewayInv, UserBeforeOwn, Before, Call
<1>2. GatewayInv /\ [GatewayNext]_allVars =>
        [\A l \in Limiters \ {"api", "appleAuth", "refreshAuth"} :
           hits'[l] > hits[l] =>
             \E r \in Requests : Before(r, l) /\ call[r].user \in Users]_allVars
  BY <1>1 DEF Own
<1> QED
  BY <1>2, GatewayInvariance, PTL DEF GatewaySpec, StrangersSpendNothing

-----------------------------------------------------------------------------
(* The errors, router by router. *)

LEMMA AnsweredKnown ==
    ASSUME NEW router, NEW status, NEW errors, Answered(status, errors) \in StatusOf[router]
    PROVE  errors \subseteq Known(router)
BY DEF Known, Answered

LEMMA KeysAnswered ==
    \A router : KeyStatus \subseteq StatusOf[router] => KeyErrors \subseteq Known(router)
BY AnsweredKnown DEF KeyStatus, KeyErrors

LEMMA RevisionsAnswered ==
    \A router : RevisionStatus \subseteq StatusOf[router] =>
                    RevisionErrors \subseteq Known(router)
BY AnsweredKnown DEF RevisionStatus, RevisionErrors

LEMMA KnownByProject ==
    KeyErrors \cup RevisionErrors \cup {"ProjectNotFound"} \subseteq Known("project")
<1>1. StatusOf["project"] =
        KeyStatus \cup RevisionStatus \cup {Answered(404, {"ProjectNotFound"})}
  BY DEF StatusOf
<1> QED
  BY <1>1, AnsweredKnown, KeysAnswered, RevisionsAnswered

LEMMA KnownByScan ==
    KeyErrors \cup RevisionErrors \cup
       {"ScanNotFound", "InvalidAssetRequest", "StorageUnavailable"} \subseteq Known("scan")
<1>1. StatusOf["scan"] = ScanStatus
  BY DEF StatusOf
<1>2. KeyStatus \subseteq StatusOf["scan"] /\ RevisionStatus \subseteq StatusOf["scan"]
  BY <1>1 DEF ScanStatus
<1>3. {"ScanNotFound", "ProjectNotFound"} \subseteq Known("scan")
  BY <1>1, AnsweredKnown DEF ScanStatus
<1>4. {"InvalidAssetRequest"} \subseteq Known("scan")
  BY <1>1, AnsweredKnown DEF ScanStatus
<1>5. {"StorageUnavailable"} \subseteq Known("scan")
  BY <1>1, AnsweredKnown DEF ScanStatus
<1> QED
  BY <1>2, <1>3, <1>4, <1>5, KeysAnswered, RevisionsAnswered

LEMMA KnownByAsset ==
    /\ KeyErrors \subseteq Known("asset")
    /\ {"ScanNotFound", "ProjectNotFound", "ScanAssetNotFound"} \subseteq Known("asset")
    /\ {"AssetNotReady", "UploadSessionExpired", "AssetUploadFailed",
        "ModelAlreadyCompleted"} \subseteq Known("asset")
    /\ {"InvalidAssetRequest"} \subseteq Known("asset")
    /\ {"StorageUnavailable"} \subseteq Known("asset")
<1>1. StatusOf["asset"] = AssetStatus
  BY DEF StatusOf
<1>2. KeyStatus \subseteq StatusOf["asset"]
  BY <1>1 DEF AssetStatus
<1>3. {"ScanNotFound", "ProjectNotFound", "ScanAssetNotFound"} \subseteq Known("asset")
  BY <1>1, AnsweredKnown DEF AssetStatus
<1>4. {"AssetNotReady", "UploadSessionExpired", "AssetUploadFailed",
       "ModelAlreadyCompleted"} \subseteq Known("asset")
  BY <1>1, AnsweredKnown DEF AssetStatus
<1>5. {"InvalidAssetRequest"} \subseteq Known("asset")
  BY <1>1, AnsweredKnown DEF AssetStatus
<1>6. {"StorageUnavailable"} \subseteq Known("asset")
  BY <1>1, AnsweredKnown DEF AssetStatus
<1> QED
  BY <1>2, <1>3, <1>4, <1>5, <1>6, KeysAnswered

LEMMA KnownByNote ==
    /\ KeyErrors \subseteq Known("note")
    /\ RevisionErrors \subseteq Known("note")
    /\ {"ScanNotFound", "ProjectNotFound", "NoteNotFound"} \subseteq Known("note")
    /\ {"ModelVersionMismatch"} \subseteq Known("note")
<1>1. StatusOf["note"] = NoteStatus
  BY DEF StatusOf
<1>2. KeyStatus \subseteq StatusOf["note"] /\ RevisionStatus \subseteq StatusOf["note"]
  BY <1>1 DEF NoteStatus
<1>3. {"ScanNotFound", "ProjectNotFound", "NoteNotFound"} \subseteq Known("note")
  BY <1>1, AnsweredKnown DEF NoteStatus
<1>4. {"ModelVersionMismatch"} \subseteq Known("note")
  BY <1>1, AnsweredKnown DEF NoteStatus
<1> QED
  BY <1>2, <1>3, <1>4, KeysAnswered, RevisionsAnswered

LEMMA KnownByShare ==
    /\ KeyErrors \subseteq Known("share")
    /\ {"ProjectNotFound", "ScanNotFound", "InvitationNotFound", "ShareNoLongerAvailable",
        "ShareLinkNotFound", "ViewerAccessNotFound", "RecipientUserNotFound"}
          \subseteq Known("share")
    /\ {"NotOwner", "InvitationNotForUser"} \subseteq Known("share")
    /\ {"InvitationAlreadySent", "InvitationAlreadyAccepted", "InvitationExpired",
        "InvitationRevoked", "InvitationDeclined", "CannotInviteSelf", "AccessAlreadyExists",
        "CannotAcceptOwnInvitation", "ProjectNotShareable", "ScanNotShareable",
        "ShareLinkExpired"} \subseteq Known("share")
<1>1. StatusOf["share"] = ShareStatus
  BY DEF StatusOf
<1>2. KeyStatus \subseteq StatusOf["share"]
  BY <1>1 DEF ShareStatus
<1>3. {"ProjectNotFound", "ScanNotFound", "InvitationNotFound", "ShareNoLongerAvailable",
       "ShareLinkNotFound", "ViewerAccessNotFound", "RecipientUserNotFound"}
         \subseteq Known("share")
  BY <1>1, AnsweredKnown DEF ShareStatus
<1>4. {"NotOwner", "InvitationNotForUser"} \subseteq Known("share")
  BY <1>1, AnsweredKnown DEF ShareStatus
<1>5. {"InvitationAlreadySent", "InvitationAlreadyAccepted", "InvitationExpired",
       "InvitationRevoked", "InvitationDeclined", "CannotInviteSelf", "AccessAlreadyExists",
       "CannotAcceptOwnInvitation", "ProjectNotShareable", "ScanNotShareable",
       "ShareLinkExpired"} \subseteq Known("share")
  BY <1>1, AnsweredKnown DEF ShareStatus
<1> QED
  BY <1>2, <1>3, <1>4, <1>5, KeysAnswered

LEMMA KnownByOthers ==
    /\ {"InvalidAppleIdentityToken", "InvalidRefreshToken"} \subseteq Known("auth")
    /\ {"AppleIdentityProviderUnavailable"} \subseteq Known("auth")
    /\ {"InvalidSyncCursor", "InvalidSyncTimestamp"} \subseteq Known("sync")
    /\ {"ProjectNotFound"} \subseteq Known("sync")
    /\ {"ProjectNotFound"} \subseteq Known("sharedProjects")
    /\ {"NotSharedProject"} \subseteq Known("sharedProjects")
    /\ {"SharedProjectNotInList"} \subseteq Known("sharedProjects")
    /\ {"ScanNotFound"} \subseteq Known("sharedScans")
    /\ {"NotSharedScan"} \subseteq Known("sharedScans")
    /\ {"SharedScanNotInList"} \subseteq Known("sharedScans")
    /\ {"UserNotFound"} \subseteq Known("users")
    /\ {"ServiceUnavailable"} \subseteq Known("health")
BY AnsweredKnown DEF StatusOf

\* A route whose handlers throw what its router knows.
Answers(route) == route.throws \subseteq Known(route.router)

LEMMA MadeAnswers ==
    /\ \A n, router, errors : errors \subseteq Known(router) =>
                                Answers(Private(n, router, errors))
    /\ \A n, router, l, errors : errors \subseteq Known(router) =>
                                   Answers(Limited(n, router, l, errors))
    /\ \A n, router, stack, errors : errors \subseteq Known(router) =>
                                       Answers(Open(n, router, stack, errors))
BY DEF Private, Limited, Open, Answers

LEMMA RoutesAnswer == \A route \in Routes : Answers(route)
<1>1. \A route \in AuthRoutes : Answers(route)
  <2>1. {"InvalidAppleIdentityToken", "AppleIdentityProviderUnavailable"} \subseteq Known("auth")
    BY KnownByOthers
  <2>2. {"InvalidRefreshToken"} \subseteq Known("auth")
    BY KnownByOthers
  <2> QED
    <3>1. SUFFICES ASSUME NEW route \in AuthRoutes PROVE Answers(route)
      OBVIOUS
    <3>2. PICK stack, errors : /\ \E name : route = Open(name, "auth", stack, errors)
                               /\ errors \subseteq Known("auth")
      BY <2>1, <2>2, ZenonT(30) DEF AuthRoutes
    <3> QED
      BY <3>2, MadeAnswers
<1>2. \A route \in SyncRoutes : Answers(route)
  BY MadeAnswers, KnownByOthers DEF SyncRoutes
<1>3. \A route \in ProjectRoutes : Answers(route)
  BY MadeAnswers, KnownByProject DEF ProjectRoutes
<1>4. \A route \in ScanRoutes : Answers(route)
  BY MadeAnswers, KnownByScan DEF ScanRoutes
<1>5. \A route \in AssetRoutes : Answers(route)
  BY MadeAnswers, KnownByAsset DEF AssetRoutes
<1>6. \A route \in NoteRoutes : Answers(route)
  BY MadeAnswers, KnownByNote DEF NoteRoutes
<1>7. \A route \in InvitationRoutes : Answers(route)
  <2>1. KeyErrors \cup RecipientErrors \cup {"ProjectNotFound", "NotOwner",
                                              "ProjectNotShareable"} \subseteq Known("share")
    BY KnownByShare DEF RecipientErrors
  <2>2. RecipientErrors \cup {"ScanNotFound", "NotOwner", "ScanNotShareable"}
           \subseteq Known("share")
    BY KnownByShare DEF RecipientErrors
  <2>3. {"InvitationNotFound", "NotOwner", "InvitationRevoked", "InvitationExpired",
         "InvitationAlreadyAccepted", "InvitationDeclined", "ProjectNotFound",
         "ScanNotFound"} \subseteq Known("share")
    BY KnownByShare
  <2> QED
    BY <2>1, <2>2, <2>3, MadeAnswers, ZenonT(30) DEF InvitationRoutes
<1>8. \A route \in RecipientRoutes : Answers(route)
  BY MadeAnswers, KnownByShare DEF RecipientRoutes
<1>9. \A route \in ViewerRoutes : Answers(route)
  BY MadeAnswers, KnownByShare DEF ViewerRoutes
<1>10. \A route \in LinkRoutes : Answers(route)
  BY MadeAnswers, KnownByShare DEF LinkRoutes
<1>11. \A route \in SharedProjectRoutes : Answers(route)
  BY MadeAnswers, KnownByOthers DEF SharedProjectRoutes
<1>12. \A route \in SharedScanRoutes : Answers(route)
  BY MadeAnswers, KnownByOthers DEF SharedScanRoutes
<1>13. \A route \in UserRoutes : Answers(route)
  BY MadeAnswers, KnownByOthers DEF UserRoutes
<1>14. \A route \in HealthRoutes : Answers(route)
  BY MadeAnswers, KnownByOthers DEF HealthRoutes, Health
<1> QED
  BY <1>1, <1>2, <1>3, <1>4, <1>5, <1>6, <1>7, <1>8,
     <1>9, <1>10, <1>11, <1>12, <1>13, <1>14 DEF Routes

\* Whatever routes are requested: every error of every route has a status of its own.
THEOREM ErrorsKnown == GatewaySpec => []NoErrorIsUnknown
<1>1. NoErrorIsUnknown
  BY RoutesAnswer DEF NoErrorIsUnknown, Answers
<1> QED
  BY <1>1, PTL

=============================================================================
