--------------------------------- MODULE Gateway ---------------------------------
(***************************************************************************)
(* The way of a request through the server (app.ts, the routers of the     *)
(* modules and the middleware of common/), with Sessions behind the two    *)
(* routes that sign in and refresh.  A route is a stack of middleware      *)
(* before its handler: the limiters of its path, the check of the access   *)
(* token, the route's own limiter.  The validation that follows touches    *)
(* nothing and is part of the handler's first step.  Every other handler   *)
(* is a step that succeeds or throws: the other modules say what it does.  *)
(*                                                                         *)
(* The limiters count the requests of one address; those of different      *)
(* addresses do not meet.  They live in the process and begin anew with it.*)
(***************************************************************************)
EXTENDS Sessions, Sequences, Functions

CONSTANTS
    NoUser,
    Served,         \* bound: the routes that are requested
    Max             \* of each limiter

Limiters == {"api", "appleAuth", "refreshAuth", "invitationCreate", "invitationAccept",
             "uploadSessionCreate", "downloadUrl"}

ASSUME GatewayAssumption == Max \in [Limiters -> Nat] /\ NoUser \notin Users

-----------------------------------------------------------------------------
(* The routes: by which router, behind what, and what their handlers throw. *)

KeyErrors == {"IdempotencyKeyRequired", "InvalidIdempotencyKey", "IdempotencyKeyConflict"}
RevisionErrors == {"RevisionRequired", "InvalidRevision", "RevisionConflict"}

Open(name, router, before, throws) ==
    [name |-> name, router |-> router, before |-> before, throws |-> throws]

\* The routes of the API that ask for an access token.
Private(name, router, throws) == Open(name, router, <<"api", "auth">>, throws)
Limited(name, router, limiter, throws) ==
    Open(name, router, <<"api", "auth", limiter>>, throws)

AuthRoutes ==
    {Open("POST /auth/apple", "auth", <<"api", "appleAuth">>,
          {"InvalidAppleIdentityToken", "AppleIdentityProviderUnavailable"}),
     Open("POST /auth/refresh", "auth", <<"api", "refreshAuth">>,
          {"InvalidRefreshToken"})}

SyncRoutes ==
    {Private("GET /sync/changes", "sync", {"InvalidSyncCursor", "InvalidSyncTimestamp"}),
     Private("GET /sync/status", "sync", {"ProjectNotFound"})}

ProjectRoutes ==
    {Private("POST /projects", "project", KeyErrors),
     Private("GET /projects", "project", {}),
     Private("GET /projects/:projectId", "project", {"ProjectNotFound"}),
     Private("PATCH /projects/:projectId", "project",
             RevisionErrors \cup {"ProjectNotFound"}),
     Private("DELETE /projects/:projectId", "project",
             RevisionErrors \cup {"ProjectNotFound"})}

ScanRoutes ==
    {Private("POST /projects/:projectId/scans", "scan",
             KeyErrors \cup {"ScanNotFound", "InvalidAssetRequest",
                             "StorageUnavailable"}),
     Private("GET /projects/:projectId/scans", "scan", {"ScanNotFound"}),
     Private("GET /scans/:scanId", "scan", {"ScanNotFound"}),
     Private("PATCH /scans/:scanId", "scan", RevisionErrors \cup {"ScanNotFound"}),
     Private("DELETE /scans/:scanId", "scan", RevisionErrors \cup {"ScanNotFound"})}

AssetRoutes ==
    {Limited("POST /scans/:scanId/assets/upload-sessions", "asset", "uploadSessionCreate",
             KeyErrors \cup {"ScanNotFound", "InvalidAssetRequest", "StorageUnavailable",
                             "ModelAlreadyCompleted"}),
     Private("POST /upload-sessions/:uploadSessionId/complete", "asset",
             {"ScanNotFound", "ScanAssetNotFound", "UploadSessionExpired",
              "StorageUnavailable", "AssetUploadFailed", "InvalidAssetRequest"}),
     Private("GET /scans/:scanId/assets", "asset", {"ScanNotFound"}),
     Limited("GET /scans/:scanId/assets/:assetType/download-url", "asset", "downloadUrl",
             {"ScanNotFound", "ScanAssetNotFound", "AssetNotReady",
              "StorageUnavailable"}),
     Private("POST /upload-sessions/:uploadSessionId/fail", "asset",
             {"ScanNotFound", "ScanAssetNotFound"})}

NoteRoutes ==
    {Private("POST /scans/:scanId/notes", "note",
             KeyErrors \cup {"ScanNotFound", "ModelVersionMismatch"}),
     Private("GET /scans/:scanId/notes", "note", {"ScanNotFound"}),
     Private("GET /notes/:noteId", "note", {"NoteNotFound"}),
     Private("PATCH /notes/:noteId", "note", RevisionErrors \cup {"NoteNotFound"}),
     Private("PATCH /notes/:noteId/position", "note",
             RevisionErrors \cup {"NoteNotFound", "ModelVersionMismatch"}),
     Private("DELETE /notes/:noteId", "note", RevisionErrors \cup {"NoteNotFound"})}

\* Whom an invitation may be addressed to.
RecipientErrors == {"RecipientUserNotFound", "CannotInviteSelf", "InvitationAlreadySent"}

\* Mutant: the limiter stands before the check of the access token.
BugInvitationRoutes ==
    {Open("POST /projects/:projectId/invitations", "share", <<"api", "invitationCreate", "auth">>,
          KeyErrors \cup RecipientErrors \cup {"ProjectNotFound", "NotOwner",
                                               "ProjectNotShareable"})}

InvitationRoutes ==
    {Limited("POST /projects/:projectId/invitations", "share", "invitationCreate",
             KeyErrors \cup RecipientErrors \cup {"ProjectNotFound", "NotOwner",
                                                  "ProjectNotShareable"}),
     Limited("POST /scans/:scanId/invitations", "share", "invitationCreate",
             RecipientErrors \cup {"ScanNotFound", "NotOwner", "ScanNotShareable"}),
     Private("POST /invitations/:invitationId/resend", "share",
             {"InvitationNotFound", "NotOwner", "InvitationRevoked", "InvitationExpired",
              "InvitationAlreadyAccepted", "InvitationDeclined", "ProjectNotFound",
              "ScanNotFound"})}

RecipientRoutes ==
    {Private("GET /invitations", "share", {}),
     Private("GET /invitations/:reference", "share",
             {"InvitationNotFound", "ShareNoLongerAvailable", "InvitationNotForUser"}),
     Limited("POST /invitations/:reference/accept", "share", "invitationAccept",
             {"InvitationNotFound", "ShareNoLongerAvailable", "InvitationNotForUser",
              "InvitationAlreadyAccepted", "InvitationDeclined", "InvitationExpired",
              "CannotAcceptOwnInvitation", "AccessAlreadyExists", "ShareLinkExpired",
              "ShareLinkNotFound"}),
     Private("POST /invitations/:reference/decline", "share",
             {"InvitationNotFound", "ShareNoLongerAvailable", "InvitationNotForUser",
              "InvitationAlreadyAccepted", "InvitationDeclined", "InvitationExpired",
              "CannotAcceptOwnInvitation", "AccessAlreadyExists"})}

\* What the owner takes back and looks at.
ViewerRoutes ==
    {Private("DELETE /invitations/:invitationId", "share",
             {"InvitationNotFound", "NotOwner", "InvitationAlreadyAccepted",
              "InvitationDeclined"}),
     Private("GET /projects/:projectId/shares", "share", {"ProjectNotFound", "NotOwner"}),
     Private("GET /scans/:scanId/shares", "share", {"ScanNotFound", "NotOwner"}),
     Private("DELETE /projects/:projectId/shares/:userId", "share",
             {"ProjectNotFound", "NotOwner", "ViewerAccessNotFound"}),
     Private("DELETE /scans/:scanId/shares/:userId", "share",
             {"ScanNotFound", "NotOwner", "ViewerAccessNotFound"})}

LinkRoutes ==
    {Private("POST /projects/:projectId/share-links", "share",
             {"ProjectNotFound", "NotOwner", "ProjectNotShareable"}),
     Private("POST /scans/:scanId/share-links", "share",
             {"ScanNotFound", "NotOwner", "ScanNotShareable"}),
     Private("GET /projects/:projectId/share-links", "share",
             {"ProjectNotFound", "NotOwner"}),
     Private("GET /scans/:scanId/share-links", "share", {"ScanNotFound", "NotOwner"}),
     Private("DELETE /projects/:projectId/share-links/:shareLinkId", "share",
             {"ShareLinkNotFound", "ProjectNotFound", "ScanNotFound", "NotOwner"}),
     Private("DELETE /scans/:scanId/share-links/:shareLinkId", "share",
             {"ShareLinkNotFound", "ProjectNotFound", "ScanNotFound", "NotOwner"})}

SharedProjectRoutes ==
    {Private("GET /shared-projects", "sharedProjects", {}),
     Private("GET /shared-projects/:projectId", "sharedProjects", {"ProjectNotFound"}),
     Private("DELETE /shared-projects/:projectId", "sharedProjects",
             {"NotSharedProject", "SharedProjectNotInList"})}

SharedScanRoutes ==
    {Private("GET /shared-scans", "sharedScans", {}),
     Private("GET /shared-scans/:scanId", "sharedScans", {"ScanNotFound"}),
     Private("DELETE /shared-scans/:scanId", "sharedScans",
             {"NotSharedScan", "SharedScanNotInList"})}

UserRoutes ==
    {Private("GET /users/me", "users", {"UserNotFound"}),
     Private("PATCH /users/me", "users", {"UserNotFound"})}

\* The health of the process and of the database: outside every limiter.
Health == Open("GET /health", "health", <<>>, {})

HealthRoutes ==
    {Health,
     Open("GET /ready", "health", <<>>, {"ServiceUnavailable"})}

Routes ==
    UNION {AuthRoutes, SyncRoutes, ProjectRoutes, ScanRoutes, AssetRoutes, NoteRoutes,
           InvitationRoutes, RecipientRoutes, ViewerRoutes, LinkRoutes,
           SharedProjectRoutes, SharedScanRoutes, UserRoutes, HealthRoutes}

Requested == {route \in Routes : route.name \in Served}

-----------------------------------------------------------------------------
(* The status a router gives an error its handlers throw. *)

Answered(status, errors) == [status |-> status, errors |-> errors]

KeyStatus ==
    {Answered(400, {"IdempotencyKeyRequired", "InvalidIdempotencyKey"}),
     Answered(409, {"IdempotencyKeyConflict"})}

RevisionStatus ==
    {Answered(400, {"RevisionRequired", "InvalidRevision"}), Answered(409, {"RevisionConflict"})}

\* Mutant: the router forgets the errors about recipients and accesses.
BugShareStatus ==
    KeyStatus \cup
    {Answered(404, {"ProjectNotFound", "ScanNotFound", "InvitationNotFound",
                    "ShareNoLongerAvailable", "ShareLinkNotFound"}),
     Answered(403, {"NotOwner", "InvitationNotForUser"}),
     Answered(409, {"InvitationAlreadySent", "InvitationAlreadyAccepted", "InvitationExpired",
                    "InvitationRevoked", "InvitationDeclined", "ProjectNotShareable",
                    "ScanNotShareable", "ShareLinkExpired"})}

ShareStatus ==
    KeyStatus \cup
    {Answered(404, {"ProjectNotFound", "ScanNotFound", "InvitationNotFound",
                    "ShareNoLongerAvailable", "ShareLinkNotFound", "ViewerAccessNotFound",
                    "RecipientUserNotFound"}),
     Answered(403, {"NotOwner", "InvitationNotForUser"}),
     Answered(409, {"InvitationAlreadySent", "InvitationAlreadyAccepted", "InvitationExpired",
                    "InvitationRevoked", "InvitationDeclined", "CannotInviteSelf",
                    "AccessAlreadyExists", "CannotAcceptOwnInvitation", "ProjectNotShareable",
                    "ScanNotShareable", "ShareLinkExpired"})}

AssetStatus ==
    KeyStatus \cup
    {Answered(404, {"ScanNotFound", "ProjectNotFound", "ScanAssetNotFound"}),
     Answered(409, {"AssetNotReady", "UploadSessionExpired", "AssetUploadFailed",
                    "ModelAlreadyCompleted"}),
     Answered(400, {"InvalidAssetRequest"}), Answered(503, {"StorageUnavailable"})}

ScanStatus ==
    KeyStatus \cup RevisionStatus \cup
    {Answered(404, {"ScanNotFound", "ProjectNotFound"}),
     Answered(400, {"InvalidAssetRequest"}), Answered(503, {"StorageUnavailable"})}

NoteStatus ==
    KeyStatus \cup RevisionStatus \cup
    {Answered(404, {"ScanNotFound", "ProjectNotFound", "NoteNotFound"}),
     Answered(409, {"ModelVersionMismatch"})}

\* By router; an error that is not among them is answered 500.
StatusOf ==
    [auth |-> {Answered(401, {"InvalidAppleIdentityToken", "InvalidRefreshToken"}),
               Answered(503, {"AppleIdentityProviderUnavailable"})},
     sync |-> {Answered(400, {"InvalidSyncCursor", "InvalidSyncTimestamp"}),
               Answered(404, {"ProjectNotFound"})},
     project |-> KeyStatus \cup RevisionStatus \cup {Answered(404, {"ProjectNotFound"})},
     scan |-> ScanStatus, asset |-> AssetStatus, note |-> NoteStatus, share |-> ShareStatus,
     sharedProjects |-> {Answered(404, {"ProjectNotFound"}), Answered(403, {"NotSharedProject"}),
                         Answered(409, {"SharedProjectNotInList"})},
     sharedScans |-> {Answered(404, {"ScanNotFound"}), Answered(403, {"NotSharedScan"}),
                      Answered(409, {"SharedScanNotInList"})},
     users |-> {Answered(404, {"UserNotFound"})},
     health |-> {Answered(503, {"ServiceUnavailable"})}]

Known(router) == UNION {answer.errors : answer \in StatusOf[router]}

-----------------------------------------------------------------------------
(* The process and the requests in it. *)

VARIABLES
    hits,       \* of each limiter: the requests counted in its window
    call        \* where each request is

gatewayVars == <<hits, call>>
allVars == <<vars, gatewayVars>>

\* Where a request is: its route, the middleware still before it, the access token it
\* brought, and, once that is verified, its user.
Call == [at : {"idle", "stack", "service"}, route : Routes, left : Seq(Limiters \cup {"auth"}),
         bearer : Tokens \cup {NoToken}, user : Users \cup {NoUser}]

NoCall == [at |-> "idle", route |-> Health, left |-> <<>>, bearer |-> NoToken, user |-> NoUser]

Over(r) == call' = [call EXCEPT ![r] = NoCall]

GatewayInit ==
    /\ Init
    /\ hits = [l \in Limiters |-> 0]
    /\ call = [r \in Requests |-> NoCall]

\* A request comes in, with an access token some client has received or without; only the
\* check of the token reads it.
Bearers(route) ==
    {NoToken} \cup (IF "auth" \in Range(route.before) THEN given ELSE {})

Arrive(r, route, bearer) ==
    /\ call[r].at = "idle"
    /\ call' = [call EXCEPT ![r] =
                   [at |-> "stack", route |-> route, left |-> route.before,
                    bearer |-> bearer, user |-> NoUser]]
    /\ UNCHANGED <<vars, hits>>

Before(r, m) == call[r].at = "stack" /\ call[r].left # <<>> /\ Head(call[r].left) = m

\* Mutant: one request too many gets through.
BugCount(r, l) ==
    /\ Before(r, l)
    /\ IF hits[l] <= Max[l]
       THEN /\ hits' = [hits EXCEPT ![l] = @ + 1]
            /\ call' = [call EXCEPT ![r].left = Tail(@)]
       ELSE Over(r) /\ UNCHANGED hits
    /\ UNCHANGED vars

\* A limiter counts a request, whatever will come of it, or turns it away.
Count(r, l) ==
    /\ Before(r, l)
    /\ IF hits[l] < Max[l]
       THEN /\ hits' = [hits EXCEPT ![l] = @ + 1]
            /\ call' = [call EXCEPT ![r].left = Tail(@)]
       ELSE Over(r) /\ UNCHANGED hits
    /\ UNCHANGED vars

\* Time passes; any of the windows may end, and the next begins with the next request.
Clock ==
    /\ Tick
    /\ \E ended \in SUBSET {l \in Limiters : hits[l] > 0} :
          hits' = [l \in Limiters |-> IF l \in ended THEN 0 ELSE hits[l]]
    /\ UNCHANGED call

\* The access token is verified, and its user looked up.
Authenticate(r) ==
    /\ Before(r, "auth")
    /\ LET t == call[r].bearer IN
       IF t # NoToken /\ AccessValid(t)
       THEN call' = [call EXCEPT ![r].left = Tail(@), ![r].user = token[t].owner,
                                  ![r].bearer = NoToken]
       ELSE Over(r)
    /\ UNCHANGED <<vars, hits>>

AtHandler(r, routes) == call[r].at = "stack" /\ call[r].left = <<>> /\ call[r].route \in routes

Named(name) == {route \in Routes : route.name = name}

\* The handlers of the other modules: they answer, one way or another.
Respond(r) ==
    /\ AtHandler(r, Requested \ AuthRoutes)
    /\ Over(r)
    /\ UNCHANGED <<vars, hits>>

\* The handlers of auth.routes: the token sent is refused, or the service goes to work.
Reject(r) ==
    /\ AtHandler(r, AuthRoutes)
    /\ Over(r)
    /\ UNCHANGED <<vars, hits>>

Enter(r) ==
    /\ \/ AtHandler(r, Named("POST /auth/apple")) /\ \E u \in Signing : SignIn(r, u)
       \/ AtHandler(r, Named("POST /auth/refresh")) /\ \E t \in Tokens : Refresh(r, t)
    /\ call' = [call EXCEPT ![r].at = "service"]
    /\ UNCHANGED hits

Work(r) == Handle(r) /\ UNCHANGED gatewayVars

Leave(r) ==
    /\ call[r].at = "service"
    /\ Answer(r) \/ Refuse(r) \/ Lose(r)
    /\ Over(r)
    /\ UNCHANGED hits

\* The process is gone, and everything it was doing with it.
Crash ==
    /\ hits' = [l \in Limiters |-> 0]
    /\ call' = [r \in Requests |-> NoCall]
    /\ req' = [r \in Requests |-> Idle]
    /\ UNCHANGED <<now, publicId, token, given>>

GatewayNext ==
    \/ \E r \in Requests :
          \/ \E route \in Requested : \E bearer \in Bearers(route) : Arrive(r, route, bearer)
          \/ \E l \in Limiters : Count(r, l)
          \/ Authenticate(r) \/ Respond(r) \/ Reject(r) \/ Enter(r) \/ Work(r) \/ Leave(r)
    \/ Crash
    \/ Clock

GatewaySpec == GatewayInit /\ [][GatewayNext]_allVars

-----------------------------------------------------------------------------
(* Properties. *)

\* The type of every variable.
GatewayTypeOK ==
    /\ SessionsTypeOK
    /\ hits \in [Limiters -> Nat] /\ \A l \in Limiters : hits[l] <= Max[l]
    /\ call \in [Requests -> Call]

\* The routes served stand for all of them here: whichever handler a request has come to,
\* the router has a status for every error the service behind it throws, and no caller is
\* answered 500, as if the server were broken, for what it may do wrong.
NoErrorIsUnknown ==
    \A r \in Requests :
       AtHandler(r, Requested) =>
          \A route \in Routes : route.throws \subseteq Known(route.router)

\* A caller without a valid access token cannot use up what the limiters of single routes
\* leave to others at the same address: they count after the check.
StrangersSpendNothing ==
    [][\A l \in Limiters \ {"api", "appleAuth", "refreshAuth"} :
          hits'[l] > hits[l] => \E r \in Requests : Before(r, l) /\ call[r].user \in Users]_allVars
=============================================================================
