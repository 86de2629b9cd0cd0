----------------------------- MODULE SessionsProofs -----------------------------
(***************************************************************************)
(* Theorems of Sessions, for any users, tokens, requests and lifetimes:    *)
(* every variable keeps its type, a session keeps exactly one live token,  *)
(* tokens are exchanged once (the refinement of SessionLifecycle), and a   *)
(* user's public id is hers for ever.                                      *)
(*                                                                         *)
(* The inductive invariant adds what a request relies on between its       *)
(* statements: the token it has issued is in no row and in no other        *)
(* request, and the one it exchanges is in the table.  Every row goes back *)
(* to the row of a sign-in.                                                *)
(***************************************************************************)
EXTENDS Sessions, TLAPS

\* No public id belongs to two users.
IdsDistinct ==
    \A u, v \in Users : u # v /\ publicId[u] # NoId => publicId[u] # publicId[v]

\* What a request may rely on where it stands.
Sound(r, x) ==
    /\ x \in Request
    /\ x.at \in {"idle", "upsert"} => x.old = NoToken
    /\ x.old # NoToken => Saved(x.old)
    /\ x.at = "rotate" => x.old # NoToken
    /\ x.at \in {"save", "rotate", "answer"} => x.new # NoToken
    /\ x.at \in {"save", "rotate"} => ~Saved(x.new)
    /\ x.new # NoToken => \A q \in Requests \ {r} : req[q].new # x.new

AllSound == \A r \in Requests : Sound(r, req[r])

\* A row goes back to the row of a sign-in, which goes back to itself.
Rooted ==
    \A t \in Tokens : Saved(t) =>
        Saved(token[t].session) /\ token[token[t].session].session = token[t].session

SessionsInv == SessionsTypeOK /\ IdsDistinct /\ AllSound /\ Rooted /\ OneLiveToken

-----------------------------------------------------------------------------
(* Steps that write no token. *)

LEMMA IdleIsSound == ASSUME NEW r PROVE Sound(r, Idle)
<1>1. Someone \in Users
  BY SessionsAssumption DEF Someone
<1>2. Idle \in Request
  BY <1>1 DEF Idle, Request
<1> QED
  BY <1>2 DEF Idle, Sound

\* A request that moves to where it is sound leaves every request sound.
LEMMA QuietRequest ==
  ASSUME SessionsInv, NEW r \in Requests, NEW x, Sound(r, x),
         req' = [req EXCEPT ![r] = x], token' = token
  PROVE  AllSound' /\ req' \in [Requests -> Request]
<1>1. req \in [Requests -> Request] /\ x \in Request
  BY DEF SessionsInv, SessionsTypeOK, Sound
<1>2. req'[r] = x /\ \A q \in Requests \ {r} : req'[q] = req[q]
  BY <1>1
<1>3. ASSUME NEW q \in Requests
      PROVE Sound(q, req[q])'
  <2>1. CASE q = r
    BY <1>2, <2>1 DEF Sound, Saved
  <2>2. CASE q # r
    <3>1. Sound(q, req[q]) /\ req'[q] = req[q]
      BY <1>2, <2>2 DEF SessionsInv, AllSound
    <3>2. req[q].new # NoToken => \A p \in Requests \ {q} : req'[p].new # req[q].new
      BY <1>2, <2>2, <3>1 DEF Sound
    <3> QED
      BY <3>1, <3>2 DEF Sound, Saved
  <2> QED
    BY <2>1, <2>2
<1> QED
  BY <1>1, <1>3 DEF AllSound

LEMMA QuietTokens ==
  ASSUME SessionsInv, token' = token
  PROVE  Rooted' /\ OneLiveToken'
BY DEF SessionsInv, Rooted, OneLiveToken, Saved, Live

\* A step of one request that writes neither the tokens nor the public ids.
LEMMA QuietStep ==
  ASSUME SessionsInv, NEW r \in Requests, NEW x, Sound(r, x),
         req' = [req EXCEPT ![r] = x], token' = token, publicId' = publicId, now' = now,
         given' \subseteq Tokens
  PROVE  SessionsInv'
<1>1. AllSound' /\ req' \in [Requests -> Request]
  BY QuietRequest
<1>2. Rooted' /\ OneLiveToken'
  BY QuietTokens
<1>3. SessionsTypeOK' /\ IdsDistinct'
  BY <1>1 DEF SessionsInv, SessionsTypeOK, IdsDistinct
<1> QED
  BY <1>1, <1>2, <1>3 DEF SessionsInv

\* A request that has its answer, or loses it.
LEMMA DoneKeeps ==
  ASSUME SessionsInv, NEW r \in Requests, Done(r), token' = token, publicId' = publicId,
         now' = now, given' \subseteq Tokens
  PROVE  SessionsInv'
BY IdleIsSound, QuietStep DEF Done

\* Where a request was, for the steps below.
LEMMA Where ==
  ASSUME SessionsInv, NEW r \in Requests
  PROVE  Sound(r, req[r]) /\ req[r] \in Request /\ req \in [Requests -> Request]
BY DEF SessionsInv, SessionsTypeOK, AllSound

LEMMA MovedRequest ==
  ASSUME NEW y \in Request, NEW where \in {"idle", "upsert", "issue", "save", "rotate", "answer"}
  PROVE  LET x == [y EXCEPT !.at = where]
         IN  /\ x \in Request /\ x.at = where /\ x.user = y.user /\ x.old = y.old
             /\ x.new = y.new /\ x.issued = y.issued /\ x.tries = y.tries
BY DEF Request

-----------------------------------------------------------------------------
(* The invariant. *)

LEMMA InvInit == Init => SessionsInv
<1> SUFFICES ASSUME Init PROVE SessionsInv
  OBVIOUS
<1>1. Someone \in Users
  BY SessionsAssumption DEF Someone
<1>2. Idle \in Request
  BY <1>1 DEF Idle, Request
<1>3. SessionsTypeOK
  BY <1>1, <1>2 DEF Init, SessionsTypeOK, Row
<1>4. IdsDistinct
  BY DEF Init, IdsDistinct
<1>5. AllSound
  BY IdleIsSound DEF Init, AllSound
<1>6. Rooted /\ OneLiveToken
  BY DEF Init, Rooted, OneLiveToken, Saved
<1> QED
  BY <1>3, <1>4, <1>5, <1>6 DEF SessionsInv

LEMMA SignInKeeps ==
  ASSUME SessionsInv, NEW r \in Requests, NEW u \in Users, SignIn(r, u)
  PROVE  SessionsInv'
<1> DEFINE x == [req[r] EXCEPT !.at = "upsert", !.user = u, !.tries = 1]
<1>1. Sound(r, req[r]) /\ req[r] \in Request /\ req \in [Requests -> Request]
  BY Where
<1>2. /\ x \in Request /\ x.at = "upsert" /\ x.old = req[r].old /\ x.new = req[r].new
  BY <1>1 DEF Request
<1>3. req' = [req EXCEPT ![r] = x]
  BY <1>1 DEF SignIn
<1>4. req[r].at = "idle" /\ token' = token /\ publicId' = publicId /\ now' = now /\ given' = given
  BY DEF SignIn, Busy, At
<1> HIDE DEF x
<1>5. Sound(r, x)
  BY <1>1, <1>2, <1>4 DEF Sound
<1> QED
  BY <1>3, <1>4, <1>5, QuietStep DEF SessionsInv, SessionsTypeOK

\* A user who has a public id keeps it, and a new one gets an id that is nobody's.
LEMMA UpsertIds ==
  ASSUME SessionsInv, NEW r \in Requests, Upsert(r)
  PROVE  /\ publicId' \in [Users -> PublicIds \cup {NoId}]
         /\ IdsDistinct'
         /\ \A u \in Users : publicId[u] # NoId => publicId'[u] = publicId[u]
<1> DEFINE u == req[r].user
<1>1. u \in Users
  BY Where DEF Request
<1>2. publicId \in [Users -> PublicIds \cup {NoId}] /\ IdsDistinct
  BY DEF SessionsInv, SessionsTypeOK
<1>3. PICK id \in PublicIds : /\ publicId[u] = NoId => ~Taken(id)
                              /\ publicId' = [publicId EXCEPT ![u] = Drawn(u, id)]
  BY DEF Upsert
<1>4. CASE publicId[u] # NoId
  <2>1. publicId' = publicId
    BY <1>1, <1>2, <1>3, <1>4 DEF Drawn
  <2> QED
    BY <1>2, <2>1 DEF IdsDistinct
<1>5. CASE publicId[u] = NoId
  <2>1. publicId' = [publicId EXCEPT ![u] = id] /\ \A v \in Users : publicId[v] # id
    BY <1>3, <1>5 DEF Drawn, Taken
  <2>2. publicId'[u] = id /\ \A v \in Users \ {u} : publicId'[v] = publicId[v]
    BY <1>1, <1>2, <2>1
  <2>3. publicId' \in [Users -> PublicIds \cup {NoId}]
    BY <1>1, <1>2, <2>1
  <2>4. IdsDistinct'
    BY <1>2, <2>1, <2>2 DEF IdsDistinct
  <2> QED
    BY <1>5, <2>2, <2>3, <2>4
<1> QED
  BY <1>4, <1>5

LEMMA UpsertKeeps ==
  ASSUME SessionsInv, NEW r \in Requests, Upsert(r)
  PROVE  SessionsInv'
<1> DEFINE x == [req[r] EXCEPT !.at = "issue"]
<1>1. Sound(r, req[r]) /\ req[r] \in Request
  BY Where
<1>2. x \in Request /\ x.at = "issue" /\ x.old = req[r].old /\ x.new = req[r].new
  BY <1>1, MovedRequest
<1>3. req' = [req EXCEPT ![r] = x] /\ token' = token /\ now' = now /\ given' = given
  BY DEF Upsert, Go
<1> HIDE DEF x
<1>4. Sound(r, x)
  BY <1>1, <1>2 DEF Sound
<1>5. AllSound' /\ req' \in [Requests -> Request]
  BY <1>3, <1>4, QuietRequest
<1>6. Rooted' /\ OneLiveToken'
  BY <1>3, QuietTokens
<1>7. SessionsTypeOK' /\ IdsDistinct'
  BY <1>3, <1>5, UpsertIds DEF SessionsInv, SessionsTypeOK
<1> QED
  BY <1>5, <1>6, <1>7 DEF SessionsInv

LEMMA CollideKeeps ==
  ASSUME SessionsInv, NEW r \in Requests, Collide(r)
  PROVE  SessionsInv'
<1>1. Sound(r, req[r]) /\ req[r] \in Request
  BY Where
<1>2. token' = token /\ publicId' = publicId /\ now' = now /\ given' = given /\ given \subseteq Tokens
  BY DEF Collide, SessionsInv, SessionsTypeOK
<1>3. CASE Done(r)
  BY <1>2, <1>3, DoneKeeps
<1>4. CASE req' = [req EXCEPT ![r].tries = @ + 1]
  <2> DEFINE x == [req[r] EXCEPT !.tries = req[r].tries + 1]
  <2>1. req[r].tries + 1 \in Nat
    BY <1>1 DEF Request
  <2>2. x \in Request /\ x.at = req[r].at /\ x.old = req[r].old /\ x.new = req[r].new
    BY <1>1, <2>1 DEF Request
  <2>3. req' = [req EXCEPT ![r] = x]
    BY <1>4
  <2> HIDE DEF x
  <2>4. Sound(r, x)
    BY <1>1, <2>2 DEF Sound
  <2> QED
    BY <1>2, <2>3, <2>4, QuietStep
<1> QED
  BY <1>3, <1>4 DEF Collide

\* A pair is issued under a jti that no row and no other request has.
LEMMA IssueKeeps ==
  ASSUME SessionsInv, NEW r \in Requests, NEW t \in Tokens, Issue(r, t)
  PROVE  SessionsInv'
<1> DEFINE where == IF req[r].old = NoToken THEN "save" ELSE "rotate"
           x == [req[r] EXCEPT !.at = where, !.new = t, !.issued = now]
<1>1. Sound(r, req[r]) /\ req[r] \in Request /\ now \in Nat
  BY Where DEF SessionsInv, SessionsTypeOK
<1>2. /\ x \in Request /\ x.at = where /\ x.old = req[r].old /\ x.new = t
      /\ where \in {"save", "rotate"}
  BY <1>1 DEF Request
<1>3. /\ req' = [req EXCEPT ![r] = x]
      /\ token' = token /\ publicId' = publicId /\ now' = now /\ given' = given
  BY DEF Issue
<1>4. ~Saved(t) /\ \A q \in Requests : req[q].new # t
  BY DEF Issue, Fresh
<1>5. t # NoToken
  BY SessionsAssumption
<1>6. where = "rotate" => req[r].old # NoToken
  OBVIOUS
<1> HIDE DEF x, where
<1>7. Sound(r, x)
  BY <1>1, <1>2, <1>4, <1>5, <1>6 DEF Sound
<1> QED
  BY <1>3, <1>7, QuietStep DEF SessionsInv, SessionsTypeOK

LEMMA RefreshKeeps ==
  ASSUME SessionsInv, NEW r \in Requests, NEW t \in Tokens, Refresh(r, t)
  PROVE  SessionsInv'
<1> DEFINE x == [req[r] EXCEPT !.at = "issue", !.user = token[t].owner, !.old = t]
<1>1. Sound(r, req[r]) /\ req[r] \in Request
  BY Where
<1>2. token[t].owner \in Users
  BY DEF SessionsInv, SessionsTypeOK, Row
<1>3. x \in Request /\ x.at = "issue" /\ x.old = t /\ x.new = req[r].new
  BY <1>1, <1>2 DEF Request
<1>4. /\ req' = [req EXCEPT ![r] = x]
      /\ token' = token /\ publicId' = publicId /\ now' = now /\ given' = given
  BY DEF Refresh
<1>5. Saved(t)
  BY DEF Refresh, RefreshValid
<1> HIDE DEF x
<1>6. Sound(r, x)
  BY <1>1, <1>3, <1>5 DEF Sound
<1> QED
  BY <1>4, <1>6, QuietStep DEF SessionsInv, SessionsTypeOK

\* A request that has written the token it issued, with every other row left or spent.
LEMMA WrittenRequest ==
  ASSUME SessionsInv, NEW r \in Requests, req[r].at \in {"save", "rotate"}, Go(r, "answer"),
         NEW n, n = req[r].new,
         \A t \in Tokens \ {n} : token'[t].state # "none" <=> token[t].state # "none",
         token'[n].state = "live"
  PROVE  AllSound' /\ req' \in [Requests -> Request]
<1> DEFINE x == [req[r] EXCEPT !.at = "answer"]
<1>1. Sound(r, req[r]) /\ req[r] \in Request /\ req \in [Requests -> Request]
  BY Where
<1>2. /\ x \in Request /\ x.at = "answer" /\ x.old = req[r].old /\ x.new = req[r].new
  BY <1>1, MovedRequest
<1>3. req' = [req EXCEPT ![r] = x]
  BY DEF Go
<1> HIDE DEF x
<1>4. req'[r] = x /\ \A q \in Requests \ {r} : req'[q] = req[q]
  BY <1>1, <1>3
<1>5. n # NoToken /\ \A q \in Requests \ {r} : req[q].new # n
  BY <1>1 DEF Sound
<1>6. \A q \in Requests : req[q].old \in Tokens \cup {NoToken}
                           /\ req[q].new \in Tokens \cup {NoToken}
  BY <1>1 DEF Request
<1>7. \A t \in Tokens : Saved(t) => Saved(t)'
  BY DEF Saved
<1>8. \A t \in Tokens \ {n} : ~Saved(t) => ~Saved(t)'
  BY DEF Saved
<1>9. ASSUME NEW q \in Requests
      PROVE Sound(q, req[q])'
  <2>1. CASE q = r
    <3>1. /\ req'[q] \in Request /\ req'[q].at = "answer"
          /\ req'[q].old = req[r].old /\ req'[q].new = n
      BY <1>2, <1>4, <2>1
    <3>2. req'[q].old # NoToken => token'[req'[q].old].state # "none"
      BY <1>1, <1>6, <1>7, <3>1 DEF Sound, Saved
    <3>3. \A p \in Requests \ {q} : req'[p].new # n
      BY <1>4, <1>5, <2>1
    <3> QED
      BY <1>5, <3>1, <3>2, <3>3 DEF Sound, Saved
  <2>2. CASE q # r
    <3>1. Sound(q, req[q]) /\ req'[q] = req[q]
      BY <1>4, <2>2 DEF SessionsInv, AllSound
    <3>2. req[q].new # NoToken => \A p \in Requests \ {q} : req'[p].new # req[q].new
      BY <1>2, <1>4, <2>2, <3>1 DEF Sound
    <3>3. req[q].old # NoToken => Saved(req[q].old)'
      BY <1>6, <1>7, <3>1 DEF Sound
    <3>4. req[q].at \in {"save", "rotate"} => ~Saved(req[q].new)'
      BY <1>5, <1>6, <1>8, <2>2, <3>1 DEF Sound
    <3>5. /\ req[q] \in Request
          /\ req[q].at \in {"idle", "upsert"} => req[q].old = NoToken
          /\ req[q].at = "rotate" => req[q].old # NoToken
          /\ req[q].at \in {"save", "rotate", "answer"} => req[q].new # NoToken
      BY <3>1 DEF Sound
    <3> QED
      BY <3>1, <3>2, <3>3, <3>4, <3>5 DEF Sound, Saved
  <2> QED
    BY <2>1, <2>2
<1>10. req' \in [Requests -> Request]
  BY <1>1, <1>2, <1>3
<1> QED
  BY <1>9, <1>10 DEF AllSound

\* The row a request writes.
LEMMA RowWritten ==
  ASSUME SessionsInv, NEW r \in Requests, NEW s \in Tokens
  PROVE  /\ NewRow(r, s) \in Row /\ NewRow(r, s).state = "live" /\ NewRow(r, s).session = s
         /\ token \in [Tokens -> Row]
<1>1. req[r] \in Request
  BY Where
<1>2. req[r].user \in Users /\ req[r].issued \in Nat
  BY <1>1 DEF Request
<1> QED
  BY <1>2 DEF NewRow, Row, SessionsInv, SessionsTypeOK

\* What a sign-in writes: the first token of a session of its own.
LEMMA SaveTokenRows ==
  ASSUME SessionsInv, NEW r \in Requests, SaveToken(r), NEW n, n = req[r].new
  PROVE  /\ n \in Tokens /\ ~Saved(n)
         /\ token' \in [Tokens -> Row]
         /\ token'[n].state = "live" /\ token'[n].session = n
         /\ \A t \in Tokens \ {n} : token'[t] = token[t]
<1>1. Sound(r, req[r]) /\ req[r] \in Request /\ req[r].at = "save"
  BY Where DEF SaveToken, At
<1>2. n \in Tokens /\ ~Saved(n)
  BY <1>1 DEF Sound, Request
<1>3. /\ NewRow(r, n) \in Row /\ NewRow(r, n).state = "live" /\ NewRow(r, n).session = n
      /\ token \in [Tokens -> Row]
  BY <1>2, RowWritten
<1>4. token' = [token EXCEPT ![n] = NewRow(r, n)]
  BY DEF SaveToken
<1> QED
  BY <1>2, <1>3, <1>4

LEMMA SaveTokenKeeps ==
  ASSUME SessionsInv, NEW r \in Requests, SaveToken(r)
  PROVE  SessionsInv'
<1> DEFINE n == req[r].new
<1>1. /\ n \in Tokens /\ ~Saved(n) /\ token' \in [Tokens -> Row]
      /\ token'[n].state = "live" /\ token'[n].session = n
      /\ \A t \in Tokens \ {n} : token'[t] = token[t]
  BY SaveTokenRows
<1>2. req[r].at = "save" /\ Go(r, "answer") /\ now' = now /\ publicId' = publicId /\ given' = given
  BY DEF SaveToken, At
<1> HIDE DEF n
<1>3. AllSound' /\ req' \in [Requests -> Request]
  BY <1>1, <1>2, WrittenRequest DEF n
<1>4. SessionsTypeOK' /\ IdsDistinct'
  BY <1>1, <1>2, <1>3 DEF SessionsInv, SessionsTypeOK, IdsDistinct
<1>5. \A t \in Tokens \ {n} :
          /\ token'[t] = token[t]
          /\ Saved(t) => token[t].session # n /\ token[t].session \in Tokens
  BY <1>1 DEF SessionsInv, Rooted, SessionsTypeOK, Row
<1>6. Rooted'
  BY <1>1, <1>5 DEF SessionsInv, Rooted, Saved
<1>7. OneLiveToken'
  <2> SUFFICES ASSUME NEW s \in Tokens, token'[s].state # "none", token'[s].session = s
               PROVE \E t \in Tokens :
                        /\ token'[t].state = "live" /\ token'[t].session = s
                        /\ \A u \in Tokens :
                              token'[u].state = "live" /\ token'[u].session = s => u = t
    BY DEF OneLiveToken, Saved, Live
  <2>1. CASE s = n
    BY <1>1, <1>5, <2>1 DEF Saved
  <2>2. CASE s # n
    <3>1. Saved(s) /\ token[s].session = s
      BY <1>5, <2>2 DEF Saved
    <3>2. PICK t \in Tokens :
             /\ Live(t) /\ token[t].session = s
             /\ \A u \in Tokens : Live(u) /\ token[u].session = s => u = t
      BY <3>1 DEF SessionsInv, OneLiveToken
    <3>3. t # n
      BY <1>1, <3>2 DEF Live, Saved
    <3> QED
      BY <1>1, <2>2, <3>2, <3>3 DEF Live
  <2> QED
    BY <2>1, <2>2
<1> QED
  BY <1>3, <1>4, <1>6, <1>7 DEF SessionsInv

\* What an exchange writes: the old token is spent, the new one goes on with its session.
LEMMA RotateRows ==
  ASSUME SessionsInv, NEW r \in Requests, Rotate(r), NEW n, n = req[r].new, NEW o, o = req[r].old
  PROVE  /\ n \in Tokens /\ ~Saved(n) /\ o \in Tokens /\ Live(o) /\ n # o
         /\ token' \in [Tokens -> Row]
         /\ token'[n].state = "live" /\ token'[n].session = token[o].session
         /\ token'[o].state = "revoked" /\ token'[o].session = token[o].session
         /\ \A t \in Tokens \ {n, o} : token'[t] = token[t]
<1>1. Sound(r, req[r]) /\ req[r] \in Request /\ req[r].at = "rotate"
  BY Where DEF Rotate, At
<1>2. n \in Tokens /\ ~Saved(n) /\ o \in Tokens
  BY <1>1 DEF Sound, Request
<1>3. Live(o) /\ n # o
  BY <1>2 DEF Rotate, Rotatable, Live, Saved
<1>4. token \in [Tokens -> Row] /\ token[o] \in Row /\ token[o].session \in Tokens
  BY <1>2 DEF SessionsInv, SessionsTypeOK, Row
<1> DEFINE w == NewRow(r, token[o].session)
           y == [token[o] EXCEPT !.state = "revoked"]
<1>5. w \in Row /\ w.state = "live" /\ w.session = token[o].session
  BY <1>4, RowWritten
<1>6. y \in Row /\ y.state = "revoked" /\ y.session = token[o].session
  BY <1>4 DEF Row
<1>7. token' = [token EXCEPT ![o] = y, ![n] = w]
  BY DEF Rotate, Rotated
<1> HIDE DEF w, y
<1> QED
  BY <1>2, <1>3, <1>4, <1>5, <1>6, <1>7

LEMMA RotateKeeps ==
  ASSUME SessionsInv, NEW r \in Requests, Rotate(r)
  PROVE  SessionsInv'
<1> DEFINE n == req[r].new
           o == req[r].old
           s0 == token[o].session
<1>1. /\ n \in Tokens /\ ~Saved(n) /\ o \in Tokens /\ Live(o) /\ n # o
      /\ token' \in [Tokens -> Row]
      /\ token'[n].state = "live" /\ token'[n].session = s0
      /\ token'[o].state = "revoked" /\ token'[o].session = s0
      /\ \A t \in Tokens \ {n, o} : token'[t] = token[t]
  BY RotateRows
<1>2. req[r].at = "rotate" /\ Go(r, "answer") /\ now' = now /\ publicId' = publicId /\ given' = given
  BY DEF Rotate, At
<1> HIDE DEF n, o
<1>3. \A t \in Tokens \ {n} : /\ token'[t].state # "none" <=> token[t].state # "none"
                              /\ token'[t].session = token[t].session
  BY <1>1 DEF Live
<1>4. AllSound' /\ req' \in [Requests -> Request]
  BY <1>1, <1>2, <1>3, WrittenRequest DEF n
<1>5. SessionsTypeOK' /\ IdsDistinct'
  BY <1>1, <1>2, <1>4 DEF SessionsInv, SessionsTypeOK, IdsDistinct
<1>6. \A t \in Tokens : Saved(t) =>
          /\ token[t].session \in Tokens \ {n} /\ Saved(token[t].session)
          /\ token[token[t].session].session = token[t].session
  BY <1>1 DEF SessionsInv, Rooted, SessionsTypeOK, Row
<1>7. Saved(o)
  BY <1>1 DEF Live, Saved
<1>8. s0 \in Tokens \ {n} /\ Saved(s0) /\ token[s0].session = s0
  BY <1>1, <1>6, <1>7
<1> HIDE DEF s0
<1>9. Rooted'
  <2> SUFFICES ASSUME NEW t \in Tokens, token'[t].state # "none"
               PROVE /\ token'[token'[t].session].state # "none"
                     /\ token'[token'[t].session].session = token'[t].session
    BY DEF Rooted, Saved
  <2>1. CASE t = n
    BY <1>1, <1>3, <1>8, <2>1 DEF Saved
  <2>2. CASE t # n
    <3>1. Saved(t) /\ token'[t].session = token[t].session
      BY <1>3, <2>2 DEF Saved
    <3> QED
      BY <1>3, <1>6, <3>1 DEF Saved
  <2> QED
    BY <2>1, <2>2
<1>10. \A u \in Tokens : Live(u) /\ token[u].session = s0 => u = o
  BY <1>1, <1>8 DEF SessionsInv, OneLiveToken, s0
<1>11. OneLiveToken'
  <2> SUFFICES ASSUME NEW s \in Tokens, token'[s].state # "none", token'[s].session = s
               PROVE \E t \in Tokens :
                        /\ token'[t].state = "live" /\ token'[t].session = s
                        /\ \A u \in Tokens :
                              token'[u].state = "live" /\ token'[u].session = s => u = t
    BY DEF OneLiveToken, Saved, Live
  <2>1. CASE s = s0
    <3>1. \A u \in Tokens : token'[u].state = "live" /\ token'[u].session = s => u = n
      BY <1>1, <1>10, <2>1 DEF Live
    <3> QED
      BY <1>1, <2>1, <3>1
  <2>2. CASE s # s0
    <3>1. s # n /\ s # o
      BY <1>1, <2>2
    <3>2. Saved(s) /\ token[s].session = s
      BY <1>1, <3>1 DEF Saved
    <3>3. PICK t \in Tokens :
             /\ Live(t) /\ token[t].session = s
             /\ \A u \in Tokens : Live(u) /\ token[u].session = s => u = t
      BY <3>2 DEF SessionsInv, OneLiveToken
    <3>4. t # n /\ t # o
      BY <1>1, <2>2, <3>3 DEF Live, Saved, s0
    <3> QED
      BY <1>1, <2>2, <3>3, <3>4 DEF Live
  <2> QED
    BY <2>1, <2>2
<1> QED
  BY <1>4, <1>5, <1>9, <1>11 DEF SessionsInv

\* The client gets the new token, or the request ends without.
LEMMA EndKeeps ==
  ASSUME SessionsInv, NEW r \in Requests, Answer(r) \/ Refuse(r) \/ Lose(r)
  PROVE  SessionsInv'
<1>1. CASE Answer(r)
  <2>1. Sound(r, req[r]) /\ req[r] \in Request
    BY Where
  <2>2. token' = token /\ publicId' = publicId /\ now' = now /\ Done(r)
    BY <1>1 DEF Answer
  <2>3. CASE req[r].new \in Tokens
    <3>1. given' \subseteq Tokens
      BY <1>1, <2>3 DEF Answer, SessionsInv, SessionsTypeOK
    <3> QED
      BY <2>2, <3>1, DoneKeeps
  <2>4. CASE req[r].new = NoToken
    BY <1>1, <2>1, <2>4 DEF Answer, At, Sound
  <2> QED
    BY <2>1, <2>3, <2>4 DEF Request
<1>2. CASE Refuse(r) \/ Lose(r)
  BY <1>2, DoneKeeps DEF Refuse, Lose, SessionsInv, SessionsTypeOK
<1> QED
  BY <1>1, <1>2

LEMMA StillKeeps ==
  ASSUME SessionsInv, Tick \/ UNCHANGED vars
  PROVE  SessionsInv'
<1>1. /\ token' = token /\ publicId' = publicId /\ given' = given /\ req' = req
  BY DEF Tick, vars
<1>2. now' \in Nat
  BY DEF Tick, vars, SessionsInv, SessionsTypeOK
<1>3. SessionsTypeOK' /\ IdsDistinct'
  BY <1>1, <1>2 DEF SessionsInv, SessionsTypeOK, IdsDistinct
<1>4. AllSound'
  BY <1>1 DEF SessionsInv, AllSound, Sound, Saved
<1>5. Rooted' /\ OneLiveToken'
  BY <1>1, QuietTokens
<1> QED
  BY <1>3, <1>4, <1>5 DEF SessionsInv

LEMMA InvNext == SessionsInv /\ [Next]_vars => SessionsInv'
<1> SUFFICES ASSUME SessionsInv, [Next]_vars PROVE SessionsInv'
  OBVIOUS
<1>1. ASSUME NEW r \in Requests, Handle(r)
      PROVE SessionsInv'
  BY <1>1, UpsertKeeps, CollideKeeps, SaveTokenKeeps, RotateKeeps, IssueKeeps DEF Handle
<1>2. ASSUME NEW r \in Requests, NEW u \in Signing, SignIn(r, u)
      PROVE SessionsInv'
  BY <1>2, SignInKeeps, SessionsAssumption
<1>3. ASSUME NEW r \in Requests, NEW t \in Tokens, Refresh(r, t)
      PROVE SessionsInv'
  BY <1>3, RefreshKeeps
<1>4. ASSUME NEW r \in Requests, Answer(r) \/ Refuse(r) \/ Lose(r)
      PROVE SessionsInv'
  BY <1>4, EndKeeps
<1>5. CASE Tick \/ UNCHANGED vars
  BY <1>5, StillKeeps
<1> QED
  BY <1>1, <1>2, <1>3, <1>4, <1>5 DEF Next

-----------------------------------------------------------------------------
(* The refinement. *)

\* The head of a session is its live token, and there is at most one.
HeadsRight ==
    \A s \in Tokens :
       /\ \A t \in Tokens : Live(t) /\ token[t].session = s => HeadOf(s) = t
       /\ HeadOf(s) # NoToken =>
             \E t \in Tokens : Live(t) /\ token[t].session = s /\ HeadOf(s) = t

LEMMA Heads == SessionsInv => HeadsRight
<1> SUFFICES ASSUME SessionsInv, NEW s \in Tokens
             PROVE /\ \A t \in Tokens : Live(t) /\ token[t].session = s => HeadOf(s) = t
                   /\ HeadOf(s) # NoToken =>
                        \E t \in Tokens : Live(t) /\ token[t].session = s /\ HeadOf(s) = t
  BY DEF HeadsRight
<1>1. ASSUME NEW t \in Tokens, NEW u \in Tokens,
             Live(t), Live(u), token[t].session = s, token[u].session = s
      PROVE t = u
  <2>1. Saved(s) /\ token[s].session = s
    BY <1>1 DEF SessionsInv, Rooted, Live, Saved
  <2> QED
    BY <1>1, <2>1 DEF SessionsInv, OneLiveToken
<1>2. CASE \E t \in Tokens : Live(t) /\ token[t].session = s
  <2>1. HeadOf(s) = CHOOSE t \in Tokens : Live(t) /\ token[t].session = s
    BY <1>2 DEF HeadOf
  <2>2. HeadOf(s) \in Tokens /\ Live(HeadOf(s)) /\ token[HeadOf(s)].session = s
    BY <1>2, <2>1
  <2> QED
    BY <1>1, <1>2, <2>2
<1>3. CASE \A t \in Tokens : ~(Live(t) /\ token[t].session = s)
  <2>1. HeadOf(s) = NoToken
    BY <1>3 DEF HeadOf
  <2> QED
    BY <1>3, <2>1
<1> QED
  BY <1>2, <1>3

\* A session whose live tokens are the same has the same head.
LEMMA HeadStays ==
  ASSUME HeadsRight, HeadsRight', NEW s \in Tokens,
         \A t \in Tokens : Live(t)' /\ token'[t].session = s <=> Live(t) /\ token[t].session = s
  PROVE  HeadOf(s)' = HeadOf(s)
<1>1. \A t \in Tokens : t # NoToken
  BY SessionsAssumption
<1>2. CASE \E t \in Tokens : Live(t) /\ token[t].session = s
  BY <1>2 DEF HeadsRight
<1>3. CASE \A t \in Tokens : ~(Live(t) /\ token[t].session = s)
  <2>1. HeadOf(s) = NoToken
    BY <1>3 DEF HeadsRight
  <2>2. HeadOf(s)' = NoToken
    BY <1>3 DEF HeadsRight
  <2> QED
    BY <2>1, <2>2
<1> QED
  BY <1>2, <1>3

\* A head is in the table and not spent.
LEMMA UnusedIfNotSaved ==
  ASSUME HeadsRight, NEW t \in Tokens, ~Saved(t)
  PROVE  t \notin Lifecycle!Used
<1>1. \A s \in Tokens : HeadOf(s) # t
  BY SessionsAssumption DEF HeadsRight, Live, Saved
<1>2. t \notin {u \in Tokens : token[u].state = "revoked"}
  BY DEF Saved
<1> QED
  BY <1>1, <1>2 DEF Lifecycle!Used

\* A sign-in begins a session.
LEMMA SaveTokenImplements ==
  ASSUME SessionsInv, HeadsRight, HeadsRight', NEW r \in Requests, SaveToken(r)
  PROVE  Lifecycle!Next
<1>0. PICK n \in Tokens : n = req[r].new
  BY SaveTokenRows
<1>1. /\ n \in Tokens /\ ~Saved(n)
      /\ token'[n].state = "live" /\ token'[n].session = n
      /\ \A t \in Tokens \ {n} : token'[t] = token[t]
  BY <1>0, SaveTokenRows
<1>2. \A t \in Tokens : Live(t) => t # n /\ token[t].session # n
  BY <1>1 DEF SessionsInv, Rooted, Live, Saved
<1>3. HeadOf(n) = NoToken
  BY <1>1, <1>2 DEF HeadsRight
<1>4. HeadOf(n)' = n
  BY <1>1 DEF HeadsRight, Live
<1>5. ASSUME NEW s \in Tokens \ {n}
      PROVE HeadOf(s)' = HeadOf(s)
  <2>1. \A t \in Tokens :
            Live(t)' /\ token'[t].session = s <=> Live(t) /\ token[t].session = s
    BY <1>1, <1>2 DEF Live
  <2> QED
    BY <2>1, HeadStays
<1>6. n \notin Lifecycle!Used
  BY <1>1, UnusedIfNotSaved
<1>7. [s \in Tokens |-> HeadOf(s)]' = [[s \in Tokens |-> HeadOf(s)] EXCEPT ![n] = n]
  BY <1>1, <1>4, <1>5
<1>8. {t \in Tokens : token[t].state = "revoked"}' = {t \in Tokens : token[t].state = "revoked"}
  BY <1>1 DEF Saved
<1>9. Lifecycle!SignIn(n)
  BY <1>1, <1>3, <1>6, <1>7, <1>8 DEF Lifecycle!SignIn
<1> QED
  BY <1>1, <1>9 DEF Lifecycle!Next

\* A refresh exchanges the head of the session for a new one.
LEMMA RotateImplements ==
  ASSUME SessionsInv, HeadsRight, HeadsRight', NEW r \in Requests, Rotate(r)
  PROVE  Lifecycle!Next
<1>0. PICK n \in Tokens, o \in Tokens, s0 \in Tokens :
         n = req[r].new /\ o = req[r].old /\ s0 = token[o].session
  <2>1. req[r].new \in Tokens /\ req[r].old \in Tokens
    BY RotateRows
  <2>2. token[req[r].old].session \in Tokens
    BY <2>1 DEF SessionsInv, SessionsTypeOK, Row
  <2> QED
    BY <2>1, <2>2
<1>1. /\ n \in Tokens /\ ~Saved(n) /\ o \in Tokens /\ Live(o) /\ n # o
      /\ token'[n].state = "live" /\ token'[n].session = s0
      /\ token'[o].state = "revoked" /\ token'[o].session = s0
      /\ \A t \in Tokens \ {n, o} : token'[t] = token[t]
  BY <1>0, RotateRows
<1>2. s0 \in Tokens
  OBVIOUS
<1>3. HeadOf(s0) = o
  BY <1>0, <1>1 DEF HeadsRight
<1>4. token[o].session = s0
  BY <1>0
<1>5. HeadOf(s0)' = n
  BY <1>1, <1>2 DEF HeadsRight, Live
<1>6. ASSUME NEW s \in Tokens \ {s0}
      PROVE HeadOf(s)' = HeadOf(s)
  <2>1. \A t \in Tokens :
            Live(t)' /\ token'[t].session = s <=> Live(t) /\ token[t].session = s
    BY <1>1, <1>4 DEF Live, Saved
  <2> QED
    BY <2>1, HeadStays
<1>7. n \in Tokens \ Lifecycle!Used
  BY <1>1, UnusedIfNotSaved
<1>8. [s \in Tokens |-> HeadOf(s)]' = [[s \in Tokens |-> HeadOf(s)] EXCEPT ![s0] = n]
  BY <1>2, <1>5, <1>6
<1>9. {t \in Tokens : token[t].state = "revoked"}'
         = {t \in Tokens : token[t].state = "revoked"} \cup {o}
  BY <1>1 DEF Saved
<1>10. o # NoToken
  BY <1>1, SessionsAssumption
<1>11. Lifecycle!Exchange(s0)
  BY <1>2, <1>3, <1>7, <1>8, <1>9, <1>10 DEF Lifecycle!Exchange
<1> QED
  BY <1>2, <1>11 DEF Lifecycle!Next

\* Every other step writes no token.
LEMMA StepImplements ==
  ASSUME SessionsInv, HeadsRight, HeadsRight', [Next]_vars
  PROVE  [Lifecycle!Next]_<<[s \in Tokens |-> HeadOf(s)],
                            {t \in Tokens : token[t].state = "revoked"}>>
<1>1. CASE token' = token
  <2>1. \A s \in Tokens : HeadOf(s)' = HeadOf(s)
    BY <1>1, HeadStays DEF Live
  <2> QED
    BY <1>1, <2>1
<1>2. ASSUME NEW r \in Requests, SaveToken(r) \/ Rotate(r)
      PROVE Lifecycle!Next
  BY <1>2, SaveTokenImplements, RotateImplements
<1>3. ASSUME NEW r \in Requests, Handle(r), ~SaveToken(r), ~Rotate(r)
      PROVE token' = token
  BY <1>3 DEF Handle, Upsert, Collide, Issue
<1>4. ASSUME NEW r \in Requests, Answer(r) \/ Refuse(r) \/ Lose(r)
      PROVE token' = token
  BY <1>4 DEF Answer, Refuse, Lose
<1>5. ASSUME NEW r \in Requests, NEW t, Refresh(r, t) \/ SignIn(r, t)
      PROVE token' = token
  BY <1>5 DEF Refresh, SignIn
<1>6. CASE Tick \/ UNCHANGED vars
  <2>1. token' = token
    BY <1>6 DEF Tick, vars
  <2> QED
    BY <1>1, <2>1
<1> QED
  BY <1>1, <1>2, <1>3, <1>4, <1>5, <1>6 DEF Next

LEMMA InitImplements == Init => Lifecycle!Init
<1> SUFFICES ASSUME Init PROVE Lifecycle!Init
  OBVIOUS
<1>1. \A t \in Tokens : token[t].state = "none"
  BY DEF Init
<1>2. \A s \in Tokens : HeadOf(s) = NoToken
  BY <1>1 DEF HeadOf, Live
<1>3. {t \in Tokens : token[t].state = "revoked"} = {}
  BY <1>1
<1> QED
  BY <1>2, <1>3 DEF Lifecycle!Init, Lifecycle!Headless

\* Only an upsert writes a public id.
LEMMA StepIds ==
  ASSUME SessionsInv, SessionsInv', [Next]_vars
  PROVE  [\A u \in Users :
            /\ publicId[u] # NoId => publicId'[u] = publicId[u]
            /\ \A v \in Users \ {u} : publicId'[u] # NoId => publicId'[u] # publicId'[v]]_publicId
<1> SUFFICES ASSUME publicId' # publicId
             PROVE \A u \in Users :
                      /\ publicId[u] # NoId => publicId'[u] = publicId[u]
                      /\ \A v \in Users \ {u} :
                            publicId'[u] # NoId => publicId'[u] # publicId'[v]
  OBVIOUS
<1>1. \E r \in Requests : Upsert(r)
  BY DEF Next, Handle, SignIn, Refresh, Refuse, Answer, Lose, Collide, SaveToken, Rotate,
         Issue, Tick, vars
<1>2. \A u \in Users : publicId[u] # NoId => publicId'[u] = publicId[u]
  BY <1>1, UpsertIds
<1>3. IdsDistinct'
  BY DEF SessionsInv
<1> QED
  BY <1>2, <1>3 DEF IdsDistinct

-----------------------------------------------------------------------------
(* The theorems. *)

LEMMA Invariance == Spec => []SessionsInv
BY InvInit, InvNext, PTL DEF Spec

\* Every variable of signing in and refreshing holds what the program can put in it.
THEOREM TypeCorrect == Spec => []SessionsTypeOK
<1>1. SessionsInv => SessionsTypeOK
  BY DEF SessionsInv
<1> QED
  BY <1>1, Invariance, PTL

\* However many requests of auth.service race with one refresh token, and wherever they die,
\* a session has one live token for as long as it is kept.
THEOREM AlwaysOneLiveToken == Spec => []OneLiveToken
<1>1. SessionsInv => OneLiveToken
  BY DEF SessionsInv
<1> QED
  BY <1>1, Invariance, PTL

\* Refresh tokens are exchanged once, each for one that nobody had: rotate implements
\* SessionLifecycle.
THEOREM Implements == Spec => LifecycleSpec
<1>1. SessionsInv /\ HeadsRight /\ HeadsRight' /\ [Next]_vars =>
         [Lifecycle!Next]_<<[s \in Tokens |-> HeadOf(s)],
                            {t \in Tokens : token[t].state = "revoked"}>>
  BY StepImplements
<1> QED
  BY <1>1, Heads, InitImplements, Invariance, PTL DEF Spec, LifecycleSpec, Lifecycle!Spec

\* The upsert of prisma-user-repository neither changes a public id nor gives it to a second
\* user.
THEOREM IdsStay == Spec => PublicIdsStay
<1>1. SessionsInv /\ SessionsInv' /\ [Next]_vars =>
        [\A u \in Users :
           /\ publicId[u] # NoId => publicId'[u] = publicId[u]
           /\ \A v \in Users \ {u} : publicId'[u] # NoId => publicId'[u] # publicId'[v]]_publicId
  BY StepIds
<1> QED
  BY <1>1, Invariance, PTL DEF Spec, PublicIdsStay

=============================================================================
