--------------------------- MODULE IdempotencyProofs ---------------------------
(***************************************************************************)
(* Theorems of Idempotency, for any keys, payloads and number of requests: *)
(* every variable keeps its type, each key creates once (the refinement of *)
(* CreateOnce), answers are true, and an invitation is mailed once.        *)
(*                                                                         *)
(* The inductive invariant says what a request relies on where it stands.  *)
(* One about to commit is alone with its key, and the key is free; one     *)
(* that has met a duplicate knows why; one about to mail has committed,    *)
(* and nobody has mailed or will mail for its key but this one.            *)
(***************************************************************************)
EXTENDS Idempotency, TLAPS

\* A key is claimed exactly when its resource has been made, and that only once.
ClaimedIsMade ==
    \A k \in Keys : made[k] = (IF receipt[k] = None THEN 0 ELSE 1)

\* A request about to commit holds the key's receipt, which nobody else has inserted.
CommitsAlone ==
    \A r \in Requests : At(r, "commit") =>
        /\ receipt[Key(r)] = None
        /\ \A q \in Requests : At(q, "commit") /\ Key(q) = Key(r) => q = r

\* A duplicate key comes of a receipt, or of a scan made before there were receipts.
DuplicatesHaveReasons ==
    \A r \in Requests : At(r, "recheck") =>
        receipt[Key(r)] # None \/ Key(r) \in legacy \/ Kind[Key(r)] # "scan"

\* Only the request that has made an invitation mails it.
MailsAlone ==
    /\ \A k \in Keys : mails[k] \in {0, 1} /\ (mails[k] = 1 => receipt[k] # None)
    /\ \A r \in Requests : At(r, "mail") =>
           /\ mails[Key(r)] = 0
           /\ \A q \in Requests : At(q, "mail") /\ Key(q) = Key(r) => q = r

Inv ==
    /\ TypeOK /\ ClaimedIsMade /\ CommitsAlone /\ DuplicatesHaveReasons
    /\ AnswersAreTrue /\ MailsAlone

-----------------------------------------------------------------------------
(* How a step moves a request. *)

\* What a request has to show where it arrives without a row being written.
Permitted(r, x) ==
    \/ x = Idle
    \/ /\ x \in Request /\ x.at \notin {"mail", "created"}
       /\ x.at = "replayed" => receipt[x.key] = x.payload
       /\ x.at = "conflict" => receipt[x.key] \notin {x.payload, None} \/ x.key \in legacy
       /\ x.at = "recheck" => receipt[x.key] # None \/ x.key \in legacy \/ Kind[x.key] # "scan"
       /\ x.at = "commit" =>
             /\ receipt[x.key] = None
             /\ \A q \in Requests \ {r} : At(q, "commit") => Key(q) # x.key

\* A request of the same key and payload that stands elsewhere.
Moved(r, step) == [req[r] EXCEPT !.at = step]

LEMMA MovedRequest ==
  ASSUME TypeOK, NEW r \in Requests, NEW from, At(r, from), NEW step \in Steps \cup Answers
  PROVE  /\ Moved(r, step) \in Request /\ Moved(r, step) # Idle
         /\ Moved(r, step).at = step
         /\ Moved(r, step).key = Key(r) /\ Moved(r, step).payload = Payload(r)
         /\ Key(r) \in Keys /\ Payload(r) \in Payloads
         /\ Moves(r, step) => req' = [req EXCEPT ![r] = Moved(r, step)]
<1>1. req[r] \in Request
  BY DEF TypeOK, At
<1>2. /\ Moved(r, step) \in Request
      /\ Moved(r, step).at = step
      /\ Moved(r, step).key = req[r].key /\ Moved(r, step).payload = req[r].payload
  BY <1>1 DEF Moved, Request
<1>3. Moved(r, step) # Idle
  BY <1>2 DEF Idle, Request
<1>4. req[r].key \in Keys /\ req[r].payload \in Payloads
  BY <1>1 DEF Request
<1>5. Moves(r, step) => req' = [req EXCEPT ![r] = Moved(r, step)]
  BY DEF Moves, Moved
<1> QED
  BY <1>2, <1>3, <1>4, <1>5 DEF Key, Payload

LEMMA KeysOfRequests ==
  ASSUME TypeOK PROVE \A q \in Requests : req[q] # Idle => Key(q) \in Keys
<1> SUFFICES ASSUME NEW q \in Requests, req[q] # Idle PROVE req[q].key \in Keys
  BY DEF Key
<1>1. req[q] \in Request
  BY DEF TypeOK
<1> QED
  BY <1>1 DEF Request

\* A request that arrives where it is permitted, with no row written, keeps the invariant.
LEMMA Quiet ==
  ASSUME Inv, NEW r \in Requests, NEW x, Permitted(r, x), req' = [req EXCEPT ![r] = x],
         UNCHANGED rows
  PROVE  Inv'
<1>1. /\ receipt' = receipt /\ made' = made /\ pending' = pending
      /\ legacy' = legacy /\ mails' = mails
  BY DEF rows
<1>2. req \in [Requests -> Request \cup {Idle}]
  BY DEF Inv, TypeOK
<1>3. req'[r] = x /\ \A q \in Requests \ {r} : req'[q] = req[q]
  BY <1>2
<1>4. TypeOK'
  BY <1>1, <1>2 DEF Inv, TypeOK, Permitted
<1>5. ClaimedIsMade'
  BY <1>1 DEF Inv, ClaimedIsMade
<1>6. CommitsAlone'
  BY <1>1, <1>3 DEF Inv, CommitsAlone, Permitted, At, Key
<1>7. DuplicatesHaveReasons'
  BY <1>1, <1>3 DEF Inv, DuplicatesHaveReasons, Permitted, At, Key
<1>8. AnswersAreTrue'
  BY <1>1, <1>3 DEF Inv, AnswersAreTrue, Permitted, Key, Payload
<1>9. MailsAlone'
  BY <1>1, <1>3 DEF Inv, MailsAlone, Permitted, At, Key
<1> QED
  BY <1>4, <1>5, <1>6, <1>7, <1>8, <1>9 DEF Inv

\* The same for a request that moves on with its key and payload.
LEMMA QuietMove ==
  ASSUME Inv, NEW r \in Requests, NEW from, At(r, from), NEW step \in Steps \cup Answers,
         Moves(r, step), UNCHANGED rows, step \notin {"mail", "created"},
         step = "replayed" => receipt[Key(r)] = Payload(r),
         step = "conflict" => receipt[Key(r)] \notin {Payload(r), None} \/ Key(r) \in legacy,
         step = "recheck" =>
            receipt[Key(r)] # None \/ Key(r) \in legacy \/ Kind[Key(r)] # "scan",
         step = "commit" => /\ receipt[Key(r)] = None
                            /\ \A q \in Requests \ {r} : At(q, "commit") => Key(q) # Key(r)
  PROVE  Inv'
<1>1. TypeOK
  BY DEF Inv
<1>2. /\ Moved(r, step) \in Request /\ Moved(r, step).at = step
      /\ Moved(r, step).key = Key(r) /\ Moved(r, step).payload = Payload(r)
      /\ req' = [req EXCEPT ![r] = Moved(r, step)]
  BY <1>1, MovedRequest
<1>3. Permitted(r, Moved(r, step))
  BY <1>2 DEF Permitted
<1> QED
  BY <1>2, <1>3, Quiet

-----------------------------------------------------------------------------
(* The invariant. *)

LEMMA InvInit == Init => Inv
<1> SUFFICES ASSUME Init PROVE Inv
  OBVIOUS
<1>1. TypeOK
  BY DEF Init, TypeOK
<1>2. ClaimedIsMade /\ CommitsAlone /\ DuplicatesHaveReasons /\ AnswersAreTrue
  BY DEF Init, ClaimedIsMade, CommitsAlone, DuplicatesHaveReasons, AnswersAreTrue, At
<1>3. MailsAlone
  BY DEF Init, MailsAlone, At
<1> QED
  BY <1>1, <1>2, <1>3 DEF Inv

\* A lookup answers, or goes on where a free key is permitted to go.
LEMMA LookupKeeps ==
  ASSUME Inv, NEW r \in Requests, NEW from, At(r, from), UNCHANGED rows,
         NEW otherwise \in {"permission", "insert", "failed", "conflict"},
         otherwise = "conflict" => receipt[Key(r)] # None \/ Key(r) \in legacy,
         Lookup(r, otherwise)
  PROVE  Inv'
<1>1. CASE receipt[Key(r)] = None
  <2>1. Moves(r, otherwise)
    BY <1>1 DEF Lookup
  <2> QED
    BY <1>1, <2>1, QuietMove DEF Steps, Answers
<1>2. CASE receipt[Key(r)] # None /\ receipt[Key(r)] = Payload(r)
  <2>1. Moves(r, "replayed")
    BY <1>2 DEF Lookup
  <2> QED
    BY <1>2, <2>1, QuietMove DEF Steps, Answers
<1>3. CASE receipt[Key(r)] # None /\ receipt[Key(r)] # Payload(r)
  <2>1. Moves(r, "conflict")
    BY <1>3 DEF Lookup
  <2> QED
    BY <1>3, <2>1, QuietMove DEF Steps, Answers
<1> QED
  BY <1>1, <1>2, <1>3

\* A commit claims a key that is free, for a request that is alone with it.
LEMMA CommitKeeps == ASSUME Inv, NEW r \in Requests, Commit(r) PROVE Inv'
<1> DEFINE step == IF Kind[Key(r)] = "invitation" THEN "mail" ELSE "created"
           k == Key(r)
<1>1. TypeOK /\ At(r, "commit") /\ step \in Steps \cup Answers
  BY DEF Inv, Commit, Steps, Answers
<1>2. Moves(r, step)
  BY DEF Commit
<1>3. /\ Moved(r, step) \in Request /\ Moved(r, step) # Idle
      /\ Moved(r, step).at = step
      /\ Moved(r, step).key = k /\ Moved(r, step).payload = Payload(r)
      /\ k \in Keys /\ Payload(r) \in Payloads
      /\ req' = [req EXCEPT ![r] = Moved(r, step)]
  BY <1>1, <1>2, MovedRequest
<1>4. /\ req \in [Requests -> Request \cup {Idle}]
      /\ receipt \in [Keys -> Payloads \cup {None}] /\ made \in [Keys -> Nat]
      /\ pending \subseteq Payloads
  BY <1>1 DEF TypeOK
<1>5. /\ req'[r] = Moved(r, step)
      /\ \A q \in Requests \ {r} : req'[q] = req[q]
  BY <1>3, <1>4
<1>6. /\ receipt' = [receipt EXCEPT ![k] = Payload(r)]
      /\ made' = [made EXCEPT ![k] = made[k] + 1]
      /\ legacy' = legacy /\ mails' = mails
  BY DEF Commit
<1>7. /\ receipt[k] = None
      /\ \A q \in Requests : At(q, "commit") /\ Key(q) = k => q = r
  BY <1>1 DEF Inv, CommitsAlone
<1>8. Payload(r) # None
  BY <1>3, IdempotencyAssumption
<1>9. made[k] = 0 /\ mails[k] = 0
  BY <1>3, <1>7 DEF Inv, ClaimedIsMade, MailsAlone
<1>10. /\ receipt'[k] = Payload(r)
       /\ \A l \in Keys \ {k} : receipt'[l] = receipt[l]
  BY <1>3, <1>4, <1>6
<1>11. \A q \in Requests : req[q] # Idle => Key(q) \in Keys
  BY <1>1, KeysOfRequests
<1>12. step \in {"mail", "created"}
  OBVIOUS
<1> HIDE DEF step, k
<1>13. TypeOK'
  <2>1. req' \in [Requests -> Request \cup {Idle}]
    BY <1>3, <1>4
  <2>2. receipt' \in [Keys -> Payloads \cup {None}]
    BY <1>3, <1>4, <1>6
  <2>3. made' \in [Keys -> Nat]
    <3>1. made' = [made EXCEPT ![k] = 1]
      BY <1>6, <1>9
    <3> QED
      BY <1>4, <3>1
  <2>4. pending' \subseteq Payloads
    BY <1>3, <1>4 DEF Commit
  <2> QED
    BY <1>1, <1>6, <2>1, <2>2, <2>3, <2>4 DEF TypeOK
<1>14. ClaimedIsMade'
  <2>1. made'[k] = 1 /\ \A l \in Keys \ {k} : made'[l] = made[l]
    BY <1>3, <1>4, <1>6, <1>9
  <2> QED
    BY <1>8, <1>10, <2>1 DEF Inv, ClaimedIsMade
<1>15. CommitsAlone'
  BY <1>3, <1>5, <1>7, <1>10, <1>11, <1>12 DEF Inv, CommitsAlone, At, Key
<1>16. DuplicatesHaveReasons'
  BY <1>3, <1>5, <1>6, <1>8, <1>10, <1>11, <1>12 DEF Inv, DuplicatesHaveReasons, At, Key
<1>17. AnswersAreTrue'
  <2> SUFFICES ASSUME NEW q \in Requests, req'[q] # Idle
               PROVE /\ req'[q].at \in {"created", "replayed", "mail"}
                          => receipt'[req'[q].key] = req'[q].payload
                     /\ req'[q].at = "conflict" =>
                          receipt'[req'[q].key] \notin {req'[q].payload, None}
                          \/ req'[q].key \in legacy'
    BY DEF AnswersAreTrue, Key, Payload
  <2>1. CASE q = r
    BY <1>3, <1>5, <1>10, <1>12, <2>1
  <2>2. CASE q # r
    <3>1. req'[q] = req[q] /\ req[q] # Idle /\ Key(q) \in Keys /\ req[q] \in Request
      BY <1>4, <1>5, <1>11, <2>2
    <3>2. req[q].payload # None
      BY <3>1, IdempotencyAssumption DEF Request
    <3>3. /\ req[q].at \in {"created", "replayed", "mail"} => receipt[Key(q)] = req[q].payload
          /\ req[q].at = "conflict" =>
               receipt[Key(q)] \notin {req[q].payload, None} \/ Key(q) \in legacy
      BY <3>1 DEF Inv, AnswersAreTrue, Key, Payload
    <3>4. receipt[Key(q)] # None => receipt'[Key(q)] = receipt[Key(q)]
      BY <1>7, <1>10, <3>1
    <3> QED
      BY <1>6, <3>1, <3>2, <3>3, <3>4 DEF Key
  <2> QED
    BY <2>1, <2>2
<1>18. MailsAlone'
  <2>1. \A q \in Requests : At(q, "mail") => receipt[Key(q)] # None /\ Key(q) # k
    <3> SUFFICES ASSUME NEW q \in Requests, At(q, "mail")
                 PROVE receipt[Key(q)] # None /\ Key(q) # k
      OBVIOUS
    <3>1. req[q] # Idle /\ req[q].at = "mail" /\ req[q] \in Request
      BY <1>4 DEF At
    <3>2. receipt[Key(q)] = Payload(q)
      BY <3>1 DEF Inv, AnswersAreTrue
    <3>3. Payload(q) # None
      BY <3>1, IdempotencyAssumption DEF Payload, Request
    <3> QED
      BY <1>7, <3>2, <3>3
  <2>2. \A l \in Keys : mails'[l] \in {0, 1} /\ (mails'[l] = 1 => receipt'[l] # None)
    BY <1>6, <1>8, <1>10 DEF Inv, MailsAlone
  <2>3. \A q \in Requests : At(q, "mail")' =>
            /\ mails'[Key(q)'] = 0
            /\ \A p \in Requests : At(p, "mail")' /\ Key(p)' = Key(q)' => p = q
    <3>1. /\ \A q \in Requests \ {r} : At(q, "mail")' => At(q, "mail") /\ Key(q)' = Key(q)
          /\ At(r, "mail")' => Key(r)' = k
      BY <1>3, <1>5 DEF At, Key
    <3> QED
      BY <1>6, <1>9, <2>1, <3>1 DEF Inv, MailsAlone
  <2> QED
    BY <2>2, <2>3 DEF MailsAlone
<1> QED
  BY <1>13, <1>14, <1>15, <1>16, <1>17, <1>18 DEF Inv

\* The mail is handed over once, by the request that has committed.
LEMMA SendMailKeeps == ASSUME Inv, NEW r \in Requests, SendMail(r) PROVE Inv'
<1> DEFINE k == Key(r)
<1>1. TypeOK /\ At(r, "mail") /\ Moves(r, "created")
  BY DEF Inv, SendMail
<1>2. /\ Moved(r, "created") \in Request /\ Moved(r, "created") # Idle
      /\ Moved(r, "created").at = "created"
      /\ Moved(r, "created").key = k /\ Moved(r, "created").payload = Payload(r)
      /\ k \in Keys /\ Payload(r) \in Payloads
      /\ req' = [req EXCEPT ![r] = Moved(r, "created")]
  BY <1>1, MovedRequest DEF Steps, Answers
<1>3. req \in [Requests -> Request \cup {Idle}] /\ mails \in [Keys -> Nat]
  BY <1>1 DEF TypeOK
<1>4. /\ req'[r] = Moved(r, "created")
      /\ \A q \in Requests \ {r} : req'[q] = req[q]
  BY <1>2, <1>3
<1>5. receipt' = receipt /\ made' = made /\ pending' = pending /\ legacy' = legacy
  BY DEF SendMail
<1>6. mails[k] = 0 /\ \A q \in Requests : At(q, "mail") /\ Key(q) = k => q = r
  BY <1>1 DEF Inv, MailsAlone
<1>7. receipt[k] = Payload(r) /\ Payload(r) # None
  BY <1>1, <1>2, IdempotencyAssumption DEF Inv, AnswersAreTrue, At
<1>8. PICK sent \in {0, 1} : mails' = [mails EXCEPT ![k] = mails[k] + sent]
  BY DEF SendMail
<1>9. /\ mails'[k] = sent /\ \A l \in Keys \ {k} : mails'[l] = mails[l]
      /\ mails' \in [Keys -> Nat]
  BY <1>2, <1>3, <1>6, <1>8
<1>10. \A q \in Requests : req[q] # Idle => Key(q) \in Keys
  BY <1>1, KeysOfRequests
<1> HIDE DEF k
<1>11. TypeOK'
  BY <1>1, <1>2, <1>3, <1>5, <1>9 DEF TypeOK
<1>12. ClaimedIsMade'
  BY <1>5 DEF Inv, ClaimedIsMade
<1>13. CommitsAlone'
  BY <1>2, <1>4, <1>5 DEF Inv, CommitsAlone, At, Key
<1>14. DuplicatesHaveReasons'
  BY <1>2, <1>4, <1>5 DEF Inv, DuplicatesHaveReasons, At, Key
<1>15. AnswersAreTrue'
  BY <1>2, <1>4, <1>5, <1>7 DEF Inv, AnswersAreTrue, Key, Payload
<1>16. MailsAlone'
  <2>1. \A l \in Keys : mails'[l] \in {0, 1} /\ (mails'[l] = 1 => receipt'[l] # None)
    BY <1>5, <1>7, <1>9 DEF Inv, MailsAlone
  <2>2. \A q \in Requests : At(q, "mail")' =>
            q # r /\ At(q, "mail") /\ Key(q)' = Key(q) /\ Key(q) # k /\ Key(q) \in Keys
    BY <1>2, <1>4, <1>6, <1>10 DEF At, Key
  <2> QED
    BY <1>9, <2>1, <2>2 DEF Inv, MailsAlone
<1> QED
  BY <1>11, <1>12, <1>13, <1>14, <1>15, <1>16 DEF Inv

\* Whatever the service or the executor finds, a request goes where it is permitted.
LEMMA RequestKeeps ==
  ASSUME Inv, NEW r \in Requests, First(r) \/ Permit(r) \/ Refuse(r) \/ Again(r)
  PROVE  Inv'
<1>1. CASE First(r)
  BY <1>1, LookupKeeps DEF First
<1>2. CASE Permit(r)
  BY <1>2, QuietMove DEF Permit, Steps, Answers
<1>3. CASE Refuse(r)
  BY <1>3, QuietMove DEF Refuse, Steps, Answers
<1>4. CASE Again(r)
  BY <1>4, LookupKeeps DEF Again
<1> QED
  BY <1>1, <1>2, <1>3, <1>4

\* A scan whose clientMutationId is taken was made under a receipt, or before there were any.
LEMMA InsertKeeps == ASSUME Inv, NEW r \in Requests, Insert(r) PROVE Inv'
<1>1. At(r, "insert") /\ UNCHANGED rows /\ TypeOK
  BY DEF Insert, Inv
<1>2. Key(r) \in Keys
  BY <1>1, KeysOfRequests DEF At
<1>3. CASE ~Taken(r)
  <2>1. Moves(r, "receipt")
    BY <1>3 DEF Insert
  <2> QED
    BY <1>1, <2>1, QuietMove DEF Steps, Answers
<1>4. CASE Taken(r) /\ Kind[Key(r)] = "invitation"
  <2>1. Moves(r, "alreadySent")
    BY <1>4 DEF Insert
  <2> QED
    BY <1>1, <2>1, QuietMove DEF Steps, Answers
<1>5. CASE Taken(r) /\ Kind[Key(r)] # "invitation"
  <2>1. Moves(r, "recheck")
    BY <1>5 DEF Insert
  <2>2. Key(r) \in legacy \/ made[Key(r)] > 0
    BY <1>5 DEF Taken
  <2>3. Key(r) \in legacy \/ receipt[Key(r)] # None
    BY <1>2, <2>2 DEF Inv, ClaimedIsMade
  <2> QED
    BY <1>1, <2>1, <2>3, QuietMove DEF Steps, Answers
<1> QED
  BY <1>3, <1>4, <1>5

\* A receipt is inserted when there is none and no transaction holds its key.
LEMMA InsertReceiptKeeps == ASSUME Inv, NEW r \in Requests, InsertReceipt(r) PROVE Inv'
<1>1. /\ At(r, "receipt") /\ UNCHANGED rows
      /\ \A q \in Requests \ {r} : At(q, "commit") => Key(q) # Key(r)
  BY DEF InsertReceipt
<1>2. CASE receipt[Key(r)] = None
  <2>1. Moves(r, "commit")
    BY <1>2 DEF InsertReceipt
  <2> QED
    BY <1>1, <1>2, <2>1, QuietMove DEF Steps, Answers
<1>3. CASE receipt[Key(r)] # None
  <2>1. Moves(r, "recheck")
    BY <1>3 DEF InsertReceipt
  <2> QED
    BY <1>1, <1>3, <2>1, QuietMove DEF Steps, Answers
<1> QED
  BY <1>2, <1>3

\* A failed transaction leaves the key as it was, and a duplicate is answered by its reason.
LEMMA EndKeeps ==
  ASSUME Inv, NEW r \in Requests, Fail(r) \/ Recheck(r)
  PROVE  Inv'
<1>1. CASE Fail(r)
  BY <1>1, QuietMove DEF Fail, Steps, Answers
<1>2. CASE Recheck(r)
  <2> DEFINE otherwise == IF Kind[Key(r)] = "scan" THEN "conflict" ELSE "failed"
  <2>1. At(r, "recheck") /\ UNCHANGED rows /\ Lookup(r, otherwise)
    BY <1>2 DEF Recheck
  <2>2. otherwise \in {"permission", "insert", "failed", "conflict"}
    OBVIOUS
  <2>3. otherwise = "conflict" => receipt[Key(r)] # None \/ Key(r) \in legacy
    BY <2>1 DEF Inv, DuplicatesHaveReasons
  <2> HIDE DEF otherwise
  <2> QED
    BY <2>1, <2>2, <2>3, LookupKeeps
<1> QED
  BY <1>1, <1>2

\* A request comes, or goes with its answer or with its process.
LEMMA ClientKeeps ==
  ASSUME Inv, NEW r \in Requests,
         Answer(r) \/ Crash(r) \/ \E k \in Keys, p \in Payloads : Send(r, k, p)
  PROVE  Inv'
<1>1. CASE Answer(r) \/ Crash(r)
  BY <1>1, Quiet DEF Answer, Crash, Permitted
<1>2. CASE \E k \in Keys, p \in Payloads : Send(r, k, p)
  <2>1. PICK k \in Keys, p \in Payloads : Send(r, k, p)
    BY <1>2
  <2> DEFINE x == [at |-> "lookup", key |-> k, payload |-> p]
  <2>2. x \in Request /\ x.at = "lookup"
    BY DEF Request, Steps
  <2>3. req' = [req EXCEPT ![r] = x] /\ UNCHANGED rows
    BY <2>1 DEF Send
  <2> HIDE DEF x
  <2>4. Permitted(r, x)
    BY <2>2 DEF Permitted
  <2> QED
    BY <2>3, <2>4, Quiet
<1> QED
  BY <1>1, <1>2

LEMMA SettleKeeps == ASSUME Inv, NEW p \in Payloads, Settle(p) PROVE Inv'
<1>1. /\ receipt' = receipt /\ made' = made /\ legacy' = legacy /\ mails' = mails
      /\ req' = req
  BY DEF Settle
<1>2. TypeOK'
  BY <1>1 DEF Inv, TypeOK, Settle
<1>3. ClaimedIsMade' /\ CommitsAlone' /\ DuplicatesHaveReasons'
  BY <1>1 DEF Inv, ClaimedIsMade, CommitsAlone, DuplicatesHaveReasons, At, Key
<1>4. AnswersAreTrue' /\ MailsAlone'
  BY <1>1 DEF Inv, AnswersAreTrue, MailsAlone, At, Key, Payload
<1> QED
  BY <1>2, <1>3, <1>4 DEF Inv

LEMMA StutterKeeps == ASSUME Inv, UNCHANGED vars PROVE Inv'
<1>1. /\ receipt' = receipt /\ made' = made /\ legacy' = legacy /\ mails' = mails
      /\ req' = req /\ pending' = pending
  BY DEF vars
<1>2. TypeOK'
  BY <1>1 DEF Inv, TypeOK
<1>3. ClaimedIsMade' /\ CommitsAlone' /\ DuplicatesHaveReasons'
  BY <1>1 DEF Inv, ClaimedIsMade, CommitsAlone, DuplicatesHaveReasons, At, Key
<1>4. AnswersAreTrue' /\ MailsAlone'
  BY <1>1 DEF Inv, AnswersAreTrue, MailsAlone, At, Key, Payload
<1> QED
  BY <1>2, <1>3, <1>4 DEF Inv

LEMMA InvNext == Inv /\ [Next]_vars => Inv'
<1> SUFFICES ASSUME Inv, [Next]_vars PROVE Inv'
  OBVIOUS
<1>1. CASE \E r \in Requests : Serve(r) \/ Crash(r)
  <2>1. PICK r \in Requests : Serve(r) \/ Crash(r)
    BY <1>1
  <2> QED
    BY <2>1, RequestKeeps, InsertKeeps, InsertReceiptKeeps, CommitKeeps, SendMailKeeps,
       EndKeeps, ClientKeeps DEF Serve
<1>2. CASE \E r \in Requests, k \in Keys, p \in Payloads : Send(r, k, p)
  BY <1>2, ClientKeeps
<1>3. CASE \E p \in Payloads : Settle(p)
  BY <1>3, SettleKeeps
<1>4. CASE UNCHANGED vars
  BY <1>4, StutterKeeps
<1> QED
  BY <1>1, <1>2, <1>3, <1>4 DEF Next

-----------------------------------------------------------------------------
(* The theorems. *)

LEMMA Invariance == Spec => []Inv
<1> QED
  BY InvInit, InvNext, PTL DEF Spec

\* Every variable of the idempotent creates holds what the program can put in it.
THEOREM TypeCorrect == Spec => []TypeOK
<1>1. Inv => TypeOK
  BY DEF Inv
<1> QED
  BY <1>1, Invariance, PTL

\* A request of the executor is answered 201 only for the payload its key is claimed for, and
\* never told that it conflicts with itself.
THEOREM AnswersTrue == Spec => []AnswersAreTrue
<1>1. Inv => AnswersAreTrue
  BY DEF Inv
<1> QED
  BY <1>1, Invariance, PTL

\* createIdempotently and its retries hand over at most one mail for an invitation, and only
\* for one that is committed.
THEOREM MailOnce == Spec => []MailedOnce
<1>1. Inv => MailedOnce
  <2> SUFFICES ASSUME Inv, NEW k \in Keys
               PROVE mails[k] <= 1 /\ (mails[k] = 1 => made[k] = 1)
    BY DEF MailedOnce
  <2>1. mails[k] \in {0, 1} /\ (mails[k] = 1 => receipt[k] # None)
    BY DEF Inv, MailsAlone
  <2>2. made[k] = (IF receipt[k] = None THEN 0 ELSE 1)
    BY DEF Inv, ClaimedIsMade
  <2> QED
    BY <2>1, <2>2
<1> QED
  BY <1>1, Invariance, PTL

\* A step creates what CreateOnce lets it create, or nothing.
LEMMA StepImplements ==
  ASSUME Inv, [Next]_vars
  PROVE  [Once!Next]_<<receipt, made>>
<1>1. ASSUME NEW r \in Requests, Commit(r)
      PROVE Once!Next
  <2>1. Key(r) \in Keys /\ receipt[Key(r)] = None
    BY <1>1, KeysOfRequests DEF Commit, At, Inv, CommitsAlone
  <2>2. req[r] \in Request
    BY <1>1 DEF Commit, At, Inv, TypeOK
  <2>3. Payload(r) \in Payloads
    BY <2>2 DEF Request, Payload
  <2>4. Once!Create(Key(r), Payload(r))
    BY <1>1, <2>1 DEF Commit, Once!Create
  <2> QED
    BY <2>1, <2>3, <2>4 DEF Once!Next
<1>2. ASSUME NEW r \in Requests, Serve(r), ~Commit(r)
      PROVE UNCHANGED <<receipt, made>>
  BY <1>2 DEF Serve, First, Permit, Refuse, Again, Insert, InsertReceipt, Fail, Recheck,
              SendMail, Answer, rows
<1>3. ASSUME NEW r \in Requests, Crash(r)
      PROVE UNCHANGED <<receipt, made>>
  BY <1>3 DEF Crash, rows
<1>4. ASSUME NEW r \in Requests, NEW k \in Keys, NEW p \in Payloads, Send(r, k, p)
      PROVE UNCHANGED <<receipt, made>>
  BY <1>4 DEF Send, rows
<1>5. ASSUME NEW p \in Payloads, Settle(p)
      PROVE UNCHANGED <<receipt, made>>
  BY <1>5 DEF Settle
<1>6. CASE UNCHANGED vars
  BY <1>6 DEF vars
<1> QED
  BY <1>1, <1>2, <1>3, <1>4, <1>5, <1>6 DEF Next

\* However the requests with one key race, crash and are sent again, the executor creates one
\* resource under it and claims the key in the same commit.
THEOREM Implements == Spec => OnceSpec
<1>1. Init => Once!Init
  BY DEF Init, Once!Init
<1>2. Inv /\ [Next]_vars => [Once!Next]_<<receipt, made>>
  BY StepImplements
<1> QED
  BY <1>1, <1>2, Invariance, PTL DEF Spec, OnceSpec, Once!Spec

=============================================================================
