------------------------------ MODULE Idempotency ------------------------------
(***************************************************************************)
(* The creates that take an Idempotency-Key (PrismaIdempotencyExecutor and *)
(* the createIdempotently methods of the services and repositories):       *)
(* projects, scans, notes, upload sessions and invitations.  A client that *)
(* has no answer sends the request again with the same key, perhaps while  *)
(* the first is still being served.                                        *)
(*                                                                         *)
(* A request looks for the key's receipt, checks its permission, looks     *)
(* again, and then in one transaction inserts the resource and the         *)
(* receipt.  An insert waits while another transaction holds the same      *)
(* value of a unique index, and fails (P2002) when that one commits.       *)
(* A crash drops a request wherever it stands; its transaction is rolled   *)
(* back, and what it had committed stays.  A key stands for the user, the  *)
(* operation and the parent it is scoped by.                               *)
(***************************************************************************)
EXTENDS Naturals

CONSTANTS
    Keys, Payloads,  \* of the requests; the payload of an invitation is its recipient
    Kind,            \* what is created under each key
    Requests,        \* the requests the API may be serving at a time
    None             \* no receipt

ASSUME IdempotencyAssumption ==
    /\ Kind \in [Keys -> {"plain", "scan", "invitation"}]
    /\ None \notin Payloads

VARIABLES
    receipt,   \* the payload each key is claimed for
    made,      \* the number of resources created under each key
    pending,   \* the recipients with an invitation that is pending and not expired
    legacy,    \* the scan keys used as clientMutationId before there were receipts
    mails,     \* the number of invitation mails handed to the mailer
    req        \* where each request stands

vars == <<receipt, made, pending, legacy, mails, req>>
rows == <<receipt, made, pending, legacy, mails>>

Idle == [at |-> "idle"]
Steps == {"lookup", "permission", "again", "insert", "receipt", "commit", "recheck", "mail"}

\* created and replayed answer 201, conflict and alreadySent 409; refused stands for every
\* answer before the transaction that claims nothing, failed for every other one.
Answers == {"created", "replayed", "conflict", "alreadySent", "refused", "failed"}

Request == [at : Steps \cup Answers, key : Keys, payload : Payloads]

Key(r) == req[r].key
Payload(r) == req[r].payload
At(r, step) == req[r] # Idle /\ req[r].at = step
Moves(r, step) == req' = [req EXCEPT ![r].at = step]

-----------------------------------------------------------------------------
(* The executor. *)

\* Mutant: the request hash is not compared.
BugLookup(r, otherwise) ==
    Moves(r, IF receipt[Key(r)] = None THEN otherwise ELSE "replayed")

\* PrismaIdempotencyExecutor.lookup: the stored answer, or a conflict with another payload.
Lookup(r, otherwise) ==
    Moves(r, IF receipt[Key(r)] = None THEN otherwise
             ELSE IF receipt[Key(r)] = Payload(r) THEN "replayed" ELSE "conflict")

\* The service looks before it asks for the permission: a retry is answered even when the
\* parent has been deleted since.  (What the permission depends on is not modelled: it
\* may be given or refused.)
First(r) ==
    /\ At(r, "lookup")
    /\ Lookup(r, "permission")
    /\ UNCHANGED rows

Permit(r) ==
    /\ At(r, "permission")
    /\ Moves(r, "again")
    /\ UNCHANGED rows

\* The parent is gone, the model version differs, an upload URL cannot be signed ...
Refuse(r) ==
    /\ At(r, "permission")
    /\ Moves(r, "refused")
    /\ UNCHANGED rows

Again(r) ==
    /\ At(r, "again")
    /\ Lookup(r, "insert")
    /\ UNCHANGED rows

\* The value of a unique index the resource takes: a scan its clientMutationId (which is
\* the key), a pending invitation its recipient.
Same(r, q) ==
    CASE Kind[Key(r)] = "scan" -> Key(q) = Key(r)
      [] Kind[Key(r)] = "invitation" ->
           Kind[Key(q)] = "invitation" /\ Payload(q) = Payload(r)
      [] OTHER -> FALSE

\* Others in a transaction that has inserted its resource.
Waits(r) == \E q \in Requests \ {r} : (At(q, "receipt") \/ At(q, "commit")) /\ Same(r, q)

Taken(r) ==
    CASE Kind[Key(r)] = "scan" -> Key(r) \in legacy \/ made[Key(r)] > 0
      [] Kind[Key(r)] = "invitation" -> Payload(r) \in pending
      [] OTHER -> FALSE

\* The work: an invitation's P2002 is turned into an error of its own, which the executor
\* does not take for a duplicate key.
Insert(r) ==
    /\ At(r, "insert")
    /\ ~Waits(r)
    /\ Moves(r, IF ~Taken(r) THEN "receipt"
                ELSE IF Kind[Key(r)] = "invitation" THEN "alreadySent" ELSE "recheck")
    /\ UNCHANGED rows

\* Mutant: the receipt replaces one that is there.
BugInsertReceipt(r) ==
    /\ At(r, "receipt")
    /\ ~ \E q \in Requests \ {r} : At(q, "commit") /\ Key(q) = Key(r)
    /\ Moves(r, "commit")
    /\ UNCHANGED rows

InsertReceipt(r) ==
    /\ At(r, "receipt")
    /\ ~ \E q \in Requests \ {r} : At(q, "commit") /\ Key(q) = Key(r)
    /\ Moves(r, IF receipt[Key(r)] = None THEN "commit" ELSE "recheck")
    /\ UNCHANGED rows

\* Mutant: a create stops at a step that gives no answer.
BugCommit(r) ==
    /\ At(r, "commit")
    /\ receipt' = [receipt EXCEPT ![Key(r)] = Payload(r)]
    /\ made' = [made EXCEPT ![Key(r)] = @ + 1]
    /\ pending' = IF Kind[Key(r)] = "invitation" THEN pending \cup {Payload(r)} ELSE pending
    /\ Moves(r, IF Kind[Key(r)] = "invitation" THEN "mail" ELSE "stored")
    /\ UNCHANGED <<legacy, mails>>

Commit(r) ==
    /\ At(r, "commit")
    /\ receipt' = [receipt EXCEPT ![Key(r)] = Payload(r)]
    /\ made' = [made EXCEPT ![Key(r)] = @ + 1]
    /\ pending' = IF Kind[Key(r)] = "invitation" THEN pending \cup {Payload(r)} ELSE pending
    /\ Moves(r, IF Kind[Key(r)] = "invitation" THEN "mail" ELSE "created")
    /\ UNCHANGED <<legacy, mails>>

\* Any other error: the transaction is rolled back and the key stays free.
Fail(r) ==
    /\ At(r, "insert") \/ At(r, "receipt") \/ At(r, "commit")
    /\ Moves(r, "failed")
    /\ UNCHANGED rows

\* Mutant: a duplicate key that has no receipt is tried again.
BugRecheck(r) ==
    /\ At(r, "recheck")
    /\ Lookup(r, "again")
    /\ UNCHANGED rows

\* After P2002; a duplicate clientMutationId without a receipt is a conflict.
Recheck(r) ==
    /\ At(r, "recheck")
    /\ Lookup(r, IF Kind[Key(r)] = "scan" THEN "conflict" ELSE "failed")
    /\ UNCHANGED rows

\* Mutant: the mail is sent again after a time-out of the mailer.
BugSendMail(r) ==
    /\ At(r, "mail")
    /\ mails' = [mails EXCEPT ![Key(r)] = @ + 1]
    /\ Moves(r, "created") \/ UNCHANGED req
    /\ UNCHANGED <<receipt, made, pending, legacy>>

\* The recipient may have no address, and delivery may fail: the answer is the same.
SendMail(r) ==
    /\ At(r, "mail")
    /\ \E sent \in {0, 1} : mails' = [mails EXCEPT ![Key(r)] = @ + sent]
    /\ Moves(r, "created")
    /\ UNCHANGED <<receipt, made, pending, legacy>>

-----------------------------------------------------------------------------
(* The clients, the crashes and the rest of the system. *)

Init ==
    /\ receipt = [k \in Keys |-> None]
    /\ made = [k \in Keys |-> 0]
    /\ pending = {}
    /\ legacy \in SUBSET {k \in Keys : Kind[k] = "scan"}
    /\ mails = [k \in Keys |-> 0]
    /\ req = [r \in Requests |-> Idle]

Send(r, k, p) ==
    /\ req[r] = Idle
    /\ req' = [req EXCEPT ![r] = [at |-> "lookup", key |-> k, payload |-> p]]
    /\ UNCHANGED rows

\* The client has its answer, or the process dies under the request.
Answer(r) ==
    /\ req[r] # Idle /\ req[r].at \in Answers
    /\ req' = [req EXCEPT ![r] = Idle]
    /\ UNCHANGED rows

Crash(r) ==
    /\ req[r] # Idle /\ req[r].at \in Steps
    /\ req' = [req EXCEPT ![r] = Idle]
    /\ UNCHANGED rows

\* An invitation is accepted, declined or revoked, or it expires.
Settle(p) ==
    /\ p \in pending
    /\ pending' = pending \ {p}
    /\ UNCHANGED <<receipt, made, legacy, mails, req>>

Serve(r) ==
    \/ First(r) \/ Permit(r) \/ Refuse(r) \/ Again(r) \/ Insert(r) \/ InsertReceipt(r)
    \/ Commit(r) \/ Fail(r) \/ Recheck(r) \/ SendMail(r) \/ Answer(r)

Next ==
    \/ \E r \in Requests : Serve(r) \/ Crash(r)
    \/ \E r \in Requests, k \in Keys, p \in Payloads : Send(r, k, p)
    \/ \E p \in Payloads : Settle(p)

Spec == Init /\ [][Next]_vars /\ \A r \in Requests : WF_vars(Serve(r))

-----------------------------------------------------------------------------
(* Properties. *)

\* Every variable holds what the program can put in it.
TypeOK ==
    /\ receipt \in [Keys -> Payloads \cup {None}]
    /\ made \in [Keys -> Nat]
    /\ pending \subseteq Payloads
    /\ legacy \subseteq Keys
    /\ mails \in [Keys -> Nat]
    /\ req \in [Requests -> Request \cup {Idle}]

\* However requests with one key race, crash and are sent again, the resource is created
\* once and its key claimed in the same commit.
Once == INSTANCE CreateOnce WITH claim <- receipt, made <- made

OnceSpec == Once!Spec

\* An answer 201 is only given for the payload the key is claimed for, and a conflict only
\* when the key is claimed for another one (or was, before there were receipts): a request
\* is never told that it differs from itself.
AnswersAreTrue ==
    \A r \in Requests : req[r] # Idle =>
        /\ req[r].at \in {"created", "replayed", "mail"} => receipt[Key(r)] = Payload(r)
        /\ req[r].at = "conflict" =>
             receipt[Key(r)] \notin {Payload(r), None} \/ Key(r) \in legacy

\* However often an invitation's request is repeated, at most one mail is handed over for it, and
\* only once the invitation is committed.
MailedOnce == \A k \in Keys : mails[k] <= 1 /\ (mails[k] = 1 => made[k] = 1)

\* Nobody waits for ever behind another transaction, or goes round in the executor.
RequestsEnd == \A r \in Requests : req[r] # Idle ~> req[r] = Idle
=============================================================================
