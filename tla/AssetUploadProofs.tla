------------------------- MODULE AssetUploadProofs -------------------------
(***************************************************************************)
(* Theorems about AssetUpload, for any number of requests, cleanup runs,   *)
(* keys and sizes, any TTL and grace, and any bound on the clock.          *)
(***************************************************************************)
EXTENDS AssetUpload, TLAPS

\* Requests and cleanup runs that have not started are well typed.
LEMMA IdleType == Idle \in Request /\ Resting \in Run /\ Resting \in Listing
BY DEF Idle, Holding, Request, Resting, Run, Listing, NoExpiry

\* A write of the row in place yields a row.
LEMMA SettledType ==
    ASSUME row \in Row, NEW status \in Status, NEW expiry \in Int, NEW size \in Sizes
    PROVE  /\ Settled(status, expiry, size) \in Row
           /\ Settled(status, expiry, size).id = row.id
           /\ Settled(status, expiry, size).rev = row.rev + 1
           /\ Settled(status, expiry, size).status = status
           /\ Settled(status, expiry, size).expiry = expiry
           /\ Settled(status, expiry, size).deleted = row.deleted
BY DEF Settled, Row

\* What a deletion leaves of the row.
LEMMA EntombedType ==
    ASSUME row \in Row
    PROVE  /\ Entombed \in Row
           /\ Entombed.id = row.id /\ Entombed.rev = row.rev + 1
           /\ Entombed.status = row.status /\ Entombed.expiry = row.expiry
           /\ Entombed.deleted = TRUE
<1> DEFINE next == Settled(row.status, row.expiry, row.size)
<1>1. row.status \in Status /\ row.expiry \in Int /\ row.size \in Sizes
  BY DEF Row
<1>2. /\ next \in Row /\ next.id = row.id /\ next.rev = row.rev + 1
      /\ next.status = row.status /\ next.expiry = row.expiry
  BY <1>1, SettledType
<1>3. Entombed = [next EXCEPT !.deleted = TRUE]
  BY DEF Entombed
<1> HIDE DEF next
<1>4. QED BY <1>2, <1>3 DEF Row

\* What Save writes has the types of the row and of the change log.
LEMMA SaveType ==
    ASSUME NEW new \in Row, Save(new)
    PROVE  row' \in Row /\ feed' \in Change
BY DEF Save, Row, Change

\* The ways a request moves on keep it a request.
LEMMA StepType ==
    ASSUME req \in [Requests -> Request], NEW r \in Requests,
           NEW pc \in {"reuse", "begin", "write", "verify", "mark", "markFailed", "fail",
                       "display"},
           Step(r, pc) \/ End(r)
    PROVE  req' \in [Requests -> Request]
BY IdleType DEF Step, End, Request

\* A request that starts over with what it has read is a request.
LEMMA ReadType ==
    ASSUME NEW snap \in Row, NEW pc \in {"verify", "fail", "display"}
    PROVE  Holding(pc, snap) \in Request
BY DEF Holding, Request, NoExpiry

\* Type correctness of the slot, for every value of the constants.
LEMMA TypeInit == Init => TypeOK
<1> SUFFICES ASSUME Init PROVE TypeOK
  OBVIOUS
<1>0. 0 \in 0..MaxClock
  BY ConstantsOK
<1>1. /\ clock \in 0..MaxClock
      /\ scanLive \in BOOLEAN
      /\ deletion \in Listing
      /\ thumbnail \in BOOLEAN
      /\ object \in Sizes \cup {None}
      /\ receipts \subseteq Keys
      /\ expirer \in Nat \cup {None}
  BY <1>0, IdleType, Zenon DEF Init
<1>4. req \in [Requests -> Request] /\ cleaner \in [Cleaners -> Run]
  BY IdleType DEF Init
<1>2. /\ row \in Row \cup {None} /\ opened \in Nat /\ issued \in Nat
      /\ urls \subseteq Int /\ feed \in Change \cup {None}
  <2>1. CASE row = None /\ opened = 0 /\ issued = 0 /\ urls = {} /\ feed = None
    BY <2>1
  <2>2. ASSUME NEW s \in Sizes,
               row = [id |-> 1, status |-> "PENDING", expiry |-> TTL, rev |-> 1,
                      size |-> s, deleted |-> FALSE],
               opened = 1, issued = TTL,
               urls = {TTL},
               feed = [op |-> "UPSERT", id |-> 1, rev |-> 1]
        PROVE  /\ row \in Row /\ opened \in Nat /\ issued \in Nat
               /\ urls \subseteq Int /\ feed \in Change
    BY <2>2, ConstantsOK DEF Row, Change, Status
  <2>3. QED BY <2>1, <2>2 DEF Init
<1>3. QED BY <1>1, <1>2, <1>4 DEF TypeOK

\* Every step keeps every variable in its type.
LEMMA TypeStep ==
    TypeOK /\ RequestsHold /\ CandidatesOrphaned /\ [Next]_vars => TypeOK'
<1> SUFFICES ASSUME TypeOK, RequestsHold, CandidatesOrphaned, [Next]_vars PROVE TypeOK'
  OBVIOUS
<1> USE DEF TypeOK
<1>a. row # None => /\ row \in Row /\ row.id \in Nat /\ row.status \in Status
                    /\ row.expiry \in Int /\ row.rev \in Nat /\ row.size \in Sizes
  BY DEF Row
<1>b. ASSUME NEW r \in Requests
      PROVE  req[r] \in Request /\ req[r].until \in Int
  BY DEF Request
<1>1. ASSUME NEW r \in Requests, Create(r) PROVE TypeOK'
  <2>1. ASSUME NEW k \in Keys, NEW s \in Sizes, CreateRead(r, k, s) PROVE TypeOK'
    <3> DEFINE seen   == IF LiveRow THEN row ELSE None
               active == seen # None /\ Stuck(seen) /\ seen.expiry > clock
               next   == [pc |-> IF active THEN "reuse" ELSE "begin", key |-> k, size |-> s,
                          until |-> IF active THEN seen.expiry ELSE clock + TTL,
                          snap |-> seen]
    <3>1. seen \in Row \cup {None} /\ (seen # None => seen.expiry \in Int)
      BY DEF LiveRow, Row
    <3>2. clock + TTL \in Nat
      BY ConstantsOK
    <3>3. next \in Request
      BY <3>1, <3>2 DEF Request
    <3>4. req' = [req EXCEPT ![r] = next]
      BY <2>1 DEF CreateRead
    <3>5. req' \in [Requests -> Request]
      BY <3>3, <3>4
    <3>6. QED BY <2>1, <3>2, <3>5 DEF CreateRead
  <2>2. ASSUME Respond(r), req[r].pc \in {"reuse", "write"}
        PROVE  receipts' \subseteq Keys /\ urls' \subseteq Int
    <3>1. req[r].key \in Keys
      BY <2>2 DEF RequestsHold, Request
    <3>2. QED BY <1>b, <2>2, <3>1 DEF Respond
  <2>3. CASE CreateReuse(r)
    BY <2>2, <2>3, StepType DEF CreateReuse
  <2>4. CASE CreateBegin(r)
    BY <2>4, StepType DEF CreateBegin
  <2>5. CASE CreateWrite(r)
    <3>1. receipts' \subseteq Keys /\ urls' \subseteq Int
      BY <2>2, <2>5 DEF CreateWrite
    <3>2. req' \in [Requests -> Request]
      BY <2>5, StepType DEF CreateWrite
    <3>3. row' \in Row /\ feed' \in Change /\ opened' \in Nat
      <4>1. req[r].size \in Sizes
        BY <2>5 DEF CreateWrite, RequestsHold, Request
      <4>2. [id |-> opened + 1, status |-> "PENDING", expiry |-> req[r].until,
             rev |-> 1, size |-> req[r].size, deleted |-> FALSE] \in Row
        BY <1>b, <4>1 DEF Row, Status
      <4>3. row # None => Settled("PENDING", req[r].until, req[r].size) \in Row
        BY <1>a, <1>b, <4>1, SettledType DEF Status
      <4>4. QED BY <2>5, <4>2, <4>3, SaveType DEF CreateWrite
    <3>4. QED BY <2>5, <3>1, <3>2, <3>3 DEF CreateWrite
  <2>6. QED BY <1>1, <2>1, <2>3, <2>4, <2>5 DEF Create
<1>2. ASSUME row # None, NEW expiry \in Int, NEW size \in Sizes, NEW status \in Status,
             Save(Settled(status, expiry, size))
      PROVE  row' \in Row /\ feed' \in Change
  BY <1>2, <1>a, SettledType, SaveType
<1>c. NoExpiry \in Int /\ "UPLOADED" \in Status /\ "FAILED" \in Status
  BY DEF NoExpiry, Status
<1>3. ASSUME NEW r \in Requests, Complete(r) PROVE TypeOK'
  <2>1. CASE CompleteRead(r)
    BY <2>1, <1>a, ReadType DEF CompleteRead, LiveRow
  <2>2. CASE VerifyObject(r)
    BY <2>2, StepType DEF VerifyObject
  <2>3. CASE CompleteMark(r)
    <3>1. row' \in Row \cup {None} /\ feed' \in Change \cup {None} /\ thumbnail' \in BOOLEAN
      BY <2>3, <1>2, <1>c DEF CompleteMark, Guarded, Reread
    <3>2. req' \in [Requests -> Request]
      BY <2>3, StepType DEF CompleteMark, Reread
    <3>3. QED BY <2>3, <3>1, <3>2 DEF CompleteMark
  <2>4. CASE CompleteMarkFailed(r)
    <3>1. row' \in Row \cup {None} /\ feed' \in Change \cup {None} /\ thumbnail' \in BOOLEAN
      BY <2>4, <1>a, <1>2, <1>c DEF CompleteMarkFailed, Guarded, Reread
    <3>2. req' \in [Requests -> Request]
      BY <2>4, StepType DEF CompleteMarkFailed, Reread
    <3>3. QED BY <2>4, <3>1, <3>2 DEF CompleteMarkFailed
  <2>5. CASE PersistThumbnail(r)
    BY <2>5, StepType DEF PersistThumbnail
  <2>6. QED BY <1>3, <2>1, <2>2, <2>3, <2>4, <2>5 DEF Complete
<1>4. ASSUME NEW r \in Requests, FailUpload(r) PROVE TypeOK'
  <2>1. CASE FailRead(r)
    BY <2>1, <1>a, ReadType DEF FailRead, LiveRow
  <2>2. CASE FailMark(r)
    BY <2>2, <1>a, <1>2, <1>c, StepType DEF FailMark, Guarded
  <2>3. QED BY <1>4, <2>1, <2>2 DEF FailUpload
<1>5. ASSUME NEW r \in Requests, Abandon(r) PROVE TypeOK'
  BY <1>5, StepType DEF Abandon
<1>6. CASE Expiry
  <2>1. CASE ExpirySelect
    BY <2>1, <1>a DEF ExpirySelect, ExpirySelects, Overdue, LiveRow
  <2>2. CASE ExpiryFail
    BY <2>2, <1>a, <1>2, <1>c DEF ExpiryFail, Guarded
  <2>3. CASE ExpiryDies
    BY <2>3 DEF ExpiryDies
  <2>4. QED BY <1>6, <2>1, <2>2, <2>3 DEF Expiry
<1>7. ASSUME NEW c \in Cleaners, Cleanup(c) PROVE TypeOK'
  <2>1. CASE CleanupSelect(c)
    BY <2>1 DEF CleanupSelect, IsOrphan, LiveRow, Run
  <2>2. CASE CleanupErase(c)
    BY <2>2 DEF CleanupErase, Run
  <2>3. CASE CleanupFind(c)
    BY <2>3, IdleType DEF CleanupFind, Claimable, LiveRow, Run
  <2>4. CASE CleanupClaim(c)
    <3>1. Claimable(c) => row.id \in Nat /\ TombstoneRevision(c) \in Nat
      <4>1. cleaner[c].cand \in Row
        BY <2>4 DEF CleanupClaim, CandidatesOrphaned, Run
      <4>2. QED BY <4>1, <1>a DEF Claimable, LiveRow, TombstoneRevision, Row
    <3>2. Claimable(c) => feed' \in Change
      BY <2>4, <3>1 DEF CleanupClaim, Change
    <3>3. QED BY <2>4, <3>2, IdleType DEF CleanupClaim
  <2>5. CASE CleanupSkips(c)
    BY <2>5, IdleType DEF CleanupSkips
  <2>6. QED BY <1>7, <2>1, <2>2, <2>3, <2>4, <2>5 DEF Cleanup
<1>8. CASE World
  <2>1. ASSUME NEW u \in urls, Put(u) PROVE TypeOK'
    BY <2>1 DEF Put
  <2>2. CASE DeleteScan
    <3>1. CASE LiveRow
      <4>1. row' \in Row
        BY <2>2, <3>1, <1>a, EntombedType DEF DeleteScan, LiveRow
      <4>2. feed' \in Change
        BY <2>2, <3>1, <1>a DEF DeleteScan, LiveRow, Change
      <4>3. QED BY <2>2, <4>1, <4>2 DEF DeleteScan
    <3>2. CASE ~LiveRow
      BY <2>2, <3>2 DEF DeleteScan
    <3>3. QED BY <3>1, <3>2
  <2>5. CASE ListForDeletion
    <3>1. deletion' \in Listing
      BY <2>5, <1>a DEF ListForDeletion, LiveRow, Listing, Mark
    <3>2. QED BY <2>5, <3>1 DEF ListForDeletion
  <2>6. CASE DeleteProject
    <3>1. row' \in Row \cup {None}
      BY <2>6, <1>a, EntombedType DEF DeleteProject, Reached
    <3>2. deletion.cand # None => /\ deletion.cand.id \in Nat /\ deletion.cand.rev \in Nat
                                  /\ deletion.cand.rev + 1 \in Nat
      BY DEF Listing, Mark
    <3>3. feed' \in Change \cup {None}
      BY <2>6, <3>2 DEF DeleteProject, Change
    <3>4. QED BY <2>6, <3>1, <3>3, IdleType DEF DeleteProject
  <2>3. CASE Tick
    <3>1. clock' \in 0..MaxClock
      BY <2>3, ConstantsOK DEF Tick
    <3>2. urls' \subseteq Int
      BY <2>3 DEF Tick
    <3>3. QED BY <2>3, <3>1, <3>2 DEF Tick
  <2>4. QED BY <1>8, <2>1, <2>2, <2>3, <2>5, <2>6 DEF World, Deletions
<1>9. CASE UNCHANGED vars
  BY <1>9 DEF vars
<1>10. QED BY <1>1, <1>3, <1>4, <1>5, <1>6, <1>7, <1>8, <1>9 DEF Next
-----------------------------------------------------------------------------

\* A request that is about to write holds a key, a size and the row it read.
LEMMA RequestsStep == TypeOK /\ RequestsHold /\ [Next]_vars => RequestsHold'
<1> SUFFICES ASSUME TypeOK, RequestsHold, [Next]_vars, NEW q \in Requests
             PROVE  /\ req'[q].pc \in {"reuse", "begin", "write"} =>
                          req'[q].key # None /\ req'[q].size # None
                    /\ req'[q].pc \in {"verify", "mark", "markFailed", "fail"} =>
                          req'[q].snap # None
  BY DEF RequestsHold
<1> DEFINE Holds ==
      /\ req'[q].pc \in {"reuse", "begin", "write"} =>
            req'[q].key # None /\ req'[q].size # None
      /\ req'[q].pc \in {"verify", "mark", "markFailed", "fail"} => req'[q].snap # None
<1> USE DEF TypeOK, RequestsHold
<1>1. CASE UNCHANGED req
  BY <1>1
<1>2. ASSUME NEW r \in Requests, NEW pc, Step(r, pc),
             pc = "display" \/ (pc = "write" /\ req[r].pc = "begin")
                            \/ (pc \in {"mark", "markFailed"} /\ req[r].pc = "verify")
      PROVE  Holds
  <2>1. q # r => req'[q] = req[q]
    BY <1>2 DEF Step
  <2>2. /\ req'[r].pc = pc /\ req'[r].key = req[r].key
        /\ req'[r].size = req[r].size /\ req'[r].snap = req[r].snap
    BY <1>2 DEF Step, Request
  <2>3. QED BY <1>2, <2>1, <2>2
<1>3. ASSUME NEW r \in Requests, End(r)
      PROVE  Holds
  BY <1>3 DEF End, Idle, Holding
<1>4. ASSUME NEW r \in Requests, Create(r)
      PROVE  Holds
  <2>1. ASSUME NEW k \in Keys, NEW s \in Sizes, CreateRead(r, k, s)
        PROVE  /\ q # r => req'[q] = req[q]
               /\ req'[r].pc \in {"reuse", "begin"} /\ req'[r].key = k /\ req'[r].size = s
    BY <2>1 DEF CreateRead
  <2>2. ASSUME NEW k \in Keys, NEW s \in Sizes PROVE k # None /\ s # None
    BY ConstantsOK
  <2>3. ASSUME NEW k \in Keys, NEW s \in Sizes, CreateRead(r, k, s)
        PROVE  Holds
    BY <2>1, <2>2, <2>3
  <2>4. CASE CreateReuse(r) \/ CreateWrite(r)
    BY <2>4, <1>3 DEF CreateReuse, CreateWrite
  <2>5. CASE CreateBegin(r)
    BY <2>5, <1>2 DEF CreateBegin
  <2>6. QED BY <1>4, <2>3, <2>4, <2>5 DEF Create
<1>5. ASSUME NEW r \in Requests, Complete(r) \/ FailUpload(r)
      PROVE  Holds
  <2>1. CASE CompleteRead(r) \/ FailRead(r)
    BY <2>1 DEF CompleteRead, FailRead, Holding, LiveRow
  <2>2. CASE VerifyObject(r)
    BY <2>2, <1>2 DEF VerifyObject
  <2>3. CASE CompleteMark(r) \/ CompleteMarkFailed(r)
    BY <2>3, <1>2, <1>3 DEF CompleteMark, CompleteMarkFailed, Reread
  <2>4. CASE PersistThumbnail(r) \/ FailMark(r)
    BY <2>4, <1>3 DEF PersistThumbnail, FailMark
  <2>5. QED BY <1>5, <2>1, <2>2, <2>3, <2>4 DEF Complete, FailUpload
<1>6. ASSUME NEW r \in Requests, Abandon(r)
      PROVE  Holds
  BY <1>6, <1>3 DEF Abandon
<1>7. CASE Expiry
  BY <1>7, <1>1 DEF Expiry, ExpirySelect, ExpiryFail, ExpiryDies
<1>8. ASSUME NEW c \in Cleaners, Cleanup(c) PROVE UNCHANGED req
  BY <1>8 DEF Cleanup, CleanupSelect, CleanupErase, CleanupFind, CleanupClaim, CleanupSkips
<1>9. CASE World
  BY <1>9, <1>1 DEF World, Deletions, Put, DeleteScan, ListForDeletion, DeleteProject,
     Tick
<1>10. QED BY <1>1, <1>4, <1>5, <1>6, <1>7, <1>8, <1>9 DEF Next, vars

\* What a cleanup run holds stays an orphan by its own status and expiry.
LEMMA CandidatesStep == TypeOK /\ CandidatesOrphaned /\ [Next]_vars => CandidatesOrphaned'
<1> SUFFICES ASSUME TypeOK, CandidatesOrphaned, [Next]_vars, NEW d \in Cleaners,
                    cleaner'[d].pc # "idle"
             PROVE  /\ cleaner'[d].cand # None
                    /\ \/ cleaner'[d].cand.status = "FAILED"
                       \/ /\ cleaner'[d].cand.status = "PENDING"
                          /\ cleaner'[d].cand.expiry # NoExpiry
                          /\ cleaner'[d].cand.expiry <= clock' - Grace
  BY DEF CandidatesOrphaned, Stuck, PastCutoff
<1> USE DEF TypeOK, CandidatesOrphaned, Stuck, PastCutoff
<1>1. CASE UNCHANGED <<cleaner, clock>>
  BY <1>1
<1>2. CASE Tick
  <2>1. cleaner[d].cand # None => cleaner[d].cand.expiry \in Int
    BY DEF Run, Row
  <2>2. clock \in Int /\ clock' = clock + 1 /\ cleaner' = cleaner /\ Grace \in Int
    BY <1>2, ConstantsOK DEF Tick
  <2>3. QED BY <2>1, <2>2
<1>3. ASSUME NEW c \in Cleaners, Cleanup(c)
      PROVE  /\ cleaner'[d].cand # None
             /\ \/ cleaner'[d].cand.status = "FAILED"
                \/ /\ cleaner'[d].cand.status = "PENDING"
                   /\ cleaner'[d].cand.expiry # NoExpiry
                   /\ cleaner'[d].cand.expiry <= clock' - Grace
  <2>1. CASE CleanupSelect(c)
    BY <2>1 DEF CleanupSelect, IsOrphan, LiveRow
  <2>2. CASE CleanupErase(c)
    BY <2>2 DEF CleanupErase, Run
  <2>3. CASE CleanupFind(c)
    BY <2>3 DEF CleanupFind, Claimable, LiveRow, Resting
  <2>4. CASE CleanupClaim(c) \/ CleanupSkips(c)
    BY <2>4 DEF CleanupClaim, CleanupSkips, Resting
  <2>5. QED BY <1>3, <2>1, <2>2, <2>3, <2>4 DEF Cleanup
<1>4. ASSUME NEW r \in Requests, Create(r) \/ Complete(r) \/ FailUpload(r) \/ Abandon(r)
      PROVE  UNCHANGED <<cleaner, clock>>
  BY <1>4 DEF Create, CreateRead, CreateReuse, CreateBegin, CreateWrite, Complete,
     CompleteRead, VerifyObject, CompleteMark, CompleteMarkFailed, PersistThumbnail,
     FailUpload, FailRead, FailMark, Abandon
<1>5. CASE Expiry
  BY <1>1, <1>5 DEF Expiry, ExpirySelect, ExpiryFail, ExpiryDies
<1>6. CASE World
  BY <1>1, <1>2, <1>6 DEF World, Deletions, Put, DeleteScan, ListForDeletion,
     DeleteProject
<1>7. QED BY <1>1, <1>3, <1>4, <1>5, <1>6 DEF Next, vars

\* The row and the change log move together.
LEMMA SlotStep ==
    TypeOK /\ RequestsHold /\ CandidatesOrphaned /\ NewestRow /\ LogShowsSlot /\ [Next]_vars
        => NewestRow' /\ LogShowsSlot'
<1> SUFFICES ASSUME TypeOK, RequestsHold, CandidatesOrphaned, NewestRow, LogShowsSlot,
                    [Next]_vars
             PROVE  NewestRow' /\ LogShowsSlot'
  OBVIOUS
<1>1. CASE UNCHANGED <<row, opened, feed>> /\ (scanLive' => scanLive)
  BY <1>1 DEF NewestRow, LogShowsSlot
<1>2. ASSUME row # None, NEW expiry \in Int, NEW size \in Sizes, NEW status \in Status,
             Save(Settled(status, expiry, size)), UNCHANGED opened
      PROVE  NewestRow' /\ LogShowsSlot'
  <2>1. row' # None /\ row'.id = row.id
    BY <1>2, SettledType, ConstantsOK DEF Save, TypeOK
  <2>2. QED BY <1>2, <2>1 DEF Save, NewestRow, LogShowsSlot
<1>a. row # None => row.expiry \in Int /\ row.size \in Sizes /\ row.status \in Status
  BY DEF TypeOK, Row
<1>b. NoExpiry \in Int /\ Status = {"PENDING", "UPLOADED", "FAILED"}
  BY DEF NoExpiry, Status
<1>3. ASSUME NEW r \in Requests, Create(r) PROVE NewestRow' /\ LogShowsSlot'
  <2>1. CASE (\E k \in Keys, s \in Sizes : CreateRead(r, k, s)) \/ CreateReuse(r)
               \/ CreateBegin(r)
    BY <2>1, <1>1 DEF CreateRead, CreateReuse, CreateBegin
  <2>2. CASE CreateWrite(r)
    <3> DEFINE session == [id |-> opened + 1, status |-> "PENDING", expiry |-> req[r].until,
                           rev |-> 1, size |-> req[r].size, deleted |-> FALSE]
    <3>1. req[r].size \in Sizes /\ req[r].until \in Int
      BY <2>2 DEF CreateWrite, TypeOK, RequestsHold, Request
    <3>2. session \in Row
      BY <3>1 DEF TypeOK, Row, Status
    <3>3. CASE Save(session) /\ opened' = opened + 1
      BY <3>2, <3>3, ConstantsOK DEF Save, NewestRow, LogShowsSlot
    <3>4. CASE /\ row # None /\ Save(Settled("PENDING", req[r].until, req[r].size))
               /\ UNCHANGED opened
      BY <3>1, <3>4, <1>2, <1>b
    <3>5. QED BY <2>2, <3>3, <3>4 DEF CreateWrite
  <2>3. QED BY <1>3, <2>1, <2>2 DEF Create
<1>4. ASSUME NEW r \in Requests, Complete(r) \/ FailUpload(r)
      PROVE  NewestRow' /\ LogShowsSlot'
  <2>1. CASE CompleteRead(r) \/ VerifyObject(r) \/ PersistThumbnail(r) \/ FailRead(r)
    BY <2>1, <1>1 DEF CompleteRead, VerifyObject, PersistThumbnail, FailRead
  <2>2. CASE CompleteMark(r)
    BY <2>2, <1>1, <1>2, <1>b DEF CompleteMark, Guarded, Reread
  <2>3. CASE CompleteMarkFailed(r)
    BY <2>3, <1>1, <1>2, <1>a, <1>b DEF CompleteMarkFailed, Guarded, Reread
  <2>4. CASE FailMark(r)
    BY <2>4, <1>1, <1>2, <1>a, <1>b DEF FailMark, Guarded
  <2>5. QED BY <1>4, <2>1, <2>2, <2>3, <2>4 DEF Complete, FailUpload
<1>5. ASSUME NEW r \in Requests, Abandon(r) PROVE NewestRow' /\ LogShowsSlot'
  BY <1>5, <1>1 DEF Abandon
<1>6. CASE Expiry
  <2>1. CASE ExpirySelect \/ ExpiryDies
    BY <2>1, <1>1 DEF ExpirySelect, ExpiryDies
  <2>2. CASE ExpiryFail
    BY <2>2, <1>1, <1>2, <1>a, <1>b DEF ExpiryFail, Guarded
  <2>3. QED BY <1>6, <2>1, <2>2 DEF Expiry
<1>7. ASSUME NEW c \in Cleaners, Cleanup(c) PROVE NewestRow' /\ LogShowsSlot'
  <2>1. CASE CleanupSelect(c) \/ CleanupErase(c) \/ CleanupFind(c) \/ CleanupSkips(c)
    BY <2>1, <1>1 DEF CleanupSelect, CleanupErase, CleanupFind, CleanupSkips
  <2>2. CASE CleanupClaim(c)
    <3>1. CASE Claimable(c)
      <4>1. row' = None /\ UNCHANGED <<opened, scanLive>> /\ row # None
        BY <2>2, <3>1 DEF CleanupClaim, Claimable, LiveRow
      <4>2. feed' \in Change /\ feed'.op = "DELETE" /\ feed'.id = row.id
        <5>1. cleaner[c].cand \in Row \cup {None} /\ cleaner[c].cand # None
          BY <2>2 DEF CleanupClaim, TypeOK, Run, CandidatesOrphaned
        <5>2. TombstoneRevision(c) \in Nat /\ row.id \in Nat
          BY <4>1, <5>1 DEF TombstoneRevision, TypeOK, Row
        <5>3. QED BY <2>2, <3>1, <5>2 DEF CleanupClaim, Change
      <4>3. feed' # None
        BY <4>2, ConstantsOK
      <4>4. QED BY <4>1, <4>2, <4>3 DEF NewestRow, LogShowsSlot
    <3>2. CASE ~Claimable(c)
      BY <2>2, <3>2, <1>1 DEF CleanupClaim
    <3>3. QED BY <3>1, <3>2
  <2>3. QED BY <1>7, <2>1, <2>2 DEF Cleanup
<1>8. CASE World
  <2>1. CASE (\E u \in urls : Put(u)) \/ Tick
    BY <2>1, <1>1 DEF Put, Tick
  <2>2. CASE DeleteScan
    <3>1. LiveRow => row'.id = row.id /\ UNCHANGED opened
      BY <2>2, EntombedType DEF DeleteScan, LiveRow, TypeOK
    <3>2. ~scanLive' /\ UNCHANGED opened /\ (~LiveRow => UNCHANGED row)
      BY <2>2 DEF DeleteScan
    <3>3. QED BY <3>1, <3>2 DEF NewestRow, LogShowsSlot, LiveRow
  <2>3. CASE ListForDeletion
    BY <2>3, <1>1 DEF ListForDeletion
  <2>4. CASE DeleteProject
    <3>1. UNCHANGED row \/ (row # None /\ row' = Entombed)
      BY <2>4 DEF DeleteProject, Reached
    <3>2. row # None => Entombed.id = row.id
      BY EntombedType DEF TypeOK
    <3>3. ~scanLive' /\ UNCHANGED opened
      BY <2>4 DEF DeleteProject
    <3>4. QED BY <3>1, <3>2, <3>3 DEF NewestRow, LogShowsSlot
  <2>5. QED BY <1>8, <2>1, <2>2, <2>3, <2>4 DEF World, Deletions
<1>9. CASE UNCHANGED vars
  BY <1>9, <1>1 DEF vars
<1>10. QED BY <1>3, <1>4, <1>5, <1>6, <1>7, <1>8, <1>9 DEF Next

-----------------------------------------------------------------------------

\* The session a scan is created with is a row and not None.
LEMMA FirstSession ==
    ASSUME NEW s \in Sizes
    PROVE  [id |-> 1, status |-> "PENDING", expiry |-> TTL, rev |-> 1,
            size |-> s, deleted |-> FALSE] # None
<1> DEFINE session == [id |-> 1, status |-> "PENDING", expiry |-> TTL, rev |-> 1,
                       size |-> s, deleted |-> FALSE]
<1>1. TTL \in Int
  BY ConstantsOK
<1>2. session \in Row
  BY <1>1 DEF Row, Status
<1>3. QED BY <1>2, ConstantsOK

\* The inductive invariant holds initially.
LEMMA InvInit == Init => Inv
<1>1. Init => RequestsHold
  BY DEF Init, RequestsHold, Idle, Holding
<1>2. Init => CandidatesOrphaned
  BY DEF Init, CandidatesOrphaned, Resting
<1>3. Init => NewestRow /\ LogShowsSlot
  <2>1. QED BY FirstSession DEF Init, NewestRow, LogShowsSlot
<1>4. QED BY <1>1, <1>2, <1>3, TypeInit DEF Inv

\* Every step keeps the inductive invariant.
LEMMA InvStep == Inv /\ [Next]_vars => Inv'
BY TypeStep, RequestsStep, CandidatesStep, SlotStep DEF Inv

\* The inductive invariant holds in every reachable state.
LEMMA Invariance == Spec => []Inv
<1>1. QED BY InvInit, InvStep, PTL DEF Spec

\* Type correctness: whatever requests and jobs interleave, the row, the change
\* log, the requests and the job runs hold what the program can put in them.
THEOREM TypeCorrect == Spec => []TypeOK
<1>1. Inv => TypeOK
  BY DEF Inv
<1>2. QED BY <1>1, Invariance, PTL

\* The change log of a standing scan's slot ends in the state of the row: the sync
\* writer is called in every transaction that writes it, with what it wrote.
THEOREM LogCorrect == Spec => []LogShowsSlot
<1>1. Inv => LogShowsSlot
  BY DEF Inv
<1>2. QED BY <1>1, Invariance, PTL

\* Every write of the row is one of these, whoever takes the step.
Logged == /\ row' \in Row
          /\ feed' # None /\ feed'.id = row'.id /\ feed'.rev = row'.rev

Renewed == /\ row'.status = "PENDING"
           /\ \E r \in Requests : /\ req[r].pc = "write" /\ row'.expiry = req[r].until
                                  /\ req'[r].pc = "idle"

Opens == /\ row = None /\ Logged /\ Renewed
         /\ row'.id = opened + 1 /\ row'.rev = 1 /\ ~row'.deleted
         /\ opened' = opened + 1

Settles == /\ row.status = "PENDING"
           /\ \/ row'.status = "UPLOADED" /\ row'.expiry = NoExpiry
              \/ row'.status = "FAILED" /\ row'.expiry = row.expiry

Entombs == /\ row'.status = row.status /\ row'.expiry = row.expiry
           /\ row'.deleted = TRUE

Rewrites == /\ row \in Row /\ Logged
            /\ row'.id = row.id /\ row'.rev = row.rev + 1
            /\ UNCHANGED opened
            /\ Entombs \/ (row'.deleted = row.deleted /\ (Renewed \/ Settles))

\* The project's deletion writes the row it listed, if it is still in the slot, and a
\* tombstone of its own count.
Buries == /\ deletion.pc = "listed" /\ deletion.cand # None /\ deletion.cand \in Mark
          /\ deletion' # deletion /\ deletion' = Resting
          /\ UNCHANGED opened
          /\ feed' # None
          /\ feed'.id = deletion.cand.id /\ feed'.rev = deletion.cand.rev + 1
          /\ \/ /\ row \in Row /\ row' \in Row
                /\ row.id = deletion.cand.id
                /\ row'.id = row.id /\ row'.rev = row.rev + 1
                /\ Entombs
             \/ /\ row = None \/ row.id # deletion.cand.id
                /\ UNCHANGED row

\* What every step but a listing does to what the project's deletion has read.
Forgets == deletion' = deletion \/ deletion' = Resting

Removes == \E c \in Cleaners :
    /\ cleaner[c].pc = "found" /\ Claimable(c) /\ IsOrphan
    /\ row' = None /\ UNCHANGED opened
    /\ feed' # None /\ feed'.id = row.id /\ feed'.rev = TombstoneRevision(c)

\* Every step changes the row in one of the ways the lifecycle knows, or not at all.
LEMMA RowMoves ==
    Inv /\ [Next]_vars =>
        UNCHANGED <<row, opened, feed>> \/ Opens \/ Rewrites \/ Removes \/ Buries
<1> SUFFICES ASSUME Inv, [Next]_vars
             PROVE  UNCHANGED <<row, opened, feed>> \/ Opens \/ Rewrites \/ Removes \/ Buries
  OBVIOUS
<1> USE DEF Inv, TypeOK
<1>a. row # None => /\ row \in Row /\ row.expiry \in Int /\ row.size \in Sizes
                    /\ row.status \in Status /\ row.rev \in Nat
  BY DEF Row
<1>b. NoExpiry \in Int /\ Status = {"PENDING", "UPLOADED", "FAILED"}
  BY DEF NoExpiry, Status
<1>c. ASSUME NEW new \in Row, Save(new) PROVE Logged /\ row' = new
  <2>1. feed' \in Change /\ feed'.id = new.id /\ feed'.rev = new.rev /\ row' = new
    BY <1>c DEF Save, Change, Row
  <2>2. QED BY <2>1, ConstantsOK DEF Logged
<1>1. ASSUME row # None, NEW expiry \in Int, NEW size \in Sizes, NEW status \in Status,
             Save(Settled(status, expiry, size)), UNCHANGED opened
      PROVE  /\ row \in Row /\ Logged /\ row'.id = row.id /\ row'.rev = row.rev + 1
             /\ row'.status = status /\ row'.expiry = expiry /\ row'.deleted = row.deleted
  BY <1>1, <1>a, <1>c, SettledType
<1>2. ASSUME NEW r \in Requests, Create(r)
      PROVE  UNCHANGED <<row, opened, feed>> \/ Opens \/ Rewrites
  <2>1. CASE (\E k \in Keys, s \in Sizes : CreateRead(r, k, s)) \/ CreateReuse(r)
               \/ CreateBegin(r)
    BY <2>1 DEF CreateRead, CreateReuse, CreateBegin
  <2>2. CASE CreateWrite(r)
    <3> DEFINE session == [id |-> opened + 1, status |-> "PENDING", expiry |-> req[r].until,
                           rev |-> 1, size |-> req[r].size, deleted |-> FALSE]
    <3>1. req[r].size \in Sizes /\ req[r].until \in Int
      BY <2>2 DEF CreateWrite, RequestsHold, Request
    <3>2. session \in Row
      BY <3>1 DEF Row, Status
    <3>a. req[r].pc = "write" /\ req'[r].pc = "idle"
      BY <2>2 DEF CreateWrite, End, Idle, Holding
    <3>3. CASE row = None /\ Save(session) /\ opened' = opened + 1
      <4>1. Logged /\ row' = session
        BY <1>c, <3>2, <3>3
      <4>2. QED BY <3>3, <3>a, <4>1 DEF Opens, Renewed
    <3>4. CASE /\ row # None /\ Save(Settled("PENDING", req[r].until, req[r].size))
               /\ UNCHANGED opened
      BY <3>1, <3>4, <3>a, <1>1, <1>b DEF Rewrites, Renewed
    <3>5. QED BY <2>2, <3>3, <3>4 DEF CreateWrite
  <2>3. QED BY <1>2, <2>1, <2>2 DEF Create
<1>d. ASSUME row # None, Stuck(row), UNCHANGED opened,
             \/ Save(Settled("FAILED", row.expiry, row.size))
             \/ \E s \in Sizes : Save(Settled("UPLOADED", NoExpiry, s))
      PROVE  Rewrites
  <2>1. CASE Save(Settled("FAILED", row.expiry, row.size))
    BY <1>d, <1>a, <1>b, <1>1, <2>1 DEF Rewrites, Settles, Stuck
  <2>2. ASSUME NEW s \in Sizes, Save(Settled("UPLOADED", NoExpiry, s)) PROVE Rewrites
    BY <1>d, <1>a, <1>b, <1>1, <2>2 DEF Rewrites, Settles, Stuck
  <2>3. QED BY <1>d, <2>1, <2>2
<1>3. ASSUME NEW r \in Requests, Complete(r) \/ FailUpload(r)
      PROVE  UNCHANGED <<row, opened, feed>> \/ Rewrites
  <2>1. CASE CompleteRead(r) \/ VerifyObject(r) \/ PersistThumbnail(r) \/ FailRead(r)
    BY <2>1 DEF CompleteRead, VerifyObject, PersistThumbnail, FailRead
  <2>2. CASE CompleteMark(r) \/ CompleteMarkFailed(r)
    BY <2>2, <1>d DEF CompleteMark, CompleteMarkFailed, Guarded, Reread
  <2>3. CASE FailMark(r)
    BY <2>3, <1>d DEF FailMark, Guarded
  <2>4. QED BY <1>3, <2>1, <2>2, <2>3 DEF Complete, FailUpload
<1>4. ASSUME NEW r \in Requests, Abandon(r) PROVE UNCHANGED <<row, opened, feed>>
  BY <1>4 DEF Abandon
<1>5. CASE Expiry
  BY <1>5, <1>d DEF Expiry, ExpirySelect, ExpiryDies, ExpiryFail, Guarded
<1>6. ASSUME NEW c \in Cleaners, Cleanup(c) PROVE UNCHANGED <<row, opened, feed>> \/ Removes
  <2>1. CASE CleanupSelect(c) \/ CleanupErase(c) \/ CleanupFind(c) \/ CleanupSkips(c)
    BY <2>1 DEF CleanupSelect, CleanupErase, CleanupFind, CleanupSkips
  <2>2. CASE CleanupClaim(c)
    <3>1. CASE Claimable(c)
      <4>1. IsOrphan
        BY <2>2, <3>1 DEF CleanupClaim, Claimable, CandidatesOrphaned, IsOrphan, Stuck,
           PastCutoff
      <4>2. TombstoneRevision(c) \in Nat /\ row.id \in Nat
        BY <2>2, <3>1 DEF CleanupClaim, Claimable, LiveRow, TombstoneRevision, Row, Run,
           CandidatesOrphaned
      <4>3. feed' \in Change /\ feed'.id = row.id /\ feed'.rev = TombstoneRevision(c)
        BY <2>2, <3>1, <4>2 DEF CleanupClaim, Change
      <4>4. QED BY <2>2, <3>1, <4>1, <4>3, ConstantsOK DEF CleanupClaim, Removes
    <3>2. CASE ~Claimable(c)
      BY <2>2, <3>2 DEF CleanupClaim
    <3>3. QED BY <3>1, <3>2
  <2>3. QED BY <1>6, <2>1, <2>2 DEF Cleanup
<1>7. CASE World
  <2>1. CASE (\E u \in urls : Put(u)) \/ Tick
    BY <2>1 DEF Put, Tick
  <2>2. CASE DeleteScan
    <3>1. CASE LiveRow
      <4>1. row \in Row /\ row' = Entombed /\ UNCHANGED opened
        BY <2>2, <3>1, <1>a DEF DeleteScan, LiveRow
      <4>2. feed' \in Change /\ feed'.id = row.id /\ feed'.rev = row.rev + 1
        BY <2>2, <3>1, <1>a DEF DeleteScan, LiveRow, Change, Row
      <4>3. QED BY <4>1, <4>2, EntombedType, ConstantsOK DEF Rewrites, Entombs, Logged
    <3>2. CASE ~LiveRow
      BY <2>2, <3>2 DEF DeleteScan
    <3>3. QED BY <3>1, <3>2
  <2>3. CASE ListForDeletion
    BY <2>3 DEF ListForDeletion
  <2>4. CASE DeleteProject
    <3>1. CASE deletion.cand = None
      BY <2>4, <3>1 DEF DeleteProject
    <3>2. CASE deletion.cand # None
      <4>1. /\ deletion.cand \in Mark
            /\ deletion.cand.id \in Nat /\ deletion.cand.rev \in Nat
            /\ deletion.cand.rev + 1 \in Nat
        BY <3>2 DEF Listing, Mark
      <4>2. deletion.pc = "listed" /\ deletion' = Resting /\ deletion' # deletion
        BY <2>4 DEF DeleteProject, Resting
      <4>3. /\ feed' \in Change /\ feed'.id = deletion.cand.id
            /\ feed'.rev = deletion.cand.rev + 1
        BY <2>4, <3>2, <4>1 DEF DeleteProject, Change
      <4>4. CASE Reached
        <5>1. row \in Row /\ row' = Entombed /\ row.id = deletion.cand.id
          BY <2>4, <3>2, <4>4, <1>a DEF DeleteProject, Reached
        <5>2. QED BY <2>4, <3>2, <4>1, <4>2, <4>3, <5>1, EntombedType, ConstantsOK
                  DEF DeleteProject, Buries, Entombs
      <4>5. CASE ~Reached
        BY <2>4, <3>2, <4>1, <4>2, <4>3, <4>5, ConstantsOK DEF DeleteProject, Reached, Buries
      <4>6. QED BY <4>4, <4>5
    <3>3. QED BY <3>1, <3>2
  <2>5. QED BY <1>7, <2>1, <2>2, <2>3, <2>4 DEF World, Deletions
<1>8. CASE UNCHANGED vars
  BY <1>8 DEF vars
<1>9. QED BY <1>2, <1>3, <1>4, <1>5, <1>6, <1>7, <1>8 DEF Next

\* A claim under the status and expiry it was selected with takes an orphan only,
\* for any number of cleanup runs that overlap and requests that renew.
THEOREM SparesSessions == Spec => CleanupSparesSessions
<1>1. Inv /\ [Next]_vars => [row # None /\ row' = None => IsOrphan]_vars
  BY RowMoves, ConstantsOK DEF Opens, Rewrites, Logged, Removes, Buries
<1>2. QED BY <1>1, Invariance, PTL DEF Spec, CleanupSparesSessions

\* The component implements the lifecycle: every race of requests, jobs and the
\* deletions of scan and project shows a reader of the table a legal history of the slot.
THEOREM Implements == Spec => LifecycleSpec
<1> DEFINE Shown(x) == [id |-> x.id, status |-> x.status, rev |-> x.rev,
                        deleted |-> x.deleted]
<1>a. ASSUME NEW x \in Row PROVE Shown(x) # None /\ x # None
  <2>1. Shown(x) \in Outline
    BY DEF Row, Outline
  <2>2. QED BY <2>1, ConstantsOK
<1>1. Init => Lifecycle!Init
  <2> SUFFICES ASSUME Init PROVE Lifecycle!Init
    OBVIOUS
  <2>1. CASE row = None /\ opened = 0
    BY <2>1 DEF Lifecycle!Init
  <2>2. ASSUME NEW s \in Sizes, opened = 1,
               row = [id |-> 1, status |-> "PENDING", expiry |-> TTL, rev |-> 1,
                      size |-> s, deleted |-> FALSE]
        PROVE  Lifecycle!Init
    BY <2>2, FirstSession DEF Lifecycle!Init, Lifecycle!New
  <2>3. QED BY <2>1, <2>2 DEF Init
<1>2. Inv /\ [Next]_vars => [Lifecycle!Next]_Lifecycle!vars
  <2> SUFFICES ASSUME Inv, [Next]_vars PROVE [Lifecycle!Next]_Lifecycle!vars
    OBVIOUS
  <2>a. row \in Row \cup {None} /\ row' \in Row \cup {None}
    BY InvStep DEF Inv, TypeOK
  <2>1. CASE UNCHANGED <<row, opened>>
    BY <2>1 DEF Lifecycle!vars
  <2>2. CASE Opens
    <3>1. row' \in Row /\ Shown(row') = Lifecycle!New(opened + 1)
      BY <2>2, <2>a DEF Opens, Logged, Renewed, Lifecycle!New, Row
    <3>2. Lifecycle!Open
      BY <2>2, <3>1, <1>a DEF Opens, Lifecycle!Open
    <3>3. QED BY <3>2 DEF Lifecycle!Next
  <2>3. CASE Rewrites
    <3>1. row \in Row /\ row' \in Row /\ Shown(row) # None /\ row # None /\ row' # None
      BY <2>3, <2>a, <1>a DEF Rewrites, Logged
    <3>2. Shown(row') = [id |-> row.id, status |-> row'.status, rev |-> row.rev + 1,
                         deleted |-> row'.deleted]
      BY <2>3 DEF Rewrites
    <3>3. Lifecycle!Write(row'.status, row'.deleted)
      BY <2>3, <3>1, <3>2 DEF Rewrites, Lifecycle!Write
    <3>4. CASE Renewed /\ row'.deleted = row.deleted
      BY <3>1, <3>3, <3>4 DEF Renewed, Lifecycle!Next, Lifecycle!Renew
    <3>5. CASE Settles /\ row'.deleted = row.deleted
      BY <3>1, <3>3, <3>5 DEF Settles, Lifecycle!Next, Lifecycle!Settle
    <3>6. CASE Entombs
      <4>1. row'.deleted = TRUE
        BY <3>1, <3>6 DEF Entombs, Row
      <4>2. QED BY <3>1, <3>3, <3>6, <4>1 DEF Entombs, Lifecycle!Next, Lifecycle!Entomb
    <3>7. QED BY <2>3, <3>4, <3>5, <3>6 DEF Rewrites
  <2>4. CASE Removes
    <3>1. row \in Row /\ Shown(row) # None /\ row # None
      BY <2>4, <2>a, <1>a DEF Removes, IsOrphan, LiveRow
    <3>2. Lifecycle!Discard
      BY <2>4, <3>1 DEF Removes, IsOrphan, LiveRow, Stuck, Lifecycle!Discard
    <3>3. QED BY <3>2 DEF Lifecycle!Next
  <2>5. CASE Buries
    <3>1. CASE UNCHANGED row
      BY <2>1, <2>5, <3>1 DEF Buries
    <3>2. CASE /\ row \in Row /\ row' \in Row /\ row'.id = row.id /\ row'.rev = row.rev + 1
               /\ Entombs
      <4>1. Shown(row) # None /\ row # None /\ row' # None
        BY <3>2, <1>a
      <4>2. Shown(row') = [id |-> row.id, status |-> row.status, rev |-> row.rev + 1,
                           deleted |-> TRUE]
        BY <3>2 DEF Entombs
      <4>3. Lifecycle!Write(row.status, TRUE)
        BY <2>5, <3>2, <4>1, <4>2 DEF Buries, Lifecycle!Write
      <4>4. QED BY <3>2, <4>1, <4>3 DEF Lifecycle!Next, Lifecycle!Entomb
    <3>3. QED BY <2>5, <3>1, <3>2 DEF Buries
  <2>6. QED BY <2>1, <2>2, <2>3, <2>4, <2>5, RowMoves
<1>3. QED BY <1>1, <1>2, Invariance, PTL DEF Spec, LifecycleSpec, Lifecycle!Spec

-----------------------------------------------------------------------------
(***************************************************************************)
(* The change log of a slot never goes back, and without cleanup runs an   *)
(* UPLOADED asset has its object: theorems that rest on Inv and the case   *)
(* analysis above.                                                         *)
(***************************************************************************)

\* A request comes to write an expiry by starting a session, after all others.
Starts == \E r \in Requests :
    /\ issued' > issued /\ issued' \in Nat /\ req'[r].until = issued'
    /\ \A q \in Requests : q # r => req'[q] = req[q]
    /\ UNCHANGED <<row, opened, feed, cleaner>>

Keeps == /\ UNCHANGED issued
         /\ \A r \in Requests :
               Writing(r)' => Writing(r) /\ req'[r].until = req[r].until

\* A step either brings one request to a fresh expiry or gives no request a new one.
LEMMA RequestMoves == Inv /\ [Next]_vars => Starts \/ Keeps
<1> SUFFICES ASSUME Inv, [Next]_vars PROVE Starts \/ Keeps
  OBVIOUS
<1> USE DEF Inv, TypeOK
<1>1. CASE UNCHANGED <<req, issued>>
  BY <1>1 DEF Keeps, Writing
<1>2. ASSUME NEW r \in Requests, UNCHANGED issued, NEW pc,
             Step(r, pc), pc \notin {"begin", "write"} \/ (pc = "write" /\ req[r].pc = "begin")
      PROVE  Keeps
  <2>1. ASSUME NEW q \in Requests, q # r PROVE req'[q] = req[q]
    BY <1>2, <2>1 DEF Step
  <2>2. req'[r].pc = pc /\ req'[r].until = req[r].until
    BY <1>2 DEF Step, Request
  <2>3. QED BY <1>2, <2>1, <2>2 DEF Keeps, Writing
<1>3. ASSUME NEW r \in Requests, UNCHANGED issued, NEW new,
             new.pc \notin {"begin", "write"}, req' = [req EXCEPT ![r] = new]
      PROVE  Keeps
  BY <1>3 DEF Keeps, Writing
<1>4. ASSUME NEW r \in Requests, UNCHANGED issued, End(r) PROVE Keeps
  BY <1>3, <1>4 DEF End, Idle, Holding
<1>5. ASSUME NEW r \in Requests, NEW k \in Keys, NEW s \in Sizes, CreateRead(r, k, s)
      PROVE  Starts \/ Keeps
  <2> DEFINE seen   == IF LiveRow THEN row ELSE None
             active == seen # None /\ Stuck(seen) /\ seen.expiry > clock
             next   == [pc |-> IF active THEN "reuse" ELSE "begin", key |-> k, size |-> s,
                        until |-> IF active THEN seen.expiry ELSE clock + TTL,
                        snap |-> seen]
  <2>1. req' = [req EXCEPT ![r] = next]
    BY <1>5 DEF CreateRead
  <2>2. CASE active
    BY <1>3, <1>5, <2>1, <2>2 DEF CreateRead
  <2>3. CASE ~active
    <3>1. issued' = clock + TTL /\ issued' > issued /\ issued' \in Nat
      BY <1>5, <2>3, ConstantsOK DEF CreateRead
    <3>2. QED BY <1>5, <2>1, <2>3, <3>1 DEF CreateRead, Starts
  <2>4. QED BY <2>2, <2>3
<1>6. ASSUME NEW r \in Requests, Create(r) PROVE Starts \/ Keeps
  BY <1>6, <1>2, <1>4, <1>5 DEF Create, CreateReuse, CreateBegin, CreateWrite
<1>7. ASSUME NEW r \in Requests, Complete(r) \/ FailUpload(r) PROVE Keeps
  <2>1. CASE CompleteRead(r) \/ FailRead(r)
    <3>1. \E pc \in {"verify", "fail", "display"} : req' = [req EXCEPT ![r] = Holding(pc, row)]
      BY <2>1 DEF CompleteRead, FailRead
    <3>2. QED BY <2>1, <3>1, <1>3 DEF CompleteRead, FailRead, Holding
  <2>2. CASE VerifyObject(r)
    BY <2>2, <1>2 DEF VerifyObject
  <2>3. CASE CompleteMark(r) \/ CompleteMarkFailed(r)
    BY <2>3, <1>2, <1>4 DEF CompleteMark, CompleteMarkFailed, Reread
  <2>4. CASE PersistThumbnail(r) \/ FailMark(r)
    BY <2>4, <1>4 DEF PersistThumbnail, FailMark
  <2>5. QED BY <1>7, <2>1, <2>2, <2>3, <2>4 DEF Complete, FailUpload
<1>8. ASSUME NEW r \in Requests, Abandon(r) PROVE Keeps
  BY <1>8, <1>4 DEF Abandon
<1>9. CASE Expiry
  BY <1>1, <1>9 DEF Expiry, ExpirySelect, ExpiryFail, ExpiryDies
<1>10. ASSUME NEW c \in Cleaners, Cleanup(c) PROVE UNCHANGED <<req, issued>>
  BY <1>10 DEF Cleanup, CleanupSelect, CleanupErase, CleanupFind, CleanupClaim,
     CleanupSkips
<1>11. CASE World
  BY <1>1, <1>11 DEF World, Deletions, Put, DeleteScan, ListForDeletion, DeleteProject,
     Tick
<1>12. QED BY <1>1, <1>6, <1>7, <1>8, <1>9, <1>10, <1>11 DEF Next, vars

\* A cleanup run comes to hold what it found by reading the row.
Finds == \E c \in Cleaners :
    /\ row \in Row /\ cleaner'[c].cand = row
    /\ \A d \in Cleaners : d # c => cleaner'[d] = cleaner[d]
    /\ UNCHANGED <<row, opened, feed, req, issued>>

Awaits == \A c \in Cleaners : cleaner'[c].pc = "found" => cleaner'[c] = cleaner[c]

\* A cleanup run either finds the row of its key or still waits to.
LEMMA CleanerMoves == Inv /\ [Next]_vars => Finds \/ Awaits
<1> SUFFICES ASSUME Inv, [Next]_vars PROVE Finds \/ Awaits
  OBVIOUS
<1> USE DEF Inv, TypeOK
<1>1. CASE UNCHANGED cleaner
  BY <1>1 DEF Awaits
<1>2. ASSUME NEW c \in Cleaners, Cleanup(c) PROVE Finds \/ Awaits
  <2>1. ASSUME NEW new, new.pc # "found", cleaner' = [cleaner EXCEPT ![c] = new] PROVE Awaits
    BY <2>1 DEF Awaits
  <2>2. CASE CleanupSelect(c)
    BY <2>1, <2>2 DEF CleanupSelect
  <2>3. CASE CleanupErase(c)
    BY <2>3 DEF CleanupErase, Awaits, Run
  <2>4. CASE CleanupFind(c)
    <3>1. CASE Claimable(c)
      BY <2>4, <3>1 DEF CleanupFind, Claimable, LiveRow, Finds
    <3>2. CASE ~Claimable(c)
      BY <2>4, <3>2, <2>1 DEF CleanupFind, Resting
    <3>3. QED BY <3>1, <3>2
  <2>5. CASE CleanupClaim(c) \/ CleanupSkips(c)
    BY <2>5, <2>1 DEF CleanupClaim, CleanupSkips, Resting
  <2>6. QED BY <1>2, <2>2, <2>3, <2>4, <2>5 DEF Cleanup
<1>3. ASSUME NEW r \in Requests, Create(r) \/ Complete(r) \/ FailUpload(r) \/ Abandon(r)
      PROVE  UNCHANGED cleaner
  BY <1>3 DEF Create, CreateRead, CreateReuse, CreateBegin, CreateWrite, Complete,
     CompleteRead, VerifyObject, CompleteMark, CompleteMarkFailed, PersistThumbnail,
     FailUpload, FailRead, FailMark, Abandon
<1>4. CASE Expiry
  BY <1>1, <1>4 DEF Expiry, ExpirySelect, ExpiryFail, ExpiryDies
<1>5. CASE World
  BY <1>1, <1>5 DEF World, Deletions, Put, DeleteScan, ListForDeletion, DeleteProject,
     Tick
<1>6. QED BY <1>1, <1>2, <1>3, <1>4, <1>5 DEF Next, vars

\* Every step keeps the sessions that requests hold apart from each other.
LEMMA SessionsStep == Inv /\ SessionsDiffer /\ [Next]_vars => SessionsDiffer'
<1> SUFFICES ASSUME Inv, SessionsDiffer, [Next]_vars PROVE SessionsDiffer'
  OBVIOUS
<1>a. /\ issued \in Nat /\ issued' \in Nat
      /\ row # None => row \in Row /\ row.expiry \in Int
      /\ row' # None => row' \in Row /\ row'.expiry \in Int
      /\ \A c \in Cleaners : cleaner[c].pc = "found" => cleaner[c].cand.expiry \in Int
  <2>1. TypeOK' /\ TypeOK /\ CandidatesOrphaned
    BY InvStep DEF Inv
  <2>2. QED BY <2>1 DEF TypeOK, CandidatesOrphaned, Row, Run
<1>1. CASE Starts
  <2>1. PICK r \in Requests :
               /\ issued' > issued /\ req'[r].until = issued'
               /\ \A q \in Requests : q # r => req'[q] = req[q]
    BY <1>1 DEF Starts
  <2>2. UNCHANGED <<row, cleaner>>
    BY <1>1 DEF Starts
  <2>3. row # None => row.expiry < issued' /\ row.expiry <= issued'
    BY <1>a, <2>1 DEF SessionsDiffer
  <2>4. ASSUME NEW q \in Requests, q # r, Writing(q)'
        PROVE  /\ req'[q] = req[q] /\ Writing(q)
               /\ req[q].until \in 0..issued' /\ req[q].until < issued'
    BY <1>a, <2>1, <2>4 DEF SessionsDiffer, Writing
  <2>5. ASSUME NEW c \in Cleaners, cleaner[c].pc = "found"
        PROVE  cleaner[c].cand.expiry <= issued' /\ cleaner[c].cand.expiry < issued'
    BY <1>a, <2>1, <2>5 DEF SessionsDiffer
  <2>6. issued' \in 0..issued'
    BY <1>a
  <2>7. ASSUME NEW p \in Requests, Writing(p)'
        PROVE  /\ req'[p].until \in 0..issued'
               /\ row' # None => row'.expiry # req'[p].until
               /\ \A q \in Requests : Writing(q)' /\ q # p => req'[q].until # req'[p].until
               /\ \A c \in Cleaners : cleaner'[c].pc = "found" =>
                     req'[p].until # cleaner'[c].cand.expiry
    <3>1. CASE p = r
      BY <1>a, <2>1, <2>2, <2>3, <2>4, <2>5, <2>6, <3>1
    <3>2. CASE p # r
      BY <1>a, <2>1, <2>2, <2>4, <2>7, <3>2 DEF SessionsDiffer
    <3>3. QED BY <3>1, <3>2
  <2>8. row' # None => row'.expiry <= issued'
    BY <2>2, <2>3
  <2>9. \A c \in Cleaners : cleaner'[c].pc = "found" => cleaner'[c].cand.expiry <= issued'
    BY <2>2, <2>5
  <2>10. QED BY <2>7, <2>8, <2>9 DEF SessionsDiffer, Writing
<1>2. CASE Finds
  <2>1. PICK d \in Cleaners : /\ row \in Row /\ cleaner'[d].cand = row
                              /\ \A e \in Cleaners : e # d => cleaner'[e] = cleaner[e]
    BY <1>2 DEF Finds
  <2>2. UNCHANGED <<row, req, issued>> /\ row # None
    BY <1>2, <2>1, ConstantsOK DEF Finds
  <2>3. ASSUME NEW c \in Cleaners, cleaner'[c].pc = "found"
        PROVE  /\ cleaner'[c].cand.expiry <= issued
               /\ \A r \in Requests : Writing(r) => req[r].until # cleaner'[c].cand.expiry
    <3>1. CASE c = d
      BY <2>1, <2>2, <3>1 DEF SessionsDiffer
    <3>2. CASE c # d
      BY <2>1, <2>3, <3>2 DEF SessionsDiffer
    <3>3. QED BY <3>1, <3>2
  <2>4. QED BY <2>2, <2>3 DEF SessionsDiffer, Writing
<1>3. CASE Keeps /\ Awaits
  <2>1. row' # None =>
          /\ row'.expiry <= issued
          /\ \A q \in Requests : Writing(q)' => row'.expiry # req[q].until
    <3>1. CASE Opens \/ (Rewrites /\ Renewed)
      <4>1. PICK r \in Requests : /\ req[r].pc = "write" /\ row'.expiry = req[r].until
                                  /\ req'[r].pc = "idle"
        BY <3>1 DEF Opens, Renewed
      <4>2. QED BY <4>1, <1>3, <1>a DEF SessionsDiffer, Keeps, Writing
    <3>2. CASE Rewrites /\ ~Renewed
      <4>1. row'.expiry \in {row.expiry, NoExpiry} /\ row # None
        BY <3>2, ConstantsOK DEF Rewrites, Settles, Entombs
      <4>2. QED BY <4>1, <1>3, <1>a DEF SessionsDiffer, Keeps, Writing, NoExpiry
    <3>3. CASE UNCHANGED row \/ row' = None
      BY <3>3, <1>3, <1>a DEF SessionsDiffer, Keeps
    <3>5. CASE row \in Row /\ row'.expiry = row.expiry
      BY <3>5, <1>3, <1>a, ConstantsOK DEF SessionsDiffer, Keeps, Writing
    <3>4. QED BY <3>1, <3>2, <3>3, <3>5, RowMoves DEF Removes, Buries, Entombs
  <2>2. QED BY <2>1, <1>3, <1>a DEF SessionsDiffer, Keeps, Awaits
<1>4. QED BY <1>1, <1>2, <1>3, RequestMoves, CleanerMoves

\* Every step keeps what a cleanup run found true of the row, or makes the row newer.
LEMMA FoundStep == Inv /\ SessionsDiffer /\ FoundRows /\ [Next]_vars => FoundRows'
<1> SUFFICES ASSUME Inv, SessionsDiffer, FoundRows, [Next]_vars, NEW c \in Cleaners,
                    cleaner'[c].pc = "found"
             PROVE  /\ cleaner'[c].cand.id <= opened'
                    /\ row' # None /\ row'.id = cleaner'[c].cand.id =>
                          \/ /\ row'.rev = cleaner'[c].cand.rev
                             /\ row'.status = cleaner'[c].cand.status
                          \/ row'.deleted
                          \/ row'.expiry # cleaner'[c].cand.expiry
                          \/ row'.status = "UPLOADED"
                          \/ row'.status = "FAILED" /\ cleaner'[c].cand.status = "PENDING"
  BY DEF FoundRows, Stuck
<1>a. /\ opened \in Nat /\ TypeOK /\ CandidatesOrphaned /\ NewestRow
      /\ row # None => row \in Row /\ row.id \in Nat
  BY DEF Inv, TypeOK, Row
<1>b. cleaner[c].pc = "found" => cleaner[c].cand \in Row /\ cleaner[c].cand.id \in Nat
  BY <1>a DEF TypeOK, CandidatesOrphaned, Run, Row
<1>c. SessionsDiffer
  OBVIOUS
<1>1. CASE Finds
  <2>1. PICK d \in Cleaners : /\ row \in Row /\ cleaner'[d].cand = row
                              /\ \A e \in Cleaners : e # d => cleaner'[e] = cleaner[e]
    BY <1>1 DEF Finds
  <2>2. UNCHANGED <<row, opened>>
    BY <1>1 DEF Finds
  <2>3. CASE c = d
    BY <2>1, <2>2, <2>3, <1>a, ConstantsOK DEF NewestRow
  <2>4. CASE c # d
    BY <2>1, <2>2, <2>4, <1>a, <1>b DEF FoundRows, Stuck
  <2>5. QED BY <2>3, <2>4
<1>2. CASE Awaits
  <2> DEFINE cand == cleaner[c].cand
  <2>1. /\ cleaner'[c] = cleaner[c] /\ cleaner[c].pc = "found"
        /\ cand.id <= opened /\ cand.id \in Nat
        /\ cand.status = "FAILED" \/ cand.status = "PENDING"
    BY <1>2, <1>a, <1>b DEF Awaits, FoundRows, CandidatesOrphaned, Stuck
  <2>2. row # None /\ row.id = cand.id =>
          \/ row.rev = cand.rev /\ row.status = cand.status
          \/ row.deleted
          \/ row.expiry # cand.expiry
          \/ row.status = "UPLOADED"
          \/ row.status = "FAILED" /\ cand.status = "PENDING"
    BY <2>1 DEF FoundRows, Stuck
  <2>3. CASE UNCHANGED <<row, opened, feed>>
    BY <2>1, <2>2, <2>3
  <2>4. CASE Opens
    BY <2>1, <2>4, <1>a DEF Opens
  <2>5. CASE Rewrites
    <3> SUFFICES ASSUME row'.id = cand.id, ~row'.deleted
                 PROVE  \/ row'.expiry # cand.expiry
                        \/ row'.status = "UPLOADED"
                        \/ row'.status = "FAILED" /\ cand.status = "PENDING"
      BY <2>1, <2>5 DEF Rewrites
    <3>1. row # None /\ row.id = cand.id /\ (row'.deleted = row.deleted)
      BY <2>5, ConstantsOK DEF Rewrites, Entombs
    <3>2. CASE Renewed
      BY <1>c, <2>1, <3>2 DEF Renewed, SessionsDiffer, Writing
    <3>3. CASE Settles
      BY <2>1, <2>2, <3>1, <3>3 DEF Settles
    <3>4. QED BY <2>5, <3>2, <3>3 DEF Rewrites, Entombs
  <2>6. CASE Removes
    BY <2>1, <2>6 DEF Removes
  <2>8. CASE Buries
    BY <2>1, <2>2, <2>8 DEF Buries, Entombs
  <2>7. QED BY <2>3, <2>4, <2>5, <2>6, <2>8, RowMoves
<1>3. QED BY <1>1, <1>2, CleanerMoves

\* Every step keeps the last change within what the row has counted.
LEMMA FeedStep == Inv /\ FeedMatches /\ ListedRow /\ [Next]_vars => FeedMatches'
<1> SUFFICES ASSUME Inv, FeedMatches, ListedRow, [Next]_vars PROVE FeedMatches'
  OBVIOUS
<1>1. /\ opened \in Nat /\ NewestRow /\ TypeOK
      /\ row # None => row.id \in Nat /\ row.rev \in Nat
  BY DEF Inv, TypeOK, Row
<1>2. CASE UNCHANGED <<row, opened, feed>>
  BY <1>2 DEF FeedMatches
<1>3. CASE Opens
  BY <1>1, <1>3 DEF Opens, Logged, FeedMatches
<1>4. CASE Rewrites
  BY <1>1, <1>4, ConstantsOK DEF Rewrites, Logged, FeedMatches, NewestRow, Row
<1>5. CASE Removes
  BY <1>1, <1>5 DEF Removes, Claimable, LiveRow, FeedMatches, NewestRow
<1>6. CASE Buries
  <2>1. deletion.cand.id \in Nat /\ deletion.cand.rev \in Nat
    BY <1>6 DEF Buries, Mark
  <2>2. QED BY <1>1, <1>6, <2>1, ConstantsOK DEF Buries, FeedMatches, ListedRow, NewestRow
<1>7. QED BY <1>2, <1>3, <1>4, <1>5, <1>6, RowMoves

\* The project's deletion reads the row once; every other step leaves what it read.
LEMMA ListingMoves ==
    Inv /\ [Next]_vars =>
        \/ Forgets
        \/ /\ row \in Row /\ deletion'.cand = [id |-> row.id, rev |-> row.rev]
           /\ UNCHANGED <<row, opened>>
        \/ deletion'.cand = None
<1> SUFFICES ASSUME Inv, [Next]_vars, ~Forgets
             PROVE  \/ /\ row \in Row /\ deletion'.cand = [id |-> row.id, rev |-> row.rev]
                       /\ UNCHANGED <<row, opened>>
                    \/ deletion'.cand = None
  OBVIOUS
<1> USE DEF Forgets
<1>1. ASSUME NEW r \in Requests, Create(r) \/ Complete(r) \/ FailUpload(r) \/ Abandon(r)
      PROVE  UNCHANGED deletion
  BY <1>1 DEF Create, CreateRead, CreateReuse, CreateBegin, CreateWrite, Complete,
     CompleteRead, VerifyObject, CompleteMark, CompleteMarkFailed, PersistThumbnail,
     FailUpload, FailRead, FailMark, Abandon
<1>2. CASE Expiry
  BY <1>2 DEF Expiry, ExpirySelect, ExpiryFail, ExpiryDies
<1>3. ASSUME NEW c \in Cleaners, Cleanup(c) PROVE UNCHANGED deletion
  BY <1>3 DEF Cleanup, CleanupSelect, CleanupErase, CleanupFind, CleanupClaim,
     CleanupSkips
<1>4. CASE World
  BY <1>4 DEF World, Deletions, Put, DeleteScan, ListForDeletion, DeleteProject, Tick,
     LiveRow, Inv, TypeOK
<1>5. QED BY <1>1, <1>2, <1>3, <1>4 DEF Next, vars

\* Every step keeps what the project's deletion read behind the row.
LEMMA ListedStep == Inv /\ ListedRow /\ [Next]_vars => ListedRow'
<1> SUFFICES ASSUME Inv, ListedRow, [Next]_vars PROVE ListedRow'
  OBVIOUS
<1>1. /\ opened \in Nat /\ NewestRow /\ Resting.cand = None
      /\ row # None => row \in Row /\ row.id \in Nat /\ row.rev \in Nat
      /\ deletion.cand # None => deletion.cand.id \in Nat /\ deletion.cand.rev \in Nat
  BY DEF Inv, TypeOK, Row, Listing, Mark, Resting
<1>2. CASE deletion' = deletion
  <2>1. CASE UNCHANGED <<row, opened, feed>>
    BY <1>2, <2>1 DEF ListedRow
  <2>2. CASE Opens
    BY <1>1, <1>2, <2>2 DEF Opens, ListedRow
  <2>3. CASE Rewrites
    BY <1>1, <1>2, <2>3, ConstantsOK DEF Rewrites, ListedRow
  <2>4. CASE Removes
    BY <1>1, <1>2, <2>4 DEF Removes, ListedRow
  <2>5. QED BY <1>2, <2>1, <2>2, <2>3, <2>4, RowMoves DEF Buries
<1>3. CASE deletion'.cand = None
  BY <1>3 DEF ListedRow
<1>4. CASE /\ row \in Row /\ deletion'.cand = [id |-> row.id, rev |-> row.rev]
           /\ UNCHANGED <<row, opened>>
  BY <1>1, <1>4, ConstantsOK DEF ListedRow, NewestRow
<1>5. QED BY <1>1, <1>2, <1>3, <1>4, ListingMoves DEF Forgets

\* A step that logs a change logs one that comes after the last, unless it was outrun.
LEMMA LogStep ==
    Inv /\ LogInv /\ [Next]_vars /\ feed # None /\ feed' # feed /\ ~Outrun
        => feed'.id >= feed.id /\ (feed'.id = feed.id => feed'.rev > feed.rev)
<1> SUFFICES ASSUME Inv, LogInv, [Next]_vars, feed # None, feed' # feed, ~Outrun
             PROVE  feed'.id >= feed.id /\ (feed'.id = feed.id => feed'.rev > feed.rev)
  OBVIOUS
<1>1. /\ opened \in Nat /\ NewestRow /\ FeedMatches /\ FoundRows /\ CandidatesOrphaned
      /\ feed \in Change /\ feed.id \in Nat /\ feed.rev \in Nat
      /\ row # None => row.id \in Nat /\ row.rev \in Nat
  BY DEF Inv, LogInv, TypeOK, Change, Row
<1>2. CASE Opens
  BY <1>1, <1>2 DEF Opens, Logged, FeedMatches
<1>3. CASE Rewrites
  BY <1>1, <1>3, ConstantsOK DEF Rewrites, Logged, FeedMatches, NewestRow
<1>4. CASE Removes
  <2>1. PICK c \in Cleaners : /\ cleaner[c].pc = "found" /\ Claimable(c)
                              /\ feed'.id = row.id /\ feed'.rev = TombstoneRevision(c)
    BY <1>4 DEF Removes
  <2>2. row # None /\ row.rev = cleaner[c].cand.rev
    BY <1>1, <2>1 DEF FoundRows, CandidatesOrphaned, Claimable, LiveRow, Stuck
  <2>3. QED BY <1>1, <2>1, <2>2 DEF FeedMatches, NewestRow, TombstoneRevision
<1>5. CASE Buries
  <2>1. row # None /\ row.id = deletion.cand.id /\ row.rev = deletion.cand.rev
    BY <1>5 DEF Buries, Outrun
  <2>2. QED BY <1>1, <1>5, <2>1 DEF Buries, FeedMatches, NewestRow
<1>6. QED BY <1>2, <1>3, <1>4, <1>5, RowMoves

\* The strengthening holds initially.
LEMMA LogInvInit == Init => LogInv
<1> SUFFICES ASSUME Init PROVE LogInv
  OBVIOUS
<1>1. FoundRows /\ \A r \in Requests : ~Writing(r)
  BY DEF Init, FoundRows, Resting, Idle, Holding, Writing
<1>2. SessionsDiffer
  BY <1>1, ConstantsOK DEF Init, SessionsDiffer, Resting
<1>3. FeedMatches
  BY DEF Init, FeedMatches
<1>4. ListedRow
  BY DEF Init, ListedRow, Resting
<1>5. QED BY <1>1, <1>2, <1>3, <1>4 DEF LogInv

\* It holds in every reachable state.
LEMMA LogInvariance == Spec => [](Inv /\ LogInv)
<1>1. LogInv /\ Inv /\ [Next]_vars => LogInv'
  BY SessionsStep, FoundStep, FeedStep, ListedStep DEF LogInv
<1>2. QED BY <1>1, LogInvInit, InvInit, InvStep, PTL DEF Spec

\* Each change logged for the slot comes after the one before it, by row or by
\* revision: the tombstone a cleanup run writes with the revision it read in an earlier
\* statement too, and what is written to a row after its deletion. The one exception is
\* named in the property: a project's deletion whose row was written since it was read.
THEOREM LogAdvances == Spec => LogMovesForward
<1>1. Inv /\ LogInv /\ [Next]_vars =>
        [feed # None /\ feed' # feed /\ ~Outrun =>
            /\ feed'.id >= feed.id
            /\ feed'.id = feed.id => feed'.rev > feed.rev]_vars
  BY LogStep
<1>2. QED BY <1>1, LogInvariance, PTL DEF Spec, LogMovesForward

-----------------------------------------------------------------------------

\* Without the cleanup job an asset is UPLOADED only with its object in storage:
\* what separates the code from that promise is the job's erase-then-claim order.
THEOREM ObjectsKept == ASSUME Cleaners = {} PROVE Spec => []UploadedHasObject
<1>1. Init => ObjectStays
  BY ConstantsOK DEF Init, ObjectStays, Idle, Holding
<1>2. Inv /\ ObjectStays /\ [Next]_vars => ObjectStays'
  <2> SUFFICES ASSUME Inv, ObjectStays, [Next]_vars
               PROVE  /\ row' # None /\ row'.status = "UPLOADED" => object' # None
                      /\ \A r \in Requests : req'[r].pc = "mark" => object' # None
    BY DEF ObjectStays
  <2> DEFINE Kept == /\ object # None => object' # None
                     /\ row' # None /\ row'.status = "UPLOADED" =>
                           object # None \/ (row # None /\ row.status = "UPLOADED")
                     /\ \A r \in Requests : req'[r].pc = "mark" =>
                           object # None \/ req[r].pc = "mark"
  <2>1. ASSUME UNCHANGED <<row, object, req>> PROVE Kept
    BY <2>1
  <2>2. ASSUME NEW r \in Requests, Create(r) PROVE Kept
    <3>1. UNCHANGED object
      BY <2>2 DEF Create, CreateRead, CreateReuse, CreateBegin, CreateWrite
    <3>2. \A q \in Requests : req'[q].pc = "mark" => req[q].pc = "mark"
      BY <2>2 DEF Create, CreateRead, CreateReuse, CreateBegin, CreateWrite, Step, End, Idle,
         Holding, Request, Inv, TypeOK
    <3>3. UNCHANGED row \/ row'.status = "PENDING"
      BY <2>2 DEF Create, CreateRead, CreateReuse, CreateBegin, CreateWrite, Save, Settled
    <3>4. QED BY <3>1, <3>2, <3>3
  <2>3. ASSUME NEW r \in Requests, Complete(r) \/ FailUpload(r) \/ Abandon(r) PROVE Kept
    <3>1. CASE CompleteRead(r) \/ FailRead(r) \/ PersistThumbnail(r) \/ Abandon(r)
      BY <3>1 DEF CompleteRead, FailRead, PersistThumbnail, Abandon, Holding, End, Idle,
         Inv, TypeOK
    <3>2. CASE VerifyObject(r)
      <4>1. req[r].snap \in Row /\ req[r].snap.size # None
        BY <3>2, ConstantsOK DEF VerifyObject, RequestsHold, Request, Row, Inv, TypeOK
      <4>2. QED BY <3>2, <4>1 DEF VerifyObject, Verified, Step, Request, Inv, TypeOK
    <3>3. CASE CompleteMark(r)
      <4>1. object # None /\ UNCHANGED object
        BY <3>3 DEF CompleteMark, ObjectStays
      <4>2. QED BY <4>1
    <3>4. CASE CompleteMarkFailed(r) \/ FailMark(r)
      <4>1. UNCHANGED object /\ (UNCHANGED row \/ row'.status = "FAILED")
        BY <3>4 DEF CompleteMarkFailed, FailMark, Reread, Save, Settled
      <4>2. \A q \in Requests : req'[q].pc = "mark" => req[q].pc = "mark"
        BY <3>4 DEF CompleteMarkFailed, FailMark, Reread, Step, End, Idle, Holding, Request,
           Inv, TypeOK
      <4>3. QED BY <4>1, <4>2
    <3>5. QED BY <2>3, <3>1, <3>2, <3>3, <3>4 DEF Complete, FailUpload
  <2>4. ASSUME Expiry PROVE Kept
    <3>1. UNCHANGED <<object, req>> /\ (UNCHANGED row \/ row'.status = "FAILED")
      BY <2>4 DEF Expiry, ExpirySelect, ExpiryFail, ExpiryDies, Save, Settled
    <3>2. QED BY <3>1
  <2>5. ASSUME World PROVE Kept
    <3>1. ASSUME NEW u \in urls, Put(u) PROVE Kept
      BY <3>1, ConstantsOK DEF Put
    <3>2. CASE DeleteScan
      <4>1. /\ UNCHANGED <<object, req>>
            /\ UNCHANGED row \/ (LiveRow /\ row'.status = row.status)
        BY <3>2, EntombedType DEF DeleteScan, LiveRow, Inv, TypeOK
      <4>2. QED BY <4>1 DEF LiveRow
    <3>5. CASE ListForDeletion
      BY <3>5 DEF ListForDeletion
    <3>6. CASE DeleteProject
      <4>1. /\ UNCHANGED <<object, req>>
            /\ UNCHANGED row \/ (row # None /\ row'.status = row.status)
        BY <3>6, EntombedType DEF DeleteProject, Reached, Inv, TypeOK
      <4>2. QED BY <4>1
    <3>3. CASE Tick
      BY <3>3 DEF Tick
    <3>4. QED BY <2>5, <3>1, <3>2, <3>3, <3>5, <3>6 DEF World, Deletions
  <2>6. Kept
    BY <2>1, <2>2, <2>3, <2>4, <2>5 DEF Next, vars
  <2>7. QED BY <2>6 DEF ObjectStays
<1>3. ObjectStays => UploadedHasObject
  BY DEF ObjectStays, UploadedHasObject, LiveRow
<1>4. QED BY <1>1, <1>2, <1>3, Invariance, PTL DEF Spec
=============================================================================
