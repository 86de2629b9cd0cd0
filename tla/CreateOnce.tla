------------------------------ MODULE CreateOnce ------------------------------
(***************************************************************************)
(* What an Idempotency-Key promises: the first request that succeeds       *)
(* creates one resource and claims the key for its payload, both at once;  *)
(* nothing else is ever created under the key, and the claim stays.        *)
(***************************************************************************)
EXTENDS Naturals

CONSTANTS Keys, Payloads, None

VARIABLES
    claim,    \* the payload a key is claimed for
    made      \* the number of resources created under each key

Init ==
    /\ claim = [k \in Keys |-> None]
    /\ made = [k \in Keys |-> 0]

Create(k, p) ==
    /\ claim[k] = None
    /\ claim' = [claim EXCEPT ![k] = p]
    /\ made' = [made EXCEPT ![k] = @ + 1]

Next == \E k \in Keys, p \in Payloads : Create(k, p)

Spec == Init /\ [][Next]_<<claim, made>>
=============================================================================
