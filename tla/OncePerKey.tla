---------------------------- MODULE OncePerKey ----------------------------
(***************************************************************************)
(* What an Idempotency-Key promises a client: of all the requests that     *)
(* carry the same key, for the same user and endpoint, one is applied; the *)
(* others get its response, or are rejected if their body differs.  A      *)
(* request may also fail without effect, and old keys are forgotten.       *)
(***************************************************************************)
CONSTANTS
    Request,   \* requests, a retry of a request counting as another one
    Slot,      \* (key, user_id, endpoint) triples
    SlotOf,    \* the triple of a request
    BodyOf,    \* the fingerprint of a request
    NoRequest

VARIABLES
    first,     \* the applied request of each slot
    response   \* whose response each request was answered with

onceVars == <<first, response>>

OnceInit ==
    /\ first = [s \in Slot |-> NoRequest]
    /\ response = [r \in Request |-> NoRequest]

Apply(r) ==
    /\ response[r] = NoRequest
    /\ first[SlotOf[r]] = NoRequest
    /\ first' = [first EXCEPT ![SlotOf[r]] = r]
    /\ response' = [response EXCEPT ![r] = r]

Replay(r) ==
    /\ response[r] = NoRequest
    /\ first[SlotOf[r]] # NoRequest
    /\ BodyOf[first[SlotOf[r]]] = BodyOf[r]
    /\ response' = [response EXCEPT ![r] = first[SlotOf[r]]]
    /\ UNCHANGED first

Forget(s) ==
    /\ first' = [first EXCEPT ![s] = NoRequest]
    /\ UNCHANGED response

OnceNext ==
    \/ \E r \in Request : Apply(r) \/ Replay(r)
    \/ \E s \in Slot : Forget(s)

OnceSpec == OnceInit /\ [][OnceNext]_onceVars

=============================================================================
