---------------------------- MODULE Idempotency ----------------------------
(***************************************************************************)
(* IdempotencyStore and the services that use it.  A request looks its key *)
(* up, inserts a pending row, does its work on a document it locks and     *)
(* completes the row, all in one database transaction: an uncommitted row  *)
(* is invisible to others but makes their insert wait on the unique index  *)
(* uq_idem_key_user_endpoint.                                              *)
(*                                                                         *)
(* Two kinds of callers share the table: services such as SaleService      *)
(* return the cached response of a completed row and complete their own;   *)
(* ProductService.create and the categories and product attributes call    *)
(* start() for its check of the fingerprint and do neither.  A retry of a  *)
(* request counts as another request.                                      *)
(***************************************************************************)
EXTENDS Requests, Naturals, FiniteSets

CONSTANTS
    Slot,       \* (key, user_id, endpoint) triples
    Body,       \* fingerprints
    SlotOf,     \* the triple of a request
    BodyOf,     \* the fingerprint of a request
    Replaying,  \* the triples whose endpoint replays and completes
    NoRequest,
    NoRow

ASSUME SlotOfAssumption == SlotOf \in [Request -> Slot]
ASSUME BodyOfAssumption == BodyOf \in [Request -> Body]
ASSUME ReplayingAssumption == Replaying \subseteq Slot
ASSUME NoRequestAssumption == NoRequest \notin Request
ASSUME NoRowAssumption == NoRow \notin [body : Body, done : BOOLEAN, by : Request]

VARIABLES
    row,       \* committed row of a slot; by: the request whose response it holds
    reserver,  \* transaction holding an uncommitted row of the slot
    holder,    \* transaction holding the document with FOR UPDATE
    pc,        \* where a request is
    answer,    \* what the client of a request was told
    response,  \* whose response it was given
    applied    \* requests whose work is committed, until their key is pruned

keyVars == <<row, reserver, holder, pc, answer, response, applied>>

Replays(r) == SlotOf[r] \in Replaying

Row == [body : Body, done : BOOLEAN, by : Request]

InFlight(s) == \E r \in Request : SlotOf[r] = s /\ pc[r] \in {"insert", "lock", "work"}

(* Mutation: the lock on the document outlives the transaction. *)
ReleaseKeepsLock(r) ==
    /\ reserver' = [s \in Slot |-> IF reserver[s] = r THEN NoRequest ELSE reserver[s]]
    /\ pc' = [pc EXCEPT ![r] = "ended"]
    /\ UNCHANGED holder

(* The end of a transaction releases what it holds. *)
Release(r) ==
    /\ reserver' = [s \in Slot |-> IF reserver[s] = r THEN NoRequest ELSE reserver[s]]
    /\ holder' = IF holder = r THEN NoRequest ELSE holder
    /\ pc' = [pc EXCEPT ![r] = "ended"]

Tell(r, what, whose) ==
    /\ answer' = [answer EXCEPT ![r] = what]
    /\ response' = [response EXCEPT ![r] = whose]

-----------------------------------------------------------------------------
(* start(): lookup, then insert *)

LookupNothing(r) ==
    /\ pc[r] = "start"
    /\ row[SlotOf[r]] = NoRow
    /\ pc' = [pc EXCEPT ![r] = "insert"]
    /\ UNCHANGED <<row, reserver, holder, answer, response, applied>>

LookupOtherBody(r) ==
    /\ pc[r] = "start"
    /\ row[SlotOf[r]] # NoRow
    /\ row[SlotOf[r]].body # BodyOf[r]
    /\ Release(r)
    /\ Tell(r, "conflict", NoRequest)
    /\ UNCHANGED <<row, applied>>

LookupReplay(r) ==
    /\ pc[r] = "start"
    /\ row[SlotOf[r]] # NoRow
    /\ row[SlotOf[r]].body = BodyOf[r]
    /\ Replays(r) /\ row[SlotOf[r]].done
    /\ Release(r)
    /\ Tell(r, "ok", row[SlotOf[r]].by)
    /\ UNCHANGED <<row, applied>>

(* Mutation: the fingerprint is not compared. *)
LookupPendingAnyBody(r) ==
    /\ pc[r] = "start"
    /\ row[SlotOf[r]] # NoRow
    /\ ~(Replays(r) /\ row[SlotOf[r]].done)
    /\ pc' = [pc EXCEPT ![r] = "lock"]
    /\ UNCHANGED <<row, reserver, holder, answer, response, applied>>

LookupPending(r) ==
    /\ pc[r] = "start"
    /\ row[SlotOf[r]] # NoRow
    /\ row[SlotOf[r]].body = BodyOf[r]
    /\ ~(Replays(r) /\ row[SlotOf[r]].done)
    /\ pc' = [pc EXCEPT ![r] = "lock"]
    /\ UNCHANGED <<row, reserver, holder, answer, response, applied>>

(* Mutation: no unique index on the key. *)
InsertUnindexed(r) ==
    /\ pc[r] = "insert"
    /\ reserver' = [reserver EXCEPT ![SlotOf[r]] = r]
    /\ pc' = [pc EXCEPT ![r] = "lock"]
    /\ UNCHANGED <<row, holder, answer, response, applied>>

Insert(r) ==
    /\ pc[r] = "insert"
    /\ reserver[SlotOf[r]] = NoRequest
    /\ row[SlotOf[r]] = NoRow
    /\ reserver' = [reserver EXCEPT ![SlotOf[r]] = r]
    /\ pc' = [pc EXCEPT ![r] = "lock"]
    /\ UNCHANGED <<row, holder, answer, response, applied>>

(* The duplicate that waited finds the row of the one that committed; the  *)
(* IntegrityError is not handled and the client gets a 500.                *)
InsertDuplicate(r) ==
    /\ pc[r] = "insert"
    /\ row[SlotOf[r]] # NoRow
    /\ Release(r)
    /\ Tell(r, "duplicate", NoRequest)
    /\ UNCHANGED <<row, applied>>

(* The work of the request, and complete(). *)

Lock(r) ==
    /\ pc[r] = "lock"
    /\ holder = NoRequest
    /\ holder' = r
    /\ pc' = [pc EXCEPT ![r] = "work"]
    /\ UNCHANGED <<row, reserver, answer, response, applied>>

Commit(r) ==
    /\ pc[r] = "work"
    /\ row' = [row EXCEPT ![SlotOf[r]] =
                  [body |-> BodyOf[r], done |-> Replays(r), by |-> r]]
    /\ applied' = applied \cup {r}
    /\ Release(r)
    /\ Tell(r, "ok", r)

(* A business rule refuses, the connection is lost, the process dies. *)
RollbackKey(r) ==
    /\ pc[r] \in {"start", "insert", "lock", "work"}
    /\ Release(r)
    /\ Tell(r, "failed", NoRequest)
    /\ UNCHANGED <<row, applied>>

(* prune_expired_idempotency_keys, a day after a key expired: no request    *)
(* lasts that long.                                                         *)
Prune(s) ==
    /\ row[s] # NoRow
    /\ ~InFlight(s)
    /\ row' = [row EXCEPT ![s] = NoRow]
    /\ applied' = {r \in applied : SlotOf[r] # s}
    /\ UNCHANGED <<reserver, holder, pc, answer, response>>

-----------------------------------------------------------------------------

KeyInit ==
    /\ row = [s \in Slot |-> NoRow]
    /\ reserver = [s \in Slot |-> NoRequest]
    /\ holder = NoRequest
    /\ pc = [r \in Request |-> "start"]
    /\ answer = [r \in Request |-> "none"]
    /\ response = [r \in Request |-> NoRequest]
    /\ applied = {}

Step(r) ==
    \/ LookupNothing(r) \/ LookupOtherBody(r) \/ LookupReplay(r) \/ LookupPending(r)
    \/ Insert(r) \/ InsertDuplicate(r) \/ Lock(r) \/ Commit(r)

KeyNext ==
    \/ \E r \in Request : Step(r) \/ RollbackKey(r)
    \/ \E s \in Slot : Prune(s)

KeySpec == KeyInit /\ [][KeyNext]_keyVars

(* The server keeps running the coroutine of a request that can go on.     *)
FairSpec == KeySpec /\ \A r \in Request : WF_keyVars(Step(r))

-----------------------------------------------------------------------------

KeyTypeOK ==
    /\ row \in [Slot -> Row \cup {NoRow}]
    /\ reserver \in [Slot -> Request \cup {NoRequest}]
    /\ holder \in Request \cup {NoRequest}
    /\ pc \in [Request -> {"start", "insert", "lock", "work", "ended"}]
    /\ answer \in [Request -> {"none", "ok", "conflict", "duplicate", "failed"}]
    /\ response \in [Request -> Request \cup {NoRequest}]
    /\ applied \in SUBSET Request

(* API section 7.1: a retry must not duplicate the effect, however the      *)
(* requests of a key are interleaved and whichever of them fail.            *)
AppliedOnce == \A a, b \in applied : SlotOf[a] = SlotOf[b] /\ Replays(a) => a = b

(* The same of the callers that only register their key, for which the code *)
(* does not make it true.                                                   *)
NeverRepeated == \A a, b \in applied : SlotOf[a] = SlotOf[b] => a = b

(* API section 7.1: same key and another body is a conflict, also for the   *)
(* callers that do not replay: the requests applied under a key say the same *)
(* thing, however they overlap with the first of them.                      *)
OneBodyPerKey ==
    \A a, b \in applied : SlotOf[a] = SlotOf[b] => BodyOf[a] = BodyOf[b]

(* "No orphaned 202s" (IdempotencyStore): a row is never committed without  *)
(* the response it is kept for, and nothing is applied without a row.       *)
NoOrphan ==
    /\ \A s \in Replaying : row[s] # NoRow => row[s].done /\ row[s].by \in applied
    /\ \A r \in applied : row[SlotOf[r]] # NoRow

(* schema.sql: a duplicate that arrives in flight gets 202 and Retry-After. *)
DuplicateNotFailed == \A r \in Request : answer[r] # "duplicate"

(* Requests that wait for a key or for the document are served in the end.  *)
EveryRequestEnds == \A r \in Request : <>(pc[r] = "ended")

(* The promise to the clients of the services that replay, whatever the     *)
(* others do beside them.                                                   *)
Once == INSTANCE OncePerKey WITH
            Request <- {r \in Request : Replays(r)},
            Slot <- Replaying,
            first <- [s \in Replaying |-> IF row[s] = NoRow THEN NoRequest ELSE row[s].by],
            response <- [r \in {o \in Request : Replays(o)} |-> response[r]]
OnceSpec == Once!OnceSpec

=============================================================================
