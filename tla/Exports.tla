------------------------------- MODULE Exports -------------------------------
(***************************************************************************)
(* Export jobs: their records and an index from the fingerprint of a body  *)
(* to a job live in the memory of the process, the idempotency row of the  *)
(* request in the database.  create_export looks into the index, awaits    *)
(* IdempotencyStore.start, then without a further await makes the job, the *)
(* entry of the index and the background task, and commits last.           *)
(* All requests are of one user.                                           *)
(***************************************************************************)
EXTENDS FiniteSets

CONSTANTS
    Request,   \* requests POST /exports
    Key,       \* idempotency keys
    Body,      \* request bodies, told apart by their fingerprints
    Job,       \* export ids
    Nothing    \* no job, key or body

VARIABLES
    job,       \* ExportStore: status and body of a job, "lost" with the process,
               \* and whether generating its file raises an exception
    index,     \* _idempotency_index
    row,       \* committed rows of "idempotency_keys": the body of a key
    request    \* progress and answer of each request

vars == <<job, index, row, request>>

Unsent == [pc |-> "unsent", key |-> Nothing, body |-> Nothing, answer |-> Nothing]

Ends(r, pc, answer) ==
    request' = [request EXCEPT ![r].pc = pc, ![r].answer = answer]

Init ==
    /\ job = [j \in Job |-> [status |-> "none", body |-> Nothing, raises |-> FALSE]]
    /\ index = [b \in Body |-> Nothing]
    /\ row = [k \in Key |-> Nothing]
    /\ request = [r \in Request |-> Unsent]

(* Mutation: the index is asked for any job, whatever its body. *)
FoundAny(b) == {j \in Job : \E c \in Body : index[c] = j}

Found(b) == {j \in Job : index[b] = j}

(* The look into the index: a hit is the answer, whatever the key. *)
Send(r, k, b) ==
    /\ request[r].pc = "unsent"
    /\ \/ \E j \in Found(b) :
             request' = [request EXCEPT ![r] =
                            [pc |-> "answered", key |-> k, body |-> b, answer |-> j]]
       \/ /\ Found(b) = {}
          /\ request' = [request EXCEPT ![r] = [Unsent EXCEPT !.pc = "starting", !.key = k, !.body = b]]
    /\ UNCHANGED <<job, index, row>>

(* The row of the key another request has inserted and not committed. *)
KeyTaken(r) ==
    \E o \in Request \ {r} : request[o].pc = "committing" /\ request[o].key = request[r].key

Register(r, j, raises) ==
    LET b == request[r].body
    IN  /\ request[r].pc = "starting"
        /\ row[request[r].key] \in {Nothing, b}
        /\ row[request[r].key] = Nothing => ~KeyTaken(r)
        /\ job[j].status = "none"
        /\ job' = [job EXCEPT ![j] = [status |-> "queued", body |-> b, raises |-> raises]]
        /\ index' = [index EXCEPT ![b] = j]
        /\ Ends(r, "committing", j)
        /\ UNCHANGED row

(* The key has a row with another fingerprint: 409. *)
Refuse(r) ==
    /\ request[r].pc = "starting"
    /\ row[request[r].key] \notin {Nothing, request[r].body}
    /\ Ends(r, "refused", Nothing)
    /\ UNCHANGED <<job, index, row>>

Commit(r) ==
    /\ request[r].pc = "committing"
    /\ row' = [row EXCEPT ![request[r].key] = request[r].body]
    /\ Ends(r, "answered", request[r].answer)
    /\ UNCHANGED <<job, index>>

(* The insert of the row meets a committed one, a statement or the commit   *)
(* fails.  The job that was made is not taken back.                         *)
Fail(r) ==
    /\ request[r].pc \in {"starting", "committing"}
    /\ Ends(r, "failed", Nothing)
    /\ UNCHANGED <<job, index, row>>

-----------------------------------------------------------------------------
(* The background task *)

Set(j, from, to) ==
    /\ job[j].status = from
    /\ job' = [job EXCEPT ![j].status = to]
    /\ UNCHANGED <<index, row, request>>

Process(j) == Set(j, "queued", "processing")
Complete(j) == ~job[j].raises /\ Set(j, "processing", "complete")

(* Mutation: the exception ends the task and nothing catches it. *)
FailsUncaught(j) == FALSE

Fails(j) == job[j].raises /\ Set(j, "processing", "failed")

-----------------------------------------------------------------------------

(* The retention of idempotency rows ends; prune_exports, run by cron in a  *)
(* process of its own, finds no job in its own memory and does nothing.     *)
PruneKey(k) ==
    /\ row[k] # Nothing
    /\ row' = [row EXCEPT ![k] = Nothing]
    /\ UNCHANGED <<job, index, request>>

(* The process stops or dies: jobs, index and open requests are gone. *)
Crash ==
    /\ job' = [j \in Job |-> IF job[j].status = "none" THEN job[j]
                             ELSE [job[j] EXCEPT !.status = "lost"]]
    /\ index' = [b \in Body |-> Nothing]
    /\ request' = [r \in Request |->
                      IF request[r].pc \in {"starting", "committing"}
                      THEN [request[r] EXCEPT !.pc = "failed", !.answer = Nothing]
                      ELSE request[r]]
    /\ UNCHANGED row

Serve(r) == (\E j \in Job, raises \in BOOLEAN : Register(r, j, raises)) \/ Refuse(r) \/ Commit(r)
Run(j) == Process(j) \/ Complete(j) \/ Fails(j)

Next ==
    \/ \E r \in Request, k \in Key, b \in Body : Send(r, k, b)
    \/ \E r \in Request : Serve(r) \/ Fail(r)
    \/ \E j \in Job : Run(j)
    \/ \E k \in Key : PruneKey(k)

-----------------------------------------------------------------------------

Answered == {r \in Request : request[r].pc = "answered"}

(* A client is never given the export of another report: the job of an      *)
(* answer was made for the same body, after retries, restarts and expired   *)
(* keys alike.                                                              *)
AnswerFitsBody ==
    \A r \in Answered : job[request[r].answer].body = request[r].body

(* Every job that was queued is completed, fails, or is lost in a restart:  *)
(* a client that polls is not left with "processing" for ever.              *)
EveryJobEnds ==
    \A j \in Job : job[j].status \in {"queued", "processing"} ~>
                       job[j].status \in {"complete", "failed", "lost"}

(* "same key + same fingerprint -> return the existing job": two answers to *)
(* one key and one body, without a restart in between, name one job.        *)
SameKeySameJob ==
    \A r, s \in Answered :
        /\ request[r].key = request[s].key
        /\ request[r].body = request[s].body
        /\ job[request[r].answer].status # "lost"
        /\ job[request[s].answer].status # "lost"
        => request[r].answer = request[s].answer

(* "same key + different fingerprint -> 409" *)
OneBodyPerKey ==
    \A r, s \in Answered : request[r].key = request[s].key => request[r].body = request[s].body

=============================================================================
