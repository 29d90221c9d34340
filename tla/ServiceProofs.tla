--------------------------- MODULE ServiceProofs ----------------------------
(***************************************************************************)
(* Proofs about the server process with its notifications and export       *)
(* jobs, about the master data, and about the drafts of purchases, for     *)
(* any number of ids and requests.                                         *)
(*                                                                         *)
(* Jobs: an index entry and an answer name a job made for their body, and  *)
(* no step changes the body of a job that exists (JobsInv).                *)
(* Notifications: a worker that keeps up has done with the last movement,  *)
(* has its event, or is judging it with the product as it was then         *)
(* (KeepsUp).                                                              *)
(*                                                                         *)
(* Master data: an attribute that was checked is of the kind of the        *)
(* column or gone for good, since ids are not reused, and a time is        *)
(* written once, so that a copy with the tag of its row is the row         *)
(* (ShopInv).                                                              *)
(*                                                                         *)
(* Purchases: what is spread over the lines is neither lost nor invented   *)
(* by rounding, since the last line takes the remainder, and every row     *)
(* carries what was allocated to it (SharedOut, Carries).  An open edit    *)
(* has shared out what it read (WorkedOut); that is the freight, if no     *)
(* other edit overtook it (settled).  What a post                          *)
(* receives is then the sum of what was paid, summed by lines instead of   *)
(* by costs (SumFunSwap).                                                  *)
(***************************************************************************)
EXTENDS ServerProcess, Catalog, PurchaseDraft, SumTheorems, SequenceTheorems, TLAPS

-----------------------------------------------------------------------------
(* The export jobs. *)

(* An entry of the index and an answer both name a job that was made for   *)
(* their body.                                                             *)
MadeFor(j, b) == j \in Job /\ job[j].status # "none" /\ job[j].body = b

JobRow ==
    [status : {"none", "queued", "processing", "complete", "failed", "lost"},
     body : Body \cup {Nothing}, raises : BOOLEAN]

AnswerRow ==
    [pc : {"unsent", "starting", "committing", "answered", "refused", "failed"},
     key : Key \cup {Nothing}, body : Body \cup {Nothing}, answer : Job \cup {Nothing}]

JobsInv ==
    /\ job \in [Job -> JobRow]
    /\ index \in [Body -> Job \cup {Nothing}]
    /\ request \in [Request -> AnswerRow]
    /\ \A b \in Body : index[b] # Nothing => MadeFor(index[b], b)
    /\ \A r \in Request : request[r].pc \in {"committing", "answered"} =>
           MadeFor(request[r].answer, request[r].body)
    /\ \A r \in Request : request[r].pc = "starting" => request[r].body \in Body

(* A step that keeps the job of every entry and answer keeps the invariant. *)
LEMMA JobsKept ==
    ASSUME JobsInv,
           job' \in [Job -> JobRow],
           \A j \in Job : job[j].status # "none" => job'[j].status # "none" /\ job'[j].body = job[j].body
    PROVE  \A j, b : MadeFor(j, b) => MadeFor(j, b)'
BY DEF MadeFor

LEMMA JobsInit == Jobs!Init => JobsInv
BY DEF Jobs!Init, Jobs!Unsent, JobsInv, JobRow, AnswerRow

LEMMA JobsSend ==
    ASSUME JobsInv, NEW r \in Request, NEW k \in Key, NEW b \in Body, Jobs!Send(r, k, b)
    PROVE  JobsInv'
<1>1. UNCHANGED <<job, index>>
    BY DEF Jobs!Send
<1>2. \A j, c : MadeFor(j, c)' <=> MadeFor(j, c)
    BY <1>1 DEF MadeFor
<1>3. CASE \E j \in Jobs!Found(b) : request' = [request EXCEPT ![r] =
               [pc |-> "answered", key |-> k, body |-> b, answer |-> j]]
    <2>1. PICK j \in Jobs!Found(b) : request' = [request EXCEPT ![r] =
               [pc |-> "answered", key |-> k, body |-> b, answer |-> j]]
        BY <1>3
    <2>2. j \in Job /\ index[b] = j /\ MadeFor(j, b)
        BY NothingAssumption DEF Jobs!Found, JobsInv, JobRow, AnswerRow
    <2> QED BY <1>1, <1>2, <2>1, <2>2 DEF JobsInv, JobRow, AnswerRow
<1>4. CASE request' = [request EXCEPT ![r] =
               [Jobs!Unsent EXCEPT !.pc = "starting", !.key = k, !.body = b]]
    BY <1>1, <1>2, <1>4 DEF JobsInv, JobRow, AnswerRow, Jobs!Unsent
<1> QED BY <1>3, <1>4 DEF Jobs!Send

LEMMA JobsRegister ==
    ASSUME JobsInv, NEW r \in Request, NEW j \in Job, NEW raises \in BOOLEAN,
           Jobs!Register(r, j, raises)
    PROVE  JobsInv'
<1>1. PICK b \in Body : b = request[r].body
    BY DEF JobsInv, Jobs!Register
<1>2. job' = [job EXCEPT ![j] = [status |-> "queued", body |-> b, raises |-> raises]]
    BY <1>1 DEF Jobs!Register
<1>3. index' = [index EXCEPT ![b] = j]
    BY <1>1 DEF Jobs!Register
<1>4. request' = [request EXCEPT ![r].pc = "committing", ![r].answer = j]
    BY DEF Jobs!Register, Jobs!Ends
<1>5. MadeFor(j, b)' /\ \A i, c : MadeFor(i, c) => MadeFor(i, c)'
    <2>1. /\ job'[j].status = "queued" /\ job'[j].body = b
          /\ \A i \in Job : i # j => job'[i] = job[i]
        BY <1>2 DEF JobsInv
    <2>2. job[j].status = "none"
        BY DEF Jobs!Register
    <2> QED BY <2>1, <2>2 DEF MadeFor
<1>6. job' \in [Job -> JobRow]
    BY <1>1, <1>2 DEF JobsInv, JobRow, AnswerRow
<1>7. /\ index' \in [Body -> Job \cup {Nothing}]
      /\ \A c \in Body : index'[c] = IF c = b THEN j ELSE index[c]
    BY <1>1, <1>3 DEF JobsInv, JobRow, AnswerRow
<1>8. /\ \A o \in Request : o # r => request'[o] = request[o]
      /\ request'[r].pc = "committing" /\ request'[r].answer = j /\ request'[r].body = b
    BY <1>1, <1>4 DEF JobsInv, AnswerRow
<1>9. request' \in [Request -> AnswerRow]
    <2>1. [request[r] EXCEPT !.pc = "committing", !.answer = j] \in AnswerRow
        BY DEF JobsInv, AnswerRow
    <2> QED BY <1>4, <2>1 DEF JobsInv
<1>10. \A c \in Body : index'[c] # Nothing => MadeFor(index[c], c)'
    BY <1>5, <1>7 DEF JobsInv, MadeFor
<1>11. \A o \in Request : request'[o].pc \in {"committing", "answered"} =>
           MadeFor(request[o].answer, request[o].body)'
    BY <1>5, <1>8 DEF JobsInv
<1>12. \A o \in Request : request'[o].pc = "starting" => request'[o].body \in Body
    BY <1>8 DEF JobsInv
<1> QED BY <1>6, <1>7, <1>9, <1>10, <1>11, <1>12 DEF JobsInv

LEMMA JobsAnswer ==
    ASSUME JobsInv, NEW r \in Request, Jobs!Refuse(r) \/ Jobs!Commit(r) \/ Jobs!Fail(r)
    PROVE  JobsInv'
<1>1. UNCHANGED <<job, index>>
    BY DEF Jobs!Refuse, Jobs!Commit, Jobs!Fail
<1>2. \A j, c : MadeFor(j, c)' <=> MadeFor(j, c)
    BY <1>1 DEF MadeFor
<1>3. CASE Jobs!Commit(r)
    <2>1. request' = [request EXCEPT ![r].pc = "answered", ![r].answer = request[r].answer]
        BY <1>3 DEF Jobs!Commit, Jobs!Ends
    <2>2. /\ request[r] \in AnswerRow /\ MadeFor(request[r].answer, request[r].body)
          /\ request[r].answer \in Job
        BY <1>3 DEF JobsInv, Jobs!Commit, MadeFor
    <2>3. [request[r] EXCEPT !.pc = "answered", !.answer = request[r].answer] \in AnswerRow
        BY <2>2 DEF AnswerRow
    <2>4. request' \in [Request -> AnswerRow]
        BY <2>1, <2>3 DEF JobsInv
    <2>5. /\ \A o \in Request : o # r => request'[o] = request[o]
          /\ request'[r].pc = "answered"
          /\ request'[r].answer = request[r].answer /\ request'[r].body = request[r].body
        BY <2>1, <2>2 DEF JobsInv, AnswerRow
    <2>6. /\ \A b \in Body : index'[b] # Nothing => MadeFor(index[b], b)'
          /\ \A o \in Request : request'[o].pc \in {"committing", "answered"} =>
                 MadeFor(request[o].answer, request[o].body)'
          /\ \A o \in Request : request'[o].pc = "starting" => request'[o].body \in Body
        BY <1>1, <1>2, <2>2, <2>5 DEF JobsInv, MadeFor
    <2> QED BY <1>1, <2>4, <2>6 DEF JobsInv
<1>4. CASE Jobs!Refuse(r) \/ Jobs!Fail(r)
    <2>1. \E pc \in {"refused", "failed"} :
              request' = [request EXCEPT ![r].pc = pc, ![r].answer = Nothing]
        BY <1>4 DEF Jobs!Refuse, Jobs!Fail, Jobs!Ends
    <2>2. PICK pc \in {"refused", "failed"} :
              request' = [request EXCEPT ![r].pc = pc, ![r].answer = Nothing]
        BY <2>1
    <2>3. [request[r] EXCEPT !.pc = pc, !.answer = Nothing] \in AnswerRow
        BY DEF JobsInv, AnswerRow
    <2>4. request' \in [Request -> AnswerRow]
        BY <2>2, <2>3 DEF JobsInv
    <2>5. \A o \in Request : request'[o] = request[o] \/ request'[o].pc = pc
        BY <2>2 DEF JobsInv, AnswerRow
    <2> QED BY <1>1, <1>2, <2>4, <2>5 DEF JobsInv
<1> QED BY <1>3, <1>4

LEMMA JobsRun ==
    ASSUME JobsInv, NEW j \in Job, Jobs!Run(j)
    PROVE  JobsInv'
<1>1. UNCHANGED <<index, request>>
    BY DEF Jobs!Run, Jobs!Process, Jobs!Complete, Jobs!Fails, Jobs!Set
<1>2. PICK to \in {"processing", "complete", "failed"} : job' = [job EXCEPT ![j].status = to]
    BY DEF Jobs!Run, Jobs!Process, Jobs!Complete, Jobs!Fails, Jobs!Set
<1>3. \A i \in Job : job'[i].body = job[i].body /\ (job[i].status # "none" => job'[i].status # "none")
    BY <1>2 DEF JobsInv, JobRow, AnswerRow
<1>4. \A i, c : MadeFor(i, c) => MadeFor(i, c)'
    BY <1>3 DEF MadeFor
<1> QED BY <1>1, <1>2, <1>4 DEF JobsInv, JobRow, AnswerRow

LEMMA JobsCrash ==
    ASSUME JobsInv, Jobs!Crash
    PROVE  JobsInv'
<1>1. /\ job' = [j \in Job |-> IF job[j].status = "none" THEN job[j]
                               ELSE [job[j] EXCEPT !.status = "lost"]]
      /\ index' = [b \in Body |-> Nothing]
    BY DEF Jobs!Crash
<1>2. \A i, c : MadeFor(i, c) => MadeFor(i, c)'
    BY <1>1 DEF JobsInv, JobRow, AnswerRow, MadeFor
<1>3. /\ job' \in [Job -> JobRow]
      /\ index' \in [Body -> Job \cup {Nothing}]
    <2>1. \A j \in Job : [job[j] EXCEPT !.status = "lost"] \in JobRow
        BY DEF JobsInv, JobRow
    <2> QED BY <1>1, <2>1 DEF JobsInv
<1>4. request' = [r \in Request |->
                      IF request[r].pc \in {"starting", "committing"}
                      THEN [request[r] EXCEPT !.pc = "failed", !.answer = Nothing]
                      ELSE request[r]]
    BY DEF Jobs!Crash
<1>5. request' \in [Request -> AnswerRow]
    <2>1. \A r \in Request : [request[r] EXCEPT !.pc = "failed", !.answer = Nothing] \in AnswerRow
        BY DEF JobsInv, AnswerRow
    <2> QED BY <1>4, <2>1 DEF JobsInv
<1>6. \A r \in Request : request'[r].pc \in {"committing", "answered", "starting"} =>
          request'[r] = request[r]
    BY <1>4 DEF JobsInv, JobRow, AnswerRow
<1> QED BY <1>1, <1>2, <1>3, <1>5, <1>6 DEF JobsInv, JobRow, AnswerRow

LEMMA JobsStep == ASSUME JobsInv, [Next]_vars PROVE JobsInv'
<1>1. CASE UNCHANGED jobVars
    BY <1>1 DEF jobVars, JobsInv, MadeFor
<1>2. CASE Jobs!Next
    <2>1. CASE \E k \in Key : Jobs!PruneKey(k)
        BY <2>1 DEF Jobs!PruneKey, JobsInv, MadeFor
    <2> QED BY <1>2, <2>1, JobsSend, JobsRegister, JobsAnswer, JobsRun DEF Jobs!Next, Jobs!Serve
<1>3. CASE Jobs!Crash
    BY <1>3, JobsCrash
<1> QED BY <1>1, <1>2, <1>3 DEF Next, WorkerOnly, Restart, vars

(* No answer names the job of another body, whatever was retried, pruned   *)
(* or restarted in between.                                                *)
THEOREM JobsAnswerFitsBody == Spec => []AnswerFitsBody
<1>1. Init => JobsInv
    BY JobsInit DEF Init
<1>2. JobsInv /\ [Next]_vars => JobsInv'
    BY JobsStep
<1>3. JobsInv => AnswerFitsBody
    BY DEF JobsInv, JobRow, AnswerRow, MadeFor, AnswerFitsBody, Jobs!AnswerFitsBody, Jobs!Answered
<1> QED BY <1>1, <1>2, <1>3, PTL DEF Spec

-----------------------------------------------------------------------------
(* The stock notifications. *)

LEMMA WorkerSum == ASSUME NEW f PROVE Worker!SumFunction(f) = SumFunction(f)
BY DEF Worker!SumFunction, SumFunction, Worker!SumFunctionOnSet, SumFunctionOnSet,
       Worker!FoldFunctionOnSet, FoldFunctionOnSet, Worker!MapThenFoldSet, MapThenFoldSet

LEMMA WorkerCount == ASSUME NEW S PROVE Worker!Cardinality(S) = Cardinality(S)
BY DEF Worker!Cardinality, Cardinality, Worker!IsFiniteSet, IsFiniteSet

(* A movement that is appended is added to the stock.                      *)
LEMMA Appended ==
    ASSUME NEW s \in Seq(Int), NEW q \in Int
    PROVE  /\ SumFunction(s) \in Int
           /\ SumFunction(s \o <<q>>) = SumFunction(s) + q
<1> DEFINE n == Len(s)
           t == s \o <<q>>
<1>1. n \in Nat /\ DOMAIN s = 1 .. n /\ \A i \in 1 .. n : s[i] \in Int
    OBVIOUS
<1>2. /\ DOMAIN t = 1 .. n + 1 /\ t[n + 1] = q
      /\ \A i \in 1 .. n : t[i] = s[i]
    OBVIOUS
<1>3. IsFiniteSet(1 .. n) /\ IsFiniteSet(1 .. n + 1)
    BY <1>1, FS_Interval
<1>4. SumFunction(s) = SumFunctionOnSet(s, 1 .. n) /\ SumFunction(t) = SumFunctionOnSet(t, 1 .. n + 1)
    BY <1>1, <1>2 DEF SumFunction
<1>5. SumFunctionOnSet(s, 1 .. n) \in Int
    BY <1>1, <1>3, SumInt
<1>6. \A i \in 1 .. n + 1 : t[i] \in Int
    BY <1>1, <1>2
<1> HIDE DEF n, t
<1>7. PICK rest : rest = (1 .. n + 1) \ {n + 1}
    OBVIOUS
<1>8. n + 1 \in 1 .. n + 1 /\ rest = 1 .. n
    BY <1>1, <1>7
<1>9. SumFunctionOnSet(t, 1 .. n + 1) = t[n + 1] + SumFunctionOnSet(t, rest)
    BY ONLY <1>3, <1>6, <1>7, <1>8, SumRemove
<1>10. SumFunctionOnSet(t, 1 .. n) = SumFunctionOnSet(s, 1 .. n)
    BY ONLY <1>2, <1>3, SumSame
<1>11. SumFunctionOnSet(t, rest) = SumFunctionOnSet(s, 1 .. n)
    BY ONLY <1>8, <1>10
<1>12. SumFunction(t) = SumFunction(s) + q
    BY ONLY <1>2, <1>4, <1>5, <1>9, <1>11, q \in Int
<1> QED BY <1>4, <1>5, <1>12 DEF t

LEMMA SumOne ==
    ASSUME NEW q \in Int
    PROVE  SumFunction(<<>>) = 0 /\ SumFunction(<<q>>) = q
<1>1. SumFunction(<<>>) = 0
    <2>1. DOMAIN <<>> = {}
        OBVIOUS
    <2> QED BY <2>1, SumEmpty DEF SumFunction
<1>2. SumFunction(<<>> \o <<q>>) = SumFunction(<<>>) + q
    <2>1. <<>> \in Seq(Int)
        OBVIOUS
    <2> QED BY <2>1, Appended
<1>3. <<>> \o <<q>> = <<q>>
    OBVIOUS
<1> QED BY <1>1, <1>2, <1>3

-----------------------------------------------------------------------------

(* The crossing that the last movement made and that is not notified yet.  *)
Owed(on) ==
    \A c \in Worker!Categories :
        crossed[c] = notes[c] +
            (IF on /\ Worker!Crosses(Worker!Before(Len(log)), Worker!OnHand, Worker!Limit(c, Worker!InForce))
             THEN 1 ELSE 0)

(* While it keeps up, the worker has done with the last movement, or has   *)
(* its event, or is judging it, with the product as it was then.           *)
Done == ~Worker!Pending /\ notes = crossed

Told == judging = Worker!Idle /\ queue = <<Len(log)>> /\ Owed(active)

Taken(read, limit, after) ==
    /\ queue = <<>> /\ Owed(TRUE)
    /\ judging = [read |-> read, movement |-> Len(log), threshold |-> limit, after |-> after]

NotRead == threshold = Nothing /\ Taken("null", threshold, 0)
ProductRead == Taken("product", Worker!InForce, 0)
StockRead == Taken("after", Worker!InForce, Worker!OnHand)

KeepsUp == Done \/ Told \/ NotRead \/ ProductRead \/ StockRead

WorkerInv ==
    /\ log \in Seq(Int)
    /\ notes \in [Worker!Categories -> Int]
    /\ crossed \in [Worker!Categories -> Int]
    /\ late \in BOOLEAN /\ lost \in BOOLEAN
    /\ worker = "off" => ~Worker!Pending
    /\ ~late /\ ~lost => KeepsUp

LEMMA StockNow ==
    ASSUME log \in Seq(Int)
    PROVE  Worker!OnHand = Opening + SumFunction(log) /\ Worker!OnHand \in Int
<1>1. SumFunction(log) \in Int
    BY Appended, 0 \in Int
<1> QED BY <1>1, WorkerSum, BoundAssumption DEF Worker!OnHand

LEMMA WorkerInit == Worker!Init => WorkerInv
<1> SUFFICES ASSUME Worker!Init PROVE WorkerInv
    OBVIOUS
<1>1. log = <<>> /\ queue = <<>> /\ judging = Worker!Idle
    BY DEF Worker!Init
<1>2. late \in BOOLEAN /\ lost \in BOOLEAN
    BY Zenon DEF Worker!Init
<1>3. notes = crossed /\ notes \in [Worker!Categories -> Int]
    BY DEF Worker!Init
<1> QED BY <1>1, <1>2, <1>3 DEF WorkerInv, KeepsUp, Done, Worker!Pending

LEMMA KeptUp == ASSUME WorkerInv, ~late, ~lost PROVE KeepsUp
BY DEF WorkerInv

LEMMA Reading ==
    /\ Worker!Idle.read = "nothing"
    /\ Told => Worker!Pending /\ judging.read = "nothing"
    /\ NotRead => judging.read = "null"
    /\ ProductRead => judging.read = "product"
    /\ StockRead => judging.read = "after"
<1>1. Worker!Idle.read = "nothing"
    BY DEF Worker!Idle
<1>2. <<Len(log)>> # <<>>
    OBVIOUS
<1>3. Told => Worker!Pending /\ judging.read = "nothing"
    BY <1>1, <1>2, Zenon DEF Told, Worker!Pending
<1>4. \A read, limit, after : Taken(read, limit, after) => judging.read = read
    BY DEF Taken
<1> QED BY <1>1, <1>3, <1>4 DEF NotRead, ProductRead, StockRead

(* One movement, when nothing is pending.                                  *)
LEMMA OneMovement ==
    ASSUME WorkerInv, NEW q \in Quantity, Worker!Move(<<q>>), ~late, ~lost, ~Worker!Pending
    PROVE  KeepsUp'
<1> DEFINE crosses(c) == Worker!Crosses(Worker!OnHand, Worker!OnHand + q, Worker!Limit(c, Worker!InForce))
<1>1. q \in Int
    BY QuantityAssumption
<1>2. /\ log' = log \o <<q>>
      /\ queue' = IF worker = "listening"
                  THEN queue \o [i \in 1 .. Len(<<q>>) |-> Len(log) + i] ELSE queue
      /\ UNCHANGED <<threshold, default, active, worker, judging, notes, lost>>
    BY DEF Worker!Move
<1>3. crossed' = [c \in Worker!Categories |->
          IF Worker!Listened THEN crossed[c] + Cardinality(Worker!Crossing(<<q>>, c)) ELSE crossed[c]]
    BY WorkerCount DEF Worker!Move
<1>4. queue = <<>> /\ judging = Worker!Idle /\ notes = crossed
    <2>1. queue = <<>> /\ judging = Worker!Idle
        BY DEF Worker!Pending
    <2>2. judging.read = "nothing"
        BY <2>1, Reading
    <2>3. Done
        BY <2>2, KeptUp, Reading DEF KeepsUp
    <2> QED BY <2>1, <2>3 DEF Done
<1>5. /\ log' \in Seq(Int) /\ Len(log') = Len(log) + 1 /\ log'[Len(log')] = q
    BY <1>1, <1>2 DEF WorkerInv
<1>6. /\ Worker!OnHand \in Int /\ Worker!OnHand' = Worker!OnHand + q
    <2>1. Worker!OnHand' = Opening + SumFunction(log')
        BY <1>5, WorkerSum DEF Worker!OnHand
    <2>2. SumFunction(log') = SumFunction(log) + q /\ SumFunction(log) \in Int
        BY <1>1, <1>2, Appended DEF WorkerInv
    <2> QED BY <1>1, <2>1, <2>2, StockNow, BoundAssumption DEF WorkerInv
<1>7. Worker!StockAfter(<<q>>, 0) = Worker!OnHand /\ Worker!StockAfter(<<q>>, 1) = Worker!OnHand + q
    <2>1. <<q>> \in Seq(Int) /\ Len(<<q>>) = 1
        BY <1>1
    <2>2. SubSeq(<<q>>, 1, 0) = <<>>
        BY <2>1, SubSeqEmpty
    <2>3. SubSeq(<<q>>, 1, 1) = <<q>>
        BY <2>1, SubSeqFull
    <2>4. /\ Worker!SumFunction(SubSeq(<<q>>, 1, 0)) = 0
          /\ Worker!SumFunction(SubSeq(<<q>>, 1, 1)) = q
        BY <1>1, <2>2, <2>3, SumOne, WorkerSum
    <2> QED BY <1>1, <1>6, <2>4 DEF Worker!StockAfter
<1>8. ASSUME NEW c
      PROVE  Cardinality(Worker!Crossing(<<q>>, c)) = IF crosses(c) THEN 1 ELSE 0
    <2>1. 1 .. Len(<<q>>) = {1} /\ 1 - 1 = 0
        OBVIOUS
    <2>2. crosses(c) <=> Worker!Crosses(Worker!StockAfter(<<q>>, 1 - 1), Worker!StockAfter(<<q>>, 1),
                                        Worker!Limit(c, Worker!InForce))
        BY <1>7, <2>1
    <2> HIDE DEF crosses
    <2>3. Worker!Crossing(<<q>>, c) = IF crosses(c) THEN {1} ELSE {}
        BY <2>1, <2>2 DEF Worker!Crossing
    <2> QED BY <2>3, FS_EmptySet, FS_Singleton
<1>9. Worker!Before(Len(log))' = Worker!OnHand
    BY <1>1, <1>5, <1>6 DEF Worker!Before
<1>10. \A c : Worker!Limit(c, Worker!InForce)' = Worker!Limit(c, Worker!InForce)
    BY <1>2 DEF Worker!Limit, Worker!InForce
<1>11. \A c : crosses(c) <=> Worker!Crosses(Worker!Before(Len(log)), Worker!OnHand,
                                           Worker!Limit(c, Worker!InForce))'
    BY <1>6, <1>9, <1>10 DEF Worker!Crosses
<1>12. \A c \in Worker!Categories : notes[c] \in Int /\ crossed[c] = notes[c] /\ notes'[c] = notes[c]
    BY <1>2, <1>4 DEF WorkerInv
<1>13. CASE worker = "listening"
    <2>1. queue' = <<Len(log')>>
        <3>1. queue' = <<>> \o [i \in 1 .. 1 |-> Len(log) + i]
            BY <1>2, <1>4, <1>13
        <3>2. [i \in 1 .. 1 |-> Len(log) + i] = <<Len(log) + 1>>
            OBVIOUS
        <3>3. <<>> \o <<Len(log) + 1>> = <<Len(log) + 1>>
            OBVIOUS
        <3> QED BY <3>1, <3>2, <3>3, <1>5
    <2>2. Owed(active)'
        <3> SUFFICES ASSUME NEW c \in Worker!Categories
                     PROVE  crossed'[c] = notes'[c] +
                               (IF active' /\ Worker!Crosses(Worker!Before(Len(log)), Worker!OnHand,
                                                             Worker!Limit(c, Worker!InForce))'
                                THEN 1 ELSE 0)
            BY DEF Owed
        <3>1. crossed'[c] = notes[c] + (IF active /\ crosses(c) THEN 1 ELSE 0)
            BY <1>3, <1>8, <1>12, <1>13 DEF Worker!Listened
        <3> HIDE DEF crosses
        <3> QED BY <3>1, <1>2, <1>11, <1>12
    <2> QED BY <1>2, <1>4, <2>1, <2>2 DEF KeepsUp, Told, Worker!Idle
<1>14. CASE worker # "listening"
    <2>1. crossed' = crossed
        BY <1>3, <1>14 DEF WorkerInv, Worker!Listened
    <2> QED BY <1>2, <1>4, <1>14, <2>1 DEF KeepsUp, Done, Worker!Pending, Worker!Idle
<1> QED BY <1>13, <1>14

LEMMA WorkerMove ==
    ASSUME WorkerInv, NEW quantities, Worker!Move(quantities),
           \E q \in Quantity : quantities = <<q>> \/ \E p \in Quantity : quantities = <<q, p>>
    PROVE  WorkerInv'
<1>1. PICK q \in Quantity : quantities = <<q>> \/ \E p \in Quantity : quantities = <<q, p>>
    OBVIOUS
<1>2. quantities \in Seq(Int) /\ Len(quantities) \in Int /\ (Len(quantities) > 1 \/ quantities = <<q>>)
    <2>1. CASE quantities = <<q>>
        BY <2>1, QuantityAssumption
    <2>2. CASE \E p \in Quantity : quantities = <<q, p>>
        BY <2>2, QuantityAssumption
    <2> QED BY <1>1, <2>1, <2>2
<1>3. log' \in Seq(Int) /\ UNCHANGED <<notes, lost, worker, judging>>
    BY <1>2 DEF Worker!Move, WorkerInv
<1>4. late' = (late \/ Worker!Pending \/ Len(quantities) > 1)
    BY DEF Worker!Move
<1>5. worker = "off" => queue' = queue
    BY DEF Worker!Move
<1>6. crossed' \in [Worker!Categories -> Int]
    <2>1. \A c : Worker!Crossing(quantities, c) \subseteq 1 .. Len(quantities)
        BY DEF Worker!Crossing
    <2>2. IsFiniteSet(1 .. Len(quantities))
        BY <1>2, FS_Interval, 1 \in Int
    <2>3. \A c : Cardinality(Worker!Crossing(quantities, c)) \in Nat
        BY <2>1, <2>2, FS_Subset, FS_CardinalityType
    <2>4. crossed' = [c \in Worker!Categories |->
              IF Worker!Listened THEN crossed[c] + Cardinality(Worker!Crossing(quantities, c)) ELSE crossed[c]]
        BY WorkerCount DEF Worker!Move
    <2> QED BY <2>3, <2>4 DEF WorkerInv
<1>7. late' \in BOOLEAN
    BY <1>4, Zenon DEF WorkerInv
<1>8. ~late' /\ ~lost' => KeepsUp'
    <2> SUFFICES ASSUME ~late', ~lost' PROVE KeepsUp'
        OBVIOUS
    <2>1. ~late /\ ~Worker!Pending /\ ~(Len(quantities) > 1)
        BY <1>4, Zenon
    <2>2. ~lost
        BY <1>3
    <2> QED BY <1>2, <2>1, <2>2, OneMovement
<1> QED BY <1>3, <1>5, <1>6, <1>7, <1>8 DEF WorkerInv, Worker!Pending, Worker!Idle

LEMMA WorkerTake ==
    ASSUME WorkerInv, Worker!Take
    PROVE  WorkerInv'
<1>1. /\ judging = Worker!Idle /\ queue # <<>> /\ queue' = Tail(queue) /\ worker # "off"
      /\ judging' = IF active
                    THEN [read |-> IF threshold = Nothing THEN "null" ELSE "product",
                          movement |-> Head(queue), threshold |-> threshold, after |-> 0]
                    ELSE Worker!Idle
      /\ UNCHANGED <<log, threshold, default, active, worker, notes, crossed, late, lost>>
    BY DEF Worker!Take
<1>2. ASSUME ~late, ~lost PROVE KeepsUp'
    <2>0. Told
        BY <1>1, <1>2, KeptUp, Reading DEF KeepsUp, Done, Worker!Pending
    <2>1. queue = <<Len(log)>> /\ Owed(active)
        BY <2>0 DEF Told
    <2>2. queue' = <<>> /\ Head(queue) = Len(log)
        BY <1>1, <2>1
    <2>3. Owed(active)'
        BY <1>1, <2>1 DEF Owed, Worker!Before, Worker!OnHand, Worker!InForce
    <2>4. CASE active
        <3>1. Owed(TRUE)'
            BY <1>1, <2>3, <2>4 DEF Owed
        <3>2. CASE threshold = Nothing
            BY <1>1, <2>2, <2>4, <3>1, <3>2 DEF KeepsUp, NotRead, Taken
        <3>3. CASE threshold # Nothing
            BY <1>1, <2>2, <2>4, <3>1, <3>3 DEF KeepsUp, ProductRead, Taken, Worker!InForce
        <3> QED BY <3>2, <3>3
    <2>5. CASE ~active
        <3>1. \A c \in Worker!Categories : crossed[c] = notes[c]
            BY <2>1, <2>5 DEF Owed, WorkerInv
        <3>2. crossed = notes
            BY <3>1 DEF WorkerInv
        <3> QED BY <1>1, <2>2, <2>5, <3>2 DEF KeepsUp, Done, Worker!Pending, Worker!Idle
    <2> QED BY <2>4, <2>5
<1> QED BY <1>1, <1>2 DEF WorkerInv

LEMMA WorkerReadDefault ==
    ASSUME WorkerInv, Worker!ReadDefault
    PROVE  WorkerInv'
<1>1. /\ judging.read = "null"
      /\ judging' = [judging EXCEPT !.read = "product", !.threshold = default]
      /\ UNCHANGED <<log, threshold, default, active, worker, queue, notes, crossed, late, lost>>
    BY DEF Worker!ReadDefault
<1>2. judging # Worker!Idle
    BY <1>1 DEF Worker!Idle
<1>3. ASSUME ~late, ~lost PROVE KeepsUp'
    <2>0. NotRead
        BY <1>1, <1>2, <1>3, KeptUp, Reading DEF KeepsUp, Done, Worker!Pending
    <2>1. /\ queue = <<>> /\ Owed(TRUE) /\ threshold = Nothing
          /\ judging = [read |-> "null", movement |-> Len(log),
                        threshold |-> threshold, after |-> 0]
        BY <2>0 DEF NotRead, Taken
    <2>2. Owed(TRUE)'
        BY <1>1, <2>1 DEF Owed, Worker!Before, Worker!OnHand, Worker!InForce
    <2>3. judging' = [read |-> "product", movement |-> Len(log),
                      threshold |-> Worker!InForce, after |-> 0]
        BY <1>1, <2>1 DEF Worker!InForce
    <2> QED BY <1>1, <2>1, <2>2, <2>3 DEF KeepsUp, ProductRead, Taken, Worker!InForce
<1>4. worker # "off"
    BY <1>2 DEF WorkerInv, Worker!Pending
<1> QED BY <1>1, <1>3, <1>4 DEF WorkerInv

LEMMA WorkerRead ==
    ASSUME WorkerInv, Worker!ReadAfter
    PROVE  WorkerInv'
<1>1. /\ judging.read = "product"
      /\ judging' = [judging EXCEPT !.read = "after", !.after = Worker!OnHand]
      /\ UNCHANGED <<log, threshold, default, active, worker, queue, notes, crossed, late, lost>>
    BY DEF Worker!ReadAfter
<1>2. judging # Worker!Idle
    BY <1>1 DEF Worker!Idle
<1>3. Worker!OnHand' = Worker!OnHand
    BY <1>1 DEF Worker!OnHand
<1>4. ASSUME ~late, ~lost PROVE KeepsUp'
    <2>0. ProductRead
        BY <1>1, <1>2, <1>4, KeptUp, Reading DEF KeepsUp, Done, Worker!Pending
    <2>1. /\ queue = <<>> /\ Owed(TRUE)
          /\ judging = [read |-> "product", movement |-> Len(log),
                        threshold |-> Worker!InForce, after |-> 0]
        BY <2>0 DEF ProductRead, Taken
    <2>2. Owed(TRUE)'
        BY <1>1, <1>3, <2>1 DEF Owed, Worker!Before, Worker!InForce
    <2>3. judging' = [read |-> "after", movement |-> Len(log),
                      threshold |-> Worker!InForce, after |-> Worker!OnHand]
        BY <1>1, <2>1
    <2>4. Worker!InForce' = Worker!InForce
        BY <1>1 DEF Worker!InForce
    <2> QED BY <1>1, <1>3, <2>1, <2>2, <2>3, <2>4 DEF KeepsUp, StockRead, Taken
<1>5. worker # "off"
    BY <1>2 DEF WorkerInv, Worker!Pending
<1> QED BY <1>1, <1>4, <1>5 DEF WorkerInv

LEMMA WorkerNotify ==
    ASSUME WorkerInv, Worker!Notify
    PROVE  WorkerInv'
<1>1. /\ judging.read = "after"
      /\ notes' = [c \in Worker!Categories |-> IF Worker!Judges(c) THEN notes[c] + 1 ELSE notes[c]]
      /\ judging' = Worker!Idle
      /\ UNCHANGED <<log, threshold, default, active, worker, queue, crossed, late, lost>>
    BY DEF Worker!Notify
<1>2. judging # Worker!Idle
    BY <1>1 DEF Worker!Idle
<1>3. ASSUME ~late, ~lost PROVE KeepsUp'
    <2>0. StockRead
        BY <1>1, <1>2, <1>3, KeptUp, Reading DEF KeepsUp, Done, Worker!Pending
    <2>1. /\ queue = <<>> /\ Owed(TRUE)
          /\ judging = [read |-> "after", movement |-> Len(log),
                        threshold |-> Worker!InForce, after |-> Worker!OnHand]
        BY <2>0 DEF StockRead, Taken
    <2>2. \A c \in Worker!Categories : notes'[c] = crossed[c]
        BY <1>1, <2>1 DEF Owed, Worker!Judges, WorkerInv
    <2>3. notes' = crossed'
        BY <1>1, <2>2 DEF WorkerInv
    <2> QED BY <1>1, <2>1, <2>3 DEF KeepsUp, Done, Worker!Pending, Worker!Idle
<1>4. worker # "off"
    BY <1>2 DEF WorkerInv, Worker!Pending
<1>5. notes' \in [Worker!Categories -> Int]
    BY <1>1 DEF WorkerInv
<1> QED BY <1>1, <1>3, <1>4, <1>5 DEF WorkerInv

LEMMA WorkerOther ==
    ASSUME WorkerInv,
           \/ \E t \in Threshold, a \in BOOLEAN : Worker!SetProduct(t, a)
           \/ \E t \in Default : Worker!SetDefault(t)
           \/ Worker!Listen \/ Worker!Drop \/ Worker!LoseConnection \/ Worker!Crash
    PROVE  WorkerInv'
<1>1. CASE \E t \in Threshold, a \in BOOLEAN : Worker!SetProduct(t, a)
    <2>1. /\ late' = (late \/ Worker!Pending)
          /\ UNCHANGED <<log, worker, queue, judging, notes, crossed, lost>>
        BY <1>1 DEF Worker!SetProduct
    <2>2. late' \in BOOLEAN
        BY <2>1 DEF WorkerInv
    <2>3. ASSUME ~late', ~lost' PROVE KeepsUp'
        <3>1. ~late /\ ~Worker!Pending
            BY <2>1, <2>3, Zenon
        <3>2. Done
            BY <2>1, <2>3, <3>1, KeptUp, Reading DEF KeepsUp, Worker!Pending, Worker!Idle
        <3> QED BY <2>1, <3>2 DEF KeepsUp, Done, Worker!Pending, Worker!Idle
    <2> QED BY <2>1, <2>2, <2>3 DEF WorkerInv, Worker!Pending, Worker!Idle
<1>2. CASE Worker!Listen
    <2>1. /\ worker = "off" /\ queue' = <<>>
          /\ UNCHANGED <<log, threshold, default, active, judging, notes, crossed, late, lost>>
        BY <1>2 DEF Worker!Listen
    <2>2. ~Worker!Pending
        BY <2>1 DEF WorkerInv
    <2>3. ~Worker!Pending'
        BY <2>1, <2>2 DEF Worker!Pending, Worker!Idle
    <2>4. ASSUME ~late, ~lost PROVE KeepsUp'
        <3>1. Done
            BY <2>2, <2>4, KeptUp, Reading DEF KeepsUp, Worker!Pending, Worker!Idle
        <3> QED BY <2>1, <2>3, <3>1 DEF KeepsUp, Done
    <2> QED BY <2>1, <2>3, <2>4 DEF WorkerInv
<1>3. CASE Worker!Drop
    <2>1. /\ judging # Worker!Idle /\ lost' = TRUE
          /\ UNCHANGED <<log, worker, notes, crossed, late>>
        BY <1>3 DEF Worker!Drop
    <2> QED BY <2>1 DEF WorkerInv, Worker!Pending
<1>4. CASE Worker!LoseConnection
    <2>1. /\ worker' = "deaf"
          /\ UNCHANGED <<log, threshold, default, active, queue, judging, notes, crossed, late, lost>>
        BY <1>4 DEF Worker!LoseConnection
    <2>2. KeepsUp => KeepsUp'
        BY <2>1 DEF KeepsUp, Done, Told, NotRead, ProductRead, StockRead, Taken, Owed, Worker!InForce,
                    Worker!Pending, Worker!Idle, Worker!Before, Worker!OnHand
    <2> QED BY <2>1, <2>2 DEF WorkerInv
<1>5. CASE Worker!Crash
    <2>1. /\ queue' = <<>> /\ judging' = Worker!Idle /\ lost' = (lost \/ Worker!Pending)
          /\ UNCHANGED <<log, threshold, default, active, notes, crossed, late>>
        BY <1>5 DEF Worker!Crash
    <2>2. lost' \in BOOLEAN /\ ~Worker!Pending'
        BY <2>1 DEF WorkerInv, Worker!Pending, Worker!Idle
    <2>3. ASSUME ~late', ~lost' PROVE KeepsUp'
        <3>1. ~lost /\ ~Worker!Pending
            BY <2>1, <2>3, Zenon
        <3>2. Done
            BY <2>1, <2>3, <3>1, KeptUp, Reading DEF KeepsUp, Worker!Pending, Worker!Idle
        <3> QED BY <2>1, <2>2, <3>2 DEF KeepsUp, Done
    <2> QED BY <2>1, <2>2, <2>3 DEF WorkerInv
<1>6. CASE \E t \in Default : Worker!SetDefault(t)
    <2>1. /\ late' = (late \/ (Worker!Pending /\ threshold = Nothing))
          /\ UNCHANGED <<log, threshold, active, worker, queue, judging, notes, crossed, lost>>
        BY <1>6 DEF Worker!SetDefault
    <2>2. late' \in BOOLEAN
        BY <2>1 DEF WorkerInv
    <2>3. ASSUME ~late', ~lost' PROVE KeepsUp'
        <3>1. ~late /\ ~lost /\ ~(Worker!Pending /\ threshold = Nothing)
            BY <2>1, <2>3, Zenon
        <3>2. CASE ~Worker!Pending
            <4>1. Done
                BY <3>1, <3>2, KeptUp, Reading DEF KeepsUp, Worker!Pending, Worker!Idle
            <4> QED BY <2>1, <4>1 DEF KeepsUp, Done, Worker!Pending, Worker!Idle
        <3>3. CASE threshold # Nothing
            <4>1. KeepsUp /\ Worker!InForce' = Worker!InForce
                BY <2>1, <3>1, <3>3, KeptUp DEF Worker!InForce
            <4> QED BY <2>1, <4>1
                    DEF KeepsUp, Done, Told, NotRead, ProductRead, StockRead, Taken, Owed,
                        Worker!Pending, Worker!Idle, Worker!Before, Worker!OnHand, Worker!Limit
        <3> QED BY <3>1, <3>2, <3>3
    <2> QED BY <2>1, <2>2, <2>3 DEF WorkerInv, Worker!Pending, Worker!Idle
<1> QED BY <1>1, <1>2, <1>3, <1>4, <1>5, <1>6

LEMMA WorkerStep == ASSUME WorkerInv, [Next]_vars PROVE WorkerInv'
<1>1. CASE UNCHANGED workerVars
    BY <1>1 DEF workerVars, WorkerInv, KeepsUp, Done, Told, NotRead, ProductRead, StockRead, Taken, Owed,
                Worker!InForce, Worker!Pending, Worker!Idle, Worker!Before, Worker!OnHand
<1>2. CASE Worker!Next
    <2>1. CASE \E q \in Quantity : Worker!Move(<<q>>) \/ \E p \in Quantity : Worker!Move(<<q, p>>)
        <3>1. PICK q \in Quantity : Worker!Move(<<q>>) \/ \E p \in Quantity : Worker!Move(<<q, p>>)
            BY <2>1
        <3>2. CASE Worker!Move(<<q>>)
            BY <3>2, WorkerMove
        <3>3. CASE \E p \in Quantity : Worker!Move(<<q, p>>)
            BY <3>3, WorkerMove
        <3> QED BY <3>1, <3>2, <3>3
    <2>2. CASE Worker!Judge
        BY <2>2, WorkerTake, WorkerReadDefault, WorkerRead, WorkerNotify DEF Worker!Judge
    <2> QED BY <1>2, <2>1, <2>2, WorkerOther DEF Worker!Next
<1>3. CASE Worker!Crash
    BY <1>3, WorkerOther
<1> QED BY <1>1, <1>2, <1>3 DEF Next, JobsOnly, Restart, vars

(* Every movement that takes an active product to a limit or below it is   *)
(* notified once, in its category, while the worker keeps up, however      *)
(* often the process was restarted in between.                             *)
THEOREM WorkerNotifiedWhileKeepingUp == Spec => []NotifiedWhileKeepingUp
<1>1. Init => WorkerInv
    BY WorkerInit DEF Init
<1>2. WorkerInv /\ [Next]_vars => WorkerInv'
    BY WorkerStep
<1>3. WorkerInv => NotifiedWhileKeepingUp
    <2>1. ASSUME WorkerInv, ~late, ~lost, ~Worker!Pending PROVE notes = crossed
        BY <2>1, KeptUp, Reading DEF KeepsUp, Done, Worker!Pending, Worker!Idle
    <2> QED BY <2>1 DEF NotifiedWhileKeepingUp, Worker!NotifiedWhileKeepingUp
<1> QED BY <1>1, <1>2, <1>3, PTL DEF Spec

-----------------------------------------------------------------------------
(* The master data. *)

(* The columns of each table, with the values they take: a row of a table  *)
(* is a function on its columns.                                           *)
Columns(id) ==
    CASE id \in Product ->
            [code |-> Code \cup {NoValue}, price |-> Price, override |-> Price \cup {NoValue},
             category |-> Category \cup {NoValue}, unit |-> Unit \cup {NoValue},
             jenis |-> Attribute \cup {NoValue}, size |-> Attribute \cup {NoValue},
             kualitas |-> Attribute \cup {NoValue}, active |-> BOOLEAN, at |-> Nat]
      [] id \in Category -> [parent |-> Category \cup {NoValue}, active |-> BOOLEAN, at |-> Nat]
      [] id \in Unit ->
            [dimension |-> Dimension \cup {NoValue}, base |-> Unit \cup {NoValue},
             active |-> BOOLEAN]
      [] id \in Attribute -> [kind |-> Kind, active |-> BOOLEAN, at |-> Nat]
      [] id \in Contact ->
            [type |-> {"customer", "supplier", "both"}, active |-> BOOLEAN, at |-> Nat]
      [] id \in CostType -> [active |-> BOOLEAN]

Shaped(x, columns) ==
    /\ x = [f \in DOMAIN columns |-> x[f]]
    /\ \A f \in DOMAIN columns : x[f] \in columns[f]

(* Rows whose tag changes with every write.                                *)
Dated == Product \cup Category \cup Contact

(* A row to insert has every column but "updated_at"; a patch has some.    *)
NewOK(id, fields) ==
    /\ fields = [f \in DOMAIN Columns(id) \ {"at"} |-> fields[f]]
    /\ \A f \in DOMAIN Columns(id) \ {"at"} : fields[f] \in Columns(id)[f]
PatchOK(id, fields) ==
    /\ DOMAIN fields \subseteq DOMAIN Columns(id) \ {"at"}
    /\ \A f \in DOMAIN fields : fields[f] \in Columns(id)[f]

(* An attribute that was checked is of the kind of the column, or gone.    *)
KindsFit(fields) ==
    \A k \in Kind \cap DOMAIN fields : fields[k] # NoValue =>
        /\ fields[k] \in Attribute
        /\ rows[fields[k]] = Deleted \/ (Exists(fields[k]) /\ rows[fields[k]].kind = k)

ImportFields == {"op", "at", "file", "valid", "i", "checked", "aborted", "result"}

ShopTxnOK(t) ==
    /\ t.op # "none" => t.at \in 1 .. now
    /\ t.op = "create" =>
          /\ t.table \subseteq Id
          /\ \A id \in t.table : NewOK(id, t.fields)
          /\ KindsFit(t.fields)
    /\ t.op \in {"edit", "deactivate", "delete"} => t.id \in Id /\ rows[t.id] # Unused
    /\ t.op = "edit" =>
          /\ PatchOK(t.id, t.fields) /\ KindsFit(t.fields)
          /\ t.id \in Attribute => "kind" \notin DOMAIN t.fields
          /\ t.id \in Dated /\ t.copy.id = t.id => t.copy.row = t.seen
          /\ t.seen \in Table(t.id)
    /\ t.op = "import" =>
          /\ DOMAIN t = ImportFields
          /\ t.file \in File /\ t.i \in Nat \ {0} /\ t.checked \in BOOLEAN
          /\ t.checked = TRUE => t.i \in DOMAIN t.file

RowsPart ==
    /\ now \in 0 .. MaxTime
    /\ rows = [id \in Id |-> rows[id]]
    /\ \A id \in Existing : Shaped(rows[id], Columns(id))
    /\ history \in [Product -> Seq(Price \X (Price \cup {NoValue}))]
    /\ used \subseteq Id

ShopTxnsPart ==
    /\ txn = [r \in Request |-> txn[r]] /\ copy = [r \in Request |-> copy[r]]
    /\ \A r \in Request : ShopTxnOK(txn[r])

(* A time is written once: no two open requests have the same, and none    *)
(* has the time of a row or of a copy.  A copy with the tag of its row is  *)
(* the row.                                                                *)
VersionsPart ==
    /\ \A r, s \in Request : r # s /\ txn[r].op # "none" /\ txn[s].op # "none" =>
          txn[r].at # txn[s].at
    /\ \A id \in Dated, r \in Request : Exists(id) =>
          rows[id].at \in 0 .. now /\ (txn[r].op # "none" => rows[id].at # txn[r].at)
    /\ \A r \in Request : copy[r].id \in Dated =>
          /\ copy[r].row.at \in 0 .. now
          /\ \A s \in Request : txn[s].op # "none" => copy[r].row.at # txn[s].at
          /\ Exists(copy[r].id) /\ copy[r].row.at = rows[copy[r].id].at =>
                copy[r].row = rows[copy[r].id]
    /\ \A r \in Request : txn[r].op = "edit" => txn[r].copy = copy[r]

ShopInv == RowsPart /\ ReferencesHold /\ ShopTxnsPart /\ VersionsPart

-----------------------------------------------------------------------------
(* A row of a table is a function on the table's columns.                  *)
LEMMA TableShape ==
    ASSUME NEW id \in Id, NEW x
    PROVE  x \in Table(id) <=> Shaped(x, Columns(id))
<1>1. CASE id \in Product
    <2>1. Table(id) = ProductRow
        BY <1>1, IdAssumption DEF Table
    <2>2. PICK columns : columns = Columns(id)
        OBVIOUS
    <2>3. columns =
            [code |-> Code \cup {NoValue}, price |-> Price, override |-> Price \cup {NoValue},
             category |-> Category \cup {NoValue}, unit |-> Unit \cup {NoValue},
             jenis |-> Attribute \cup {NoValue}, size |-> Attribute \cup {NoValue},
             kualitas |-> Attribute \cup {NoValue}, active |-> BOOLEAN, at |-> Nat]
        BY <1>1, <2>2, IdAssumption DEF Columns
    <2>4. x \in ProductRow <=> Shaped(x, columns)
        BY <2>3 DEF ProductRow, Shaped
    <2> QED BY <2>1, <2>2, <2>4
<1>2. CASE id \in Category
    <2>1. Table(id) = CategoryRow
        BY <1>2, IdAssumption DEF Table
    <2>2. PICK columns : columns = Columns(id)
        OBVIOUS
    <2>3. columns = [parent |-> Category \cup {NoValue}, active |-> BOOLEAN, at |-> Nat]
        BY <1>2, <2>2, IdAssumption DEF Columns
    <2>4. x \in CategoryRow <=> Shaped(x, columns)
        BY <2>3 DEF CategoryRow, Shaped
    <2> QED BY <2>1, <2>2, <2>4
<1>3. CASE id \in Unit
    <2>1. Table(id) = UnitRow
        BY <1>3, IdAssumption DEF Table
    <2>2. PICK columns : columns = Columns(id)
        OBVIOUS
    <2>3. columns = [dimension |-> Dimension \cup {NoValue}, base |-> Unit \cup {NoValue},
                     active |-> BOOLEAN]
        BY <1>3, <2>2, IdAssumption DEF Columns
    <2>4. x \in UnitRow <=> Shaped(x, columns)
        BY <2>3 DEF UnitRow, Shaped
    <2> QED BY <2>1, <2>2, <2>4
<1>4. CASE id \in Attribute
    <2>1. Table(id) = AttributeRow
        BY <1>4, IdAssumption DEF Table
    <2>2. PICK columns : columns = Columns(id)
        OBVIOUS
    <2>3. columns = [kind |-> Kind, active |-> BOOLEAN, at |-> Nat]
        BY <1>4, <2>2, IdAssumption DEF Columns
    <2>4. x \in AttributeRow <=> Shaped(x, columns)
        BY <2>3 DEF AttributeRow, Shaped
    <2> QED BY <2>1, <2>2, <2>4
<1>5. CASE id \in Contact
    <2>1. Table(id) = ContactRow
        BY <1>5, IdAssumption DEF Table
    <2>2. PICK columns : columns = Columns(id)
        OBVIOUS
    <2>3. columns = [type |-> {"customer", "supplier", "both"}, active |-> BOOLEAN, at |-> Nat]
        BY <1>5, <2>2, IdAssumption DEF Columns
    <2>4. x \in ContactRow <=> Shaped(x, columns)
        BY <2>3 DEF ContactRow, Shaped
    <2> QED BY <2>1, <2>2, <2>4
<1>6. CASE id \in CostType
    <2>1. Table(id) = CostTypeRow
        BY <1>6, IdAssumption DEF Table
    <2>2. PICK columns : columns = Columns(id)
        OBVIOUS
    <2>3. columns = [active |-> BOOLEAN]
        BY <1>6, <2>2, IdAssumption DEF Columns
    <2>4. x \in CostTypeRow <=> Shaped(x, columns)
        BY <2>3 DEF CostTypeRow, Shaped
    <2> QED BY <2>1, <2>2, <2>4
<1> QED BY <1>1, <1>2, <1>3, <1>4, <1>5, <1>6 DEF Id

(* The tables with an "updated_at".                                        *)
LEMMA TaggedColumn ==
    ASSUME NEW id \in Id
    PROVE  IF id \in Tagged THEN "at" \in DOMAIN Columns(id) /\ Columns(id)["at"] = Nat
                                 ELSE "at" \notin DOMAIN Columns(id)
BY IdAssumption DEF Tagged, Id, Columns

(* A write gives a row of its table.                                       *)
LEMMA PatchedShape ==
    ASSUME NEW columns, NEW x, Shaped(x, columns), NEW fields,
           DOMAIN fields \subseteq DOMAIN columns, \A f \in DOMAIN fields : fields[f] \in columns[f]
    PROVE  /\ Shaped(Patched(x, fields), columns)
           /\ \A f \in DOMAIN columns :
                Patched(x, fields)[f] = IF f \in DOMAIN fields THEN fields[f] ELSE x[f]
<1>1. DOMAIN x \cup DOMAIN fields = DOMAIN columns
    BY DEF Shaped
<1>2. Patched(x, fields) =
        [f \in DOMAIN columns |-> IF f \in DOMAIN fields THEN fields[f] ELSE x[f]]
    BY <1>1 DEF Patched
<1> QED BY <1>2 DEF Shaped

LEMMA StoredShape ==
    ASSUME NEW id \in Id, NEW x, NEW at \in Nat,
           Shaped(x, Columns(id)) \/ NewOK(id, x)
    PROVE  /\ Shaped(Stored(id, x, at), Columns(id))
           /\ \A f \in DOMAIN Columns(id) \ {"at"} : Stored(id, x, at)[f] = x[f]
           /\ id \in Tagged => Stored(id, x, at).at = at
<1>1. PICK columns : columns = Columns(id)
    OBVIOUS
<1>2. IF id \in Tagged THEN "at" \in DOMAIN columns /\ columns["at"] = Nat
                            ELSE "at" \notin DOMAIN columns
    BY <1>1, TaggedColumn
<1>3. /\ DOMAIN columns \ {"at"} \subseteq DOMAIN x /\ DOMAIN x \subseteq DOMAIN columns
      /\ \A f \in DOMAIN columns \ {"at"} : x[f] \in columns[f]
      /\ x = [f \in DOMAIN x |-> x[f]]
    BY <1>1 DEF Shaped, NewOK
<1>4. CASE id \in Tagged
    <2>1. PICK stamp : stamp = [at |-> at]
        OBVIOUS
    <2>2. DOMAIN stamp = {"at"} /\ stamp["at"] = at
        BY <2>1
    <2>3. DOMAIN x \cup DOMAIN stamp = DOMAIN columns
        BY <1>2, <1>3, <1>4, <2>2
    <2>4. Stored(id, x, at) = [f \in DOMAIN columns |-> IF f = "at" THEN at ELSE x[f]]
        BY <1>4, <2>1, <2>2, <2>3 DEF Stored, Patched
    <2> QED BY <1>1, <1>2, <1>3, <1>4, <2>4 DEF Shaped
<1>5. CASE id \notin Tagged
    <2>1. Stored(id, x, at) = x
        BY <1>5 DEF Stored
    <2>2. DOMAIN x = DOMAIN columns
        BY <1>2, <1>3, <1>5
    <2> QED BY <1>1, <1>2, <1>3, <1>5, <2>1, <2>2 DEF Shaped
<1> QED BY <1>4, <1>5

(* A row of a table is neither of the marks of an id without one.          *)
LEMMA ShapedExists ==
    ASSUME NEW id \in Id, NEW x, Shaped(x, Columns(id))
    PROVE  x # Unused /\ x # Deleted
<1>1. x \in Table(id)
    BY TableShape
<1> QED BY <1>1, IdAssumption

-----------------------------------------------------------------------------
(* One row is written: "x" takes the place of the row of "id", or of none.  *)
WritesRow(id, x, at) ==
    /\ id \in Id /\ rows[id] # Deleted
    /\ x = Deleted => Exists(id) /\ ~Held(id)
    /\ x # Deleted =>
          /\ Shaped(x, Columns(id)) /\ Refers(x) \subseteq Existing
          /\ id \in Attribute /\ Exists(id) => x.kind = rows[id].kind
          /\ id \in Product => KindsFit(x)
          /\ id \in Dated => x.at = at
    /\ rows' = [rows EXCEPT ![id] = x]

LEMMA WriteRows ==
    ASSUME RowsPart, NEW id, NEW x, NEW at, WritesRow(id, x, at)
    PROVE  /\ rows' = [i \in Id |-> rows'[i]]
           /\ \A i \in Existing' : Shaped(rows'[i], Columns(i))
           /\ rows'[id] = x /\ \A i \in Id \ {id} : rows'[i] = rows[i]
           /\ Existing' = IF x = Deleted THEN Existing \ {id} ELSE Existing \cup {id}
           /\ \A i \in Id : rows[i] # Unused => rows'[i] # Unused
<1>1. id \in Id /\ rows[id] # Deleted /\ rows' = [rows EXCEPT ![id] = x]
      /\ rows = [i \in Id |-> rows[i]]
    BY DEF WritesRow, RowsPart
<1>2. rows' = [i \in Id |-> IF i = id THEN x ELSE rows[i]]
    BY <1>1
<1>3. x # Deleted => x # Unused /\ Shaped(x, Columns(id))
    BY <1>1, ShapedExists DEF WritesRow
<1>4. x # Unused
    BY <1>3, IdAssumption
<1>5. Existing' = IF x = Deleted THEN Existing \ {id} ELSE Existing \cup {id}
    BY <1>1, <1>2, <1>4 DEF Existing, Exists
<1>6. \A i \in Existing' : Shaped(rows'[i], Columns(i))
    BY <1>1, <1>2, <1>3, <1>5 DEF RowsPart, Existing
<1> QED BY <1>1, <1>2, <1>4, <1>5, <1>6

LEMMA WriteReferences ==
    ASSUME RowsPart, ReferencesHold, NEW id, NEW x, NEW at, WritesRow(id, x, at),
           used' = used
    PROVE  ReferencesHold'
<1>1. /\ rows'[id] = x /\ \A i \in Id \ {id} : rows'[i] = rows[i]
      /\ Existing' = IF x = Deleted THEN Existing \ {id} ELSE Existing \cup {id}
    BY WriteRows
<1>2. Existing \subseteq Id /\ id \in Id
    BY DEF Existing, WritesRow
<1>3. (used \subseteq Existing)'
    <2>1. x = Deleted => id \notin used
        BY DEF WritesRow, Held
    <2> QED BY <1>1, <2>1 DEF ReferencesHold
<1>4. ASSUME NEW i \in Existing'
      PROVE  Refers(rows'[i]) \subseteq Existing'
    <2>1. CASE i = id
        BY <1>1, <1>4, <2>1 DEF WritesRow
    <2>2. CASE i # id
        <3>1. i \in Existing /\ rows'[i] = rows[i]
            BY <1>1, <1>2, <1>4, <2>2
        <3>2. Refers(rows[i]) \subseteq Existing
            BY <3>1 DEF ReferencesHold
        <3>3. x = Deleted => id \notin Refers(rows[i])
            BY <3>1 DEF WritesRow, Held
        <3> QED BY <1>1, <3>1, <3>2, <3>3
    <2> QED BY <2>1, <2>2
<1>5. ASSUME NEW p \in Product, NEW k \in Kind, Exists(p)', rows'[p][k] # NoValue
      PROVE  rows'[rows'[p][k]].kind = k
    <2>1. p \in Id
        BY DEF Id
    <2>2. PICK y : y = rows'[p]
        OBVIOUS
    <2>3. PICK a : a = y[k]
        OBVIOUS
    <2>4. y[k] # NoValue /\ a # NoValue
        BY <1>5, <2>2, <2>3
    <2>5. Shaped(y, Columns(p))
        <3>1. p \in Existing'
            BY <1>5, <2>1 DEF Existing
        <3> QED BY <2>2, <3>1, WriteRows
    <2>6. a \in Attribute /\ a \in Refers(y)
        <3>1. k \in DOMAIN Columns(p) /\ Columns(p)[k] = Attribute \cup {NoValue}
            BY IdAssumption DEF Columns, Kind
        <3>2. k \in DOMAIN y /\ k \in {"category", "unit", "jenis", "size", "kualitas", "parent", "base"}
            BY <2>5, <3>1 DEF Shaped, Kind
        <3> QED BY <2>3, <2>4, <2>5, <3>1, <3>2 DEF Shaped, Refers
    <2>7. a \in Id /\ a # p
        BY <2>6, IdAssumption DEF Id
    <2>8. a \in Existing /\ rows[a].kind = k
        <3>1. CASE p = id
            <4>1. y = x /\ x # Deleted
                BY <1>1, <1>5, <2>2, <3>1 DEF Exists
            <4>2. KindsFit(y) /\ Refers(y) \subseteq Existing
                BY <3>1, <4>1 DEF WritesRow
            <4>3. a \in Existing
                BY <2>6, <4>2
            <4>4. k \in DOMAIN y
                BY <2>5, IdAssumption DEF Columns, Kind, Shaped
            <4> QED BY <2>3, <2>4, <4>2, <4>3, <4>4 DEF KindsFit, Existing, Exists
        <3>2. CASE p # id
            <4>1. y = rows[p] /\ Exists(p)
                BY <1>1, <1>5, <2>1, <2>2, <3>2 DEF Exists
            <4>2. p \in Existing
                BY <2>1, <4>1 DEF Existing
            <4> QED BY <2>3, <2>4, <2>6, <4>1, <4>2 DEF ReferencesHold
        <3> QED BY <3>1, <3>2
    <2>9. rows'[a].kind = k
        <3>1. CASE a = id
            <4>1. a \in Refers(y) /\ a \in Existing'
                <5>1. p \in Existing'
                    BY <1>5, <2>1 DEF Existing
                <5> QED BY <1>4, <2>2, <2>6, <5>1
            <4>2. x # Deleted
                BY <1>1, <1>2, <3>1, <4>1
            <4>3. x.kind = rows[a].kind
                BY <2>6, <2>8, <3>1, <4>2 DEF WritesRow, Existing
            <4> QED BY <1>1, <2>8, <3>1, <4>3
        <3>2. CASE a # id
            BY <1>1, <2>7, <2>8, <3>2
        <3> QED BY <3>1, <3>2
    <2> QED BY <2>2, <2>3, <2>9
<1> QED BY <1>3, <1>4, <1>5 DEF ReferencesHold

(* What an open request relies on stays true when a row is written.        *)
LEMMA WriteTxn ==
    ASSUME RowsPart, NEW id, NEW x, NEW at, WritesRow(id, x, at),
           now' \in Nat, now <= now', NEW t, ShopTxnOK(t)
    PROVE  ShopTxnOK(t)'
<1>1. /\ rows'[id] = x /\ \A i \in Id \ {id} : rows'[i] = rows[i]
      /\ \A i \in Id : rows[i] # Unused => rows'[i] # Unused
    BY WriteRows
<1>2. t.op # "none" => t.at \in 1 .. now'
    BY DEF ShopTxnOK, RowsPart
<1>3. ASSUME NEW fields, KindsFit(fields)
      PROVE  KindsFit(fields)'
    <2> SUFFICES ASSUME NEW k \in Kind \cap DOMAIN fields, fields[k] # NoValue
                 PROVE  /\ fields[k] \in Attribute
                        /\ rows'[fields[k]] = Deleted
                             \/ (Exists(fields[k])' /\ rows'[fields[k]].kind = k)
        BY DEF KindsFit
    <2>1. PICK a : a = fields[k]
        OBVIOUS
    <2>2. a \in Attribute /\ (rows[a] = Deleted \/ (Exists(a) /\ rows[a].kind = k))
        BY <1>3, <2>1 DEF KindsFit
    <2>3. a \in Id
        BY <2>2 DEF Id
    <2>4. CASE a # id
        BY <1>1, <2>1, <2>2, <2>3, <2>4 DEF Exists
    <2>5. CASE a = id
        <3>1. Exists(a) /\ rows[a].kind = k
            BY <2>2, <2>5 DEF WritesRow
        <3>2. CASE x = Deleted
            <4>1. rows'[fields[k]] = Deleted
                BY <1>1, <2>1, <2>5, <3>2
            <4>2. fields[k] \in Attribute
                BY <2>1, <2>2
            <4> QED BY <4>1, <4>2 DEF Exists
        <3>3. CASE x # Deleted
            <4>1. x.kind = k
                BY <2>2, <2>5, <3>1, <3>3 DEF WritesRow
            <4>2. rows'[a] = x /\ x # Unused
                BY <1>1, <2>3, <2>5, <3>1 DEF Exists
            <4> QED BY <2>1, <2>2, <3>3, <4>1, <4>2 DEF Exists
        <3> QED BY <3>2, <3>3
    <2> QED BY <2>4, <2>5
<1> QED BY <1>1, <1>2, <1>3 DEF ShopTxnOK

(* The versions, when request r has written and goes on with "next".       *)
LEMMA WriteVersions ==
    ASSUME ShopInv, NEW r \in Request, NEW id, NEW x, WritesRow(id, x, txn[r].at),
           txn[r].op # "none", txn'[r].op # "edit",
           txn' = [txn EXCEPT ![r] = txn'[r]],
           \/ txn'[r].op = "none" /\ now' = now
           \/ txn'[r].at = now + 1 /\ now' = now + 1,
           \/ copy' = copy
           \/ copy' = [copy EXCEPT ![r] = NoCopy]
    PROVE  VersionsPart'
<1>1. /\ rows'[id] = x /\ \A i \in Id \ {id} : rows'[i] = rows[i]
      /\ Existing' = IF x = Deleted THEN Existing \ {id} ELSE Existing \cup {id}
    BY WriteRows DEF ShopInv
<1>2. now \in Nat /\ txn[r].at \in 1 .. now
    BY MaxTimeAssumption DEF ShopInv, RowsPart, ShopTxnsPart, ShopTxnOK
<1>3. now' \in Nat /\ now <= now'
    BY <1>2
<1>4. PICK next : next = txn'[r]
    OBVIOUS
<1>5. \A s \in Request : txn'[s] = IF s = r THEN next ELSE txn[s]
    BY <1>4 DEF ShopInv, ShopTxnsPart
<1>6. next.op # "none" => next.at = now + 1 /\ now' = now + 1
    BY <1>4
<1>7. \A s \in Request : txn[s].op # "none" => txn[s].at \in 1 .. now
    BY DEF ShopInv, ShopTxnsPart, ShopTxnOK
<1>8. ASSUME NEW s \in Request, txn'[s].op # "none"
      PROVE  /\ txn'[s].at \in 1 .. now' /\ txn'[s].at # txn[r].at
             /\ \/ s # r /\ txn[s].op # "none" /\ txn'[s].at = txn[s].at
                \/ s = r /\ txn'[s].at = now + 1
    <2>1. CASE s = r
        BY <1>2, <1>5, <1>6, <1>8, <2>1
    <2>2. CASE s # r
        BY <1>2, <1>3, <1>5, <1>7, <1>8, <2>2 DEF ShopInv, VersionsPart
    <2> QED BY <2>1, <2>2
<1>9. ASSUME NEW s1 \in Request, NEW s2 \in Request, s1 # s2, txn'[s1].op # "none", txn'[s2].op # "none"
      PROVE  txn'[s1].at # txn'[s2].at
    <2>1. s1 # r /\ s2 # r => txn[s1].at # txn[s2].at
        BY <1>5, <1>9 DEF ShopInv, VersionsPart
    <2> QED BY <1>2, <1>7, <1>8, <1>9, <2>1
<1>10. ASSUME NEW i \in Dated, Exists(i)'
       PROVE  /\ rows'[i].at \in 0 .. now'
              /\ \A s \in Request : txn'[s].op # "none" => rows'[i].at # txn'[s].at
    <2>1. i \in Id
        BY DEF Dated, Id
    <2>2. CASE i = id
        <3>1. rows'[i].at = txn[r].at
            <4>1. x # Deleted
                BY <1>1, <1>10, <2>2 DEF Exists
            <4> QED BY <1>1, <1>10, <2>2, <4>1 DEF WritesRow
        <3> QED BY <1>2, <1>3, <1>8, <3>1
    <2>3. CASE i # id
        <3>1. rows'[i] = rows[i] /\ Exists(i)
            BY <1>1, <1>10, <2>1, <2>3 DEF Exists
        <3>2. rows[i].at \in 0 .. now
              /\ \A s \in Request : txn[s].op # "none" => rows[i].at # txn[s].at
            BY <3>1 DEF ShopInv, VersionsPart
        <3> QED BY <1>2, <1>3, <1>8, <3>1, <3>2
    <2> QED BY <2>2, <2>3
<1>11. ASSUME NEW s \in Request, copy'[s].id \in Dated
       PROVE  /\ copy'[s].row.at \in 0 .. now'
              /\ \A s2 \in Request : txn'[s2].op # "none" => copy'[s].row.at # txn'[s2].at
              /\ Exists(copy[s].id)' /\ copy'[s].row.at = rows'[copy'[s].id].at =>
                    copy'[s].row = rows'[copy'[s].id]
    <2>1. copy'[s] = copy[s]
        <3>1. NoCopy.id \notin Dated
            BY IdAssumption DEF NoCopy, Dated, Id
        <3>2. copy'[s] = NoCopy \/ copy'[s] = copy[s]
            BY DEF ShopInv, ShopTxnsPart
        <3> QED BY <1>11, <3>1, <3>2
    <2>2. PICK c : c = copy[s]
        OBVIOUS
    <2>3. PICK i : i = c.id
        OBVIOUS
    <2>4. i \in Dated /\ i \in Id
        BY <1>11, <2>1, <2>2, <2>3 DEF Dated, Id
    <2>5. /\ c.row.at \in 0 .. now
          /\ \A s2 \in Request : txn[s2].op # "none" => c.row.at # txn[s2].at
          /\ Exists(i) /\ c.row.at = rows[i].at => c.row = rows[i]
        BY <2>2, <2>3, <2>4 DEF ShopInv, VersionsPart
    <2>6. c.row.at \in 0 .. now'
          /\ \A s2 \in Request : txn'[s2].op # "none" => c.row.at # txn'[s2].at
        BY <1>2, <1>3, <1>8, <2>5
    <2>7. Exists(i)' /\ c.row.at = rows'[i].at => c.row = rows'[i]
        <3>1. CASE i = id
            <4>1. Exists(i)' => rows'[i].at = txn[r].at
                BY <1>1, <2>4, <3>1 DEF Exists, WritesRow
            <4>2. c.row.at # txn[r].at
                BY <2>5
            <4> QED BY <4>1, <4>2
        <3>2. CASE i # id
            BY <1>1, <2>4, <2>5, <3>2 DEF Exists
        <3> QED BY <3>1, <3>2
    <2> QED BY <2>1, <2>2, <2>3, <2>6, <2>7
<1>12. ASSUME NEW s \in Request, txn'[s].op = "edit"
       PROVE  txn'[s].copy = copy'[s]
    <2>1. s # r /\ txn'[s] = txn[s]
        BY <1>4, <1>5, <1>12
    <2>2. copy'[s] = copy[s]
        BY <2>1 DEF ShopInv, ShopTxnsPart
    <2> QED BY <1>12, <2>1, <2>2 DEF ShopInv, VersionsPart
<1> QED BY <1>9, <1>10, <1>11, <1>12 DEF VersionsPart

-----------------------------------------------------------------------------
(* The kinds of step: a request opens, closes, or writes a row and closes. *)
LEMMA ShopOpens ==
    ASSUME ShopInv, NEW r \in Request, NEW new, Open(r, new),
           new.op # "none", new.at = now + 1, new.op = "edit" => new.copy = copy[r],
           ShopTxnOK(new)'
    PROVE  ShopInv'
<1>1. /\ now < MaxTime /\ now' = now + 1 /\ txn' = [txn EXCEPT ![r] = new]
      /\ rows' = rows /\ history' = history /\ used' = used /\ copy' = copy
    BY DEF Open
<1>2. now \in Nat /\ now' \in 0 .. MaxTime
    BY <1>1, MaxTimeAssumption DEF ShopInv, RowsPart
<1>3. \A s \in Request : txn'[s] = IF s = r THEN new ELSE txn[s]
    BY <1>1 DEF ShopInv, ShopTxnsPart
<1>4. \A i : (Exists(i) <=> Exists(i)')
    BY <1>1 DEF Exists
<1>5. Existing' = Existing
    BY <1>4 DEF Existing
<1>6. RowsPart'
    BY <1>1, <1>2, <1>5 DEF ShopInv, RowsPart
<1>7. ReferencesHold'
    BY <1>1, <1>4, <1>5 DEF ShopInv, ReferencesHold, Refers
<1>8. ASSUME NEW t, ShopTxnOK(t)
      PROVE  ShopTxnOK(t)'
    <2>1. t.op # "none" => t.at \in 1 .. now'
        BY <1>1, <1>2, <1>8 DEF ShopTxnOK
    <2>2. \A fields : KindsFit(fields) => KindsFit(fields)'
        BY <1>1, <1>4 DEF KindsFit
    <2> QED BY <1>1, <1>8, <2>1, <2>2 DEF ShopTxnOK
<1>9. ShopTxnsPart'
    <2>1. \A s \in Request : ShopTxnOK(txn[s])
        BY DEF ShopInv, ShopTxnsPart
    <2>2. ASSUME NEW s \in Request
          PROVE  ShopTxnOK(txn[s])' 
        <3>1. PICK t : t = txn'[s]
            OBVIOUS
        <3>2. t = new \/ t = txn[s]
            BY <1>3, <3>1
        <3>3. ShopTxnOK(t)'
            BY <1>8, <2>1, <3>2
        <3> QED BY <3>1, <3>3
    <2> QED BY <1>1, <2>2 DEF ShopInv, ShopTxnsPart
<1>10. \A s \in Request : txn[s].op # "none" => txn[s].at \in 1 .. now
    BY DEF ShopInv, ShopTxnsPart, ShopTxnOK
<1>11. VersionsPart'
    <2>1. ASSUME NEW s \in Request, NEW s2 \in Request, s # s2, txn'[s].op # "none", txn'[s2].op # "none"
          PROVE  txn'[s].at # txn'[s2].at
        BY <1>2, <1>3, <1>10, <2>1 DEF ShopInv, VersionsPart
    <2>2. ASSUME NEW i \in Dated, NEW s \in Request, Exists(i)'
          PROVE  rows'[i].at \in 0 .. now' /\ (txn'[s].op # "none" => rows'[i].at # txn'[s].at)
        <3>1. rows[i].at \in 0 .. now /\ (txn[s].op # "none" => rows[i].at # txn[s].at)
            BY <1>4, <2>2 DEF ShopInv, VersionsPart
        <3> QED BY <1>1, <1>2, <1>3, <3>1
    <2>3. ASSUME NEW s \in Request, copy'[s].id \in Dated
          PROVE  /\ copy'[s].row.at \in 0 .. now'
                 /\ \A s2 \in Request : txn'[s2].op # "none" => copy'[s].row.at # txn'[s2].at
                 /\ Exists(copy[s].id)' /\ copy'[s].row.at = rows'[copy'[s].id].at =>
                       copy'[s].row = rows'[copy'[s].id]
        <3>1. /\ copy[s].row.at \in 0 .. now
              /\ \A s2 \in Request : txn[s2].op # "none" => copy[s].row.at # txn[s2].at
              /\ Exists(copy[s].id) /\ copy[s].row.at = rows[copy[s].id].at =>
                       copy[s].row = rows[copy[s].id]
            BY <1>1, <2>3 DEF ShopInv, VersionsPart
        <3>2. copy'[s].row.at \in 0 .. now'
            BY <1>1, <1>2, <3>1
        <3>3. \A s2 \in Request : txn'[s2].op # "none" => copy'[s].row.at # txn'[s2].at
            BY <1>1, <1>2, <1>3, <3>1
        <3>4. Exists(copy[s].id)' => Exists(copy[s].id)
            BY <1>1 DEF Exists
        <3> QED BY <1>1, <3>1, <3>2, <3>3, <3>4
    <2>4. \A s \in Request : txn'[s].op = "edit" => txn'[s].copy = copy'[s]
        BY <1>1, <1>3 DEF ShopInv, VersionsPart
    <2> QED BY <1>1, <2>1, <2>2, <2>3, <2>4 DEF VersionsPart
<1> QED BY <1>6, <1>7, <1>9, <1>11 DEF ShopInv

(* A step that leaves the rows alone and closes a request.                 *)
LEMMA ShopCloses ==
    ASSUME ShopInv, NEW r \in Request, Close(r),
           UNCHANGED <<rows, history, used>>
    PROVE  ShopInv'
<1>1. /\ now' = now /\ txn' = [txn EXCEPT ![r] = NoTxn]
      /\ copy' = [copy EXCEPT ![r] = NoCopy]
      /\ rows' = rows /\ history' = history /\ used' = used
    BY DEF Close
<1>2. \A s \in Request : txn'[s] = NoTxn \/ txn'[s] = txn[s]
    BY <1>1 DEF ShopInv, ShopTxnsPart
<1>3. \A s \in Request : copy'[s] = NoCopy \/ copy'[s] = copy[s]
    BY <1>1 DEF ShopInv, ShopTxnsPart
<1>4. NoCopy.id \notin Dated /\ NoTxn.op = "none"
    BY IdAssumption DEF NoCopy, NoTxn, Dated, Id
<1>5. RowsPart' /\ ReferencesHold'
    <2>1. Existing' = Existing /\ \A i : Exists(i)' => Exists(i)
        BY <1>1 DEF Existing, Exists
    <2>2. RowsPart'
        BY <1>1, <2>1 DEF ShopInv, RowsPart
    <2> QED BY <1>1, <2>1, <2>2 DEF ShopInv, ReferencesHold, Refers
<1>6. \A t : ShopTxnOK(t) => ShopTxnOK(t)'
    BY <1>1 DEF ShopTxnOK, KindsFit, Exists
<1>7. ShopTxnOK(NoTxn)
    BY DEF ShopTxnOK, NoTxn
<1>8. ShopTxnsPart'
    <2>1. ASSUME NEW s \in Request
          PROVE  ShopTxnOK(txn[s])'
        <3>1. PICK t : t = txn'[s]
            OBVIOUS
        <3>2. ShopTxnOK(t)
            BY <1>2, <1>7, <3>1 DEF ShopInv, ShopTxnsPart
        <3> QED BY <1>6, <3>1, <3>2
    <2> QED BY <1>1, <2>1 DEF ShopInv, ShopTxnsPart
<1>9. VersionsPart'
    <2>1. \A s, s2 \in Request : s # s2 /\ txn'[s].op # "none" /\ txn'[s2].op # "none" =>
              txn'[s].at # txn'[s2].at
        BY <1>2, <1>4 DEF ShopInv, VersionsPart
    <2>2. \A i : Exists(i)' => Exists(i)
        BY <1>1 DEF Exists
    <2>3. \A i \in Dated, s \in Request : Exists(i)' =>
              rows'[i].at \in 0 .. now' /\ (txn'[s].op # "none" => rows'[i].at # txn'[s].at)
        BY <1>1, <1>2, <1>4, <2>2 DEF ShopInv, VersionsPart
    <2>4. ASSUME NEW s \in Request, copy'[s].id \in Dated
          PROVE  /\ copy'[s].row.at \in 0 .. now'
                 /\ \A s2 \in Request : txn'[s2].op # "none" => copy'[s].row.at # txn'[s2].at
                 /\ Exists(copy[s].id)' /\ copy'[s].row.at = rows'[copy'[s].id].at =>
                       copy'[s].row = rows'[copy'[s].id]
        <3>1. copy'[s] = copy[s]
            BY <1>3, <1>4, <2>4
        <3>2. /\ copy[s].row.at \in 0 .. now
              /\ \A s2 \in Request : txn[s2].op # "none" => copy[s].row.at # txn[s2].at
              /\ Exists(copy[s].id) /\ copy[s].row.at = rows[copy[s].id].at =>
                       copy[s].row = rows[copy[s].id]
            BY <2>4, <3>1 DEF ShopInv, VersionsPart
        <3> QED BY <1>1, <1>2, <1>4, <2>2, <3>1, <3>2
    <2>5. \A s \in Request : copy'[s].id \in Dated => copy'[s] = copy[s]
        BY <1>3, <1>4
    <2>6. ASSUME NEW s \in Request, txn'[s].op = "edit"
          PROVE  txn'[s].copy = copy'[s]
        <3>1. s # r /\ txn'[s] = txn[s] /\ copy'[s] = copy[s]
            BY <1>1, <1>4, <2>6 DEF ShopInv, ShopTxnsPart
        <3> QED BY <2>6, <3>1 DEF ShopInv, VersionsPart
    <2> QED BY <2>1, <2>3, <2>4, <2>5, <2>6 DEF VersionsPart
<1> QED BY <1>5, <1>8, <1>9 DEF ShopInv

(* A step that writes a row and closes its request.                        *)
LEMMA ShopWrites ==
    ASSUME ShopInv, NEW r \in Request, txn[r].op # "none", Close(r),
           NEW id, NEW x, WritesRow(id, x, txn[r].at), used' = used,
           history' \in [Product -> Seq(Price \X (Price \cup {NoValue}))]
    PROVE  ShopInv'
<1>1. /\ now' = now /\ txn' = [txn EXCEPT ![r] = NoTxn]
      /\ copy' = [copy EXCEPT ![r] = NoCopy]
    BY DEF Close
<1>2. txn'[r] = NoTxn /\ NoTxn.op = "none"
      /\ \A s \in Request : txn'[s] = NoTxn \/ txn'[s] = txn[s]
    BY <1>1 DEF ShopInv, ShopTxnsPart, NoTxn
<1>3. now \in Nat /\ now' \in 0 .. MaxTime
    BY <1>1, MaxTimeAssumption DEF ShopInv, RowsPart
<1>4. RowsPart'
    BY <1>3, WriteRows DEF ShopInv, RowsPart
<1>5. ReferencesHold'
    BY WriteReferences DEF ShopInv
<1>6. ShopTxnsPart'
    <2>1. ASSUME NEW s \in Request
          PROVE  ShopTxnOK(txn[s])'
        <3>1. PICK t : t = txn'[s]
            OBVIOUS
        <3>2. ShopTxnOK(t)
            <4>1. ShopTxnOK(NoTxn)
                BY DEF ShopTxnOK, NoTxn
            <4> QED BY <1>2, <3>1, <4>1 DEF ShopInv, ShopTxnsPart
        <3>3. now' \in Nat /\ now <= now'
            BY <1>1, <1>3
        <3>4. ShopTxnOK(t)'
            BY <3>2, <3>3, WriteTxn DEF ShopInv
        <3> QED BY <3>1, <3>4
    <2> QED BY <1>1, <2>1 DEF ShopInv, ShopTxnsPart
<1>7. VersionsPart'
    <2>1. txn' = [txn EXCEPT ![r] = txn'[r]]
        BY <1>1, <1>2
    <2>2. txn'[r].op # "edit"
        BY <1>2
    <2> QED BY <1>1, <1>2, <2>1, <2>2, WriteVersions
<1> QED BY <1>4, <1>5, <1>6, <1>7 DEF ShopInv

-----------------------------------------------------------------------------
(* The columns of a product.                                               *)
LEMMA ProductColumns ==
    ASSUME NEW p \in Product
    PROVE  /\ DOMAIN ProductColumn = DOMAIN Columns(p) \ {"at"}
           /\ \A f \in DOMAIN ProductColumn : ProductColumn[f] = Columns(p)[f]
           /\ \A k \in Kind : k \in DOMAIN Columns(p) /\ Columns(p)[k] = Attribute \cup {NoValue}
           /\ {"override", "price"} \subseteq DOMAIN Columns(p)
           /\ Columns(p)["price"] = Price /\ Columns(p)["override"] = Price \cup {NoValue}
<1>1. PICK columns : columns = Columns(p)
    OBVIOUS
<1>2. columns =
        [code |-> Code \cup {NoValue}, price |-> Price, override |-> Price \cup {NoValue},
         category |-> Category \cup {NoValue}, unit |-> Unit \cup {NoValue},
         jenis |-> Attribute \cup {NoValue}, size |-> Attribute \cup {NoValue},
         kualitas |-> Attribute \cup {NoValue}, active |-> BOOLEAN, at |-> Nat]
    BY <1>1, IdAssumption DEF Columns
<1>3. PICK column : column = ProductColumn
    OBVIOUS
<1>4. column =
        [code |-> Code \cup {NoValue}, price |-> Price, override |-> Price \cup {NoValue},
         category |-> Category \cup {NoValue}, unit |-> Unit \cup {NoValue},
         jenis |-> Attribute \cup {NoValue}, size |-> Attribute \cup {NoValue},
         kualitas |-> Attribute \cup {NoValue}, active |-> BOOLEAN]
    BY <1>3 DEF ProductColumn
<1>5. DOMAIN column = DOMAIN columns \ {"at"} /\ \A f \in DOMAIN column : column[f] = columns[f]
    <2>1. DOMAIN column = {"code", "price", "override", "category", "unit", "jenis", "size",
                           "kualitas", "active"}
        BY <1>4
    <2>2. DOMAIN columns = {"code", "price", "override", "category", "unit", "jenis", "size",
                            "kualitas", "active", "at"}
        BY <1>2
    <2>3. \A f \in DOMAIN column : column[f] = columns[f]
        <3>1. /\ column["code"] = columns["code"] /\ column["price"] = columns["price"]
              /\ column["override"] = columns["override"]
            BY <1>2, <1>4
        <3>2. /\ column["category"] = columns["category"] /\ column["unit"] = columns["unit"]
              /\ column["active"] = columns["active"]
            BY <1>2, <1>4
        <3>3. /\ column["jenis"] = columns["jenis"] /\ column["size"] = columns["size"]
              /\ column["kualitas"] = columns["kualitas"]
            BY <1>2, <1>4
        <3> QED BY <2>1, <3>1, <3>2, <3>3
    <2>4. DOMAIN column = DOMAIN columns \ {"at"}
        BY <2>1, <2>2
    <2> QED BY <2>3, <2>4
<1>6. /\ \A k \in Kind : k \in DOMAIN columns /\ columns[k] = Attribute \cup {NoValue}
      /\ {"override", "price"} \subseteq DOMAIN columns
      /\ columns["price"] = Price /\ columns["override"] = Price \cup {NoValue}
    BY <1>2 DEF Kind
<1> QED BY <1>1, <1>3, <1>5, <1>6

(* A row of the client, without an override, is a product to insert.       *)
LEMMA CreatedFits ==
    ASSUME NEW x,
           DOMAIN x = DOMAIN ProductColumn,
           \A f \in DOMAIN x : x[f] \in ProductColumn[f]
    PROVE  /\ \A p \in Product : NewOK(p, Created(x))
           /\ DOMAIN Created(x) = DOMAIN x
           /\ \A f \in DOMAIN x \ {"override"} : Created(x)[f] = x[f]
<1>1. PICK y : y = Created(x)
    OBVIOUS
<1>2. "override" \in DOMAIN x /\ NoValue \in ProductColumn["override"]
    BY DEF ProductColumn
<1>3. y = [f \in DOMAIN x |-> IF f = "override" THEN NoValue ELSE x[f]]
    BY <1>1, <1>2 DEF Created
<1>4. \A f \in DOMAIN x : y[f] \in ProductColumn[f]
    BY <1>2, <1>3
<1>5. \A p \in Product : NewOK(p, y)
    BY <1>3, <1>4, ProductColumns DEF NewOK
<1> QED BY <1>1, <1>3, <1>5

LEMMA ImportedFits ==
    ASSUME NEW p \in Product, NEW x,
           DOMAIN x = DOMAIN ProductColumn,
           \A f \in DOMAIN x : x[f] \in ProductColumn[f]
    PROVE  /\ NewOK(p, Imported(x))
           /\ \A k \in Kind : Imported(x)[k] = NoValue
<1>1. PICK y : y = Imported(x)
    OBVIOUS
<1>2. {"override", "jenis", "size", "kualitas"} \subseteq DOMAIN x
      /\ \A f \in {"override", "jenis", "size", "kualitas"} : NoValue \in ProductColumn[f]
    BY DEF ProductColumn
<1>3. y = [f \in DOMAIN x |->
             IF f \in {"override", "jenis", "size", "kualitas"} THEN NoValue ELSE x[f]]
    BY <1>1, <1>2 DEF Created, Imported
<1>4. \A f \in DOMAIN x : y[f] \in ProductColumn[f]
    BY <1>2, <1>3
<1>5. NewOK(p, y)
    BY <1>3, <1>4, ProductColumns DEF NewOK
<1>6. \A k \in Kind : y[k] = NoValue
    BY <1>2, <1>3 DEF Kind
<1> QED BY <1>1, <1>5, <1>6

-----------------------------------------------------------------------------
(* The commits.                                                            *)
LEMMA HistoryKept ==
    ASSUME ShopInv, history' = history
    PROVE  history' \in [Product -> Seq(Price \X (Price \cup {NoValue}))]
BY DEF ShopInv, RowsPart

LEMMA ShopCommitCreate ==
    ASSUME ShopInv, NEW r \in Request, CommitCreate(r)
    PROVE  ShopInv'
<1>1. PICK t : t = txn[r]
    OBVIOUS
<1>2. /\ t.op = "create" /\ Fresh(t.table) # {}
      /\ Refers(t.fields) \subseteq Existing
    BY <1>1 DEF CommitCreate
<1>3. PICK id : id = (CHOOSE fresh \in Fresh(t.table) : TRUE)
    OBVIOUS
<1>4. id \in t.table /\ rows[id] = Unused
    BY <1>2, <1>3 DEF Fresh
<1>5. PICK x : x = Stored(id, t.fields, t.at)
    OBVIOUS
<1>6. rows' = [rows EXCEPT ![id] = x] /\ Close(r) /\ history' = history /\ used' = used
    BY <1>1, <1>3, <1>5 DEF CommitCreate
<1>7. /\ id \in Id /\ NewOK(id, t.fields) /\ KindsFit(t.fields) /\ t.at \in 1 .. now
    BY <1>1, <1>2, <1>4 DEF ShopInv, ShopTxnsPart, ShopTxnOK
<1>8. t.at \in Nat
    BY <1>7 DEF ShopInv, RowsPart
<1>9. /\ Shaped(x, Columns(id))
      /\ id \in Tagged => x.at = t.at
      /\ \A f \in DOMAIN Columns(id) \ {"at"} : x[f] = t.fields[f]
    BY <1>5, <1>7, <1>8, StoredShape
<1>10. DOMAIN x \ {"at"} = DOMAIN t.fields /\ "at" \notin DOMAIN t.fields
    BY <1>7, <1>9 DEF Shaped, NewOK
<1>11. Refers(x) \subseteq Existing
    <2>1. Refers(x) \subseteq Refers(t.fields)
        BY <1>9, <1>10 DEF Refers, Shaped
    <2> QED BY <1>2, <2>1
<1>12. KindsFit(x)
    BY <1>7, <1>9, <1>10 DEF KindsFit, Kind, Shaped
<1>13. WritesRow(id, x, t.at)
    <2>1. x # Deleted
        BY <1>7, <1>9, ShapedExists
    <2>2. rows[id] # Deleted /\ ~Exists(id)
        BY <1>4, IdAssumption DEF Exists
    <2>3. id \in Dated => x.at = t.at
        BY <1>9 DEF Dated, Tagged
    <2> QED BY <1>6, <1>7, <1>9, <1>11, <1>12, <2>1, <2>2, <2>3 DEF WritesRow
<1> QED BY <1>1, <1>2, <1>6, <1>13, HistoryKept, ShopWrites

LEMMA ShopCommitDeactivate ==
    ASSUME ShopInv, NEW r \in Request, CommitDeactivate(r)
    PROVE  ShopInv'
<1>1. PICK t : t = txn[r]
    OBVIOUS
<1>2. PICK id : id = t.id
    OBVIOUS
<1>3. PICK y : y = rows[id]
    OBVIOUS
<1>4. PICK z : z = [y EXCEPT !.active = FALSE]
    OBVIOUS
<1>5. PICK x : x = Touched(id, z, t.at)
    OBVIOUS
<1>6. t.op = "deactivate" /\ Exists(id) /\ rows' = [rows EXCEPT ![id] = x] /\ Close(r)
      /\ history' = history /\ used' = used
    BY <1>1, <1>2, <1>3, <1>4, <1>5 DEF CommitDeactivate
<1>7. id \in Id /\ t.at \in Nat
    BY <1>1, <1>2, <1>6 DEF ShopInv, ShopTxnsPart, ShopTxnOK, RowsPart
<1>8. id \in Existing
    BY <1>6, <1>7 DEF Existing
<1>9. PICK columns : columns = Columns(id)
    OBVIOUS
<1>10. Shaped(y, columns) /\ Refers(y) \subseteq Existing
    BY <1>3, <1>8, <1>9 DEF ShopInv, RowsPart, ReferencesHold
<1>11. DOMAIN y = DOMAIN columns
    BY <1>10 DEF Shaped
<1>12. "active" \in DOMAIN columns /\ columns["active"] = BOOLEAN
    BY <1>7, <1>9, IdAssumption DEF Id, Columns
<1>13. z = [f \in DOMAIN columns |-> IF f = "active" THEN FALSE ELSE y[f]]
    BY <1>4, <1>10, <1>11, <1>12
<1>14. id \in Dated => "at" \in DOMAIN columns /\ columns["at"] = Nat
    BY <1>7, <1>9, TaggedColumn DEF Dated, Tagged
<1>15. x = [f \in DOMAIN columns |->
               IF f = "active" THEN FALSE
               ELSE IF f = "at" /\ id \in Dated THEN t.at ELSE y[f]]
    <2>1. CASE id \in Dated
        <3>1. x = [z EXCEPT !.at = t.at]
            BY <1>5, <2>1 DEF Touched, Dated
        <3> QED BY <1>13, <1>14, <2>1, <3>1
    <2>2. CASE id \notin Dated
        <3>1. x = z
            BY <1>5, <2>2 DEF Touched, Dated
        <3> QED BY <1>13, <2>2, <3>1
    <2> QED BY <2>1, <2>2
<1>16. Shaped(x, columns)
    BY <1>7, <1>10, <1>12, <1>14, <1>15 DEF Shaped
<1>17. /\ DOMAIN x = DOMAIN y
       /\ \A f \in DOMAIN columns \ {"active", "at"} : x[f] = y[f]
    BY <1>11, <1>15
<1>18. Refers(x) \subseteq Existing
    <2>1. Refers(x) \subseteq Refers(y)
        BY <1>11, <1>17 DEF Refers
    <2> QED BY <1>10, <2>1
<1>19. id \in Product => KindsFit(x)
    <2> SUFFICES ASSUME id \in Product, NEW k \in Kind, x[k] # NoValue
                 PROVE  x[k] \in Attribute /\ Exists(x[k]) /\ rows[x[k]].kind = k
        BY DEF KindsFit
    <2>1. PICK a : a = y[k]
        OBVIOUS
    <2>2. k \in DOMAIN columns /\ columns[k] = Attribute \cup {NoValue}
        BY <1>9, ProductColumns
    <2>3. x[k] = a /\ a \in Attribute /\ a # NoValue
        BY <1>10, <1>17, <2>1, <2>2 DEF Shaped, Kind
    <2>4. a \in Refers(y)
        BY <1>11, <2>1, <2>2, <2>3 DEF Refers, Kind
    <2>5. Exists(a)
        BY <1>10, <2>4 DEF Existing
    <2>6. rows[a].kind = k
        BY <1>3, <1>6, <2>1, <2>3 DEF ShopInv, ReferencesHold
    <2> QED BY <2>3, <2>5, <2>6
<1>20. id \in Attribute => x.kind = rows[id].kind
    <2>1. id \in Attribute => "kind" \in DOMAIN columns
        BY <1>9, IdAssumption DEF Columns
    <2> QED BY <1>3, <1>17, <2>1
<1>21. id \in Dated => x.at = t.at
    BY <1>14, <1>15
<1>22. WritesRow(id, x, t.at)
    <2>1. x # Deleted
        BY <1>7, <1>9, <1>16, ShapedExists
    <2> QED BY <1>6, <1>7, <1>9, <1>16, <1>18, <1>19, <1>20, <1>21, <2>1 DEF WritesRow, Exists
<1> QED BY <1>1, <1>6, <1>22, HistoryKept, ShopWrites

LEMMA ShopCommitDelete ==
    ASSUME ShopInv, NEW r \in Request, CommitDelete(r)
    PROVE  ShopInv'
<1>1. PICK t : t = txn[r]
    OBVIOUS
<1>2. PICK id : id = t.id
    OBVIOUS
<1>3. t.op = "delete" /\ Exists(id) /\ ~Held(id) /\ rows' = [rows EXCEPT ![id] = Deleted]
      /\ Close(r) /\ history' = history /\ used' = used
    BY <1>1, <1>2 DEF CommitDelete
<1>4. id \in Id
    BY <1>1, <1>2, <1>3 DEF ShopInv, ShopTxnsPart, ShopTxnOK
<1>5. WritesRow(id, Deleted, t.at)
    BY <1>3, <1>4 DEF WritesRow, Exists
<1> QED BY <1>1, <1>3, <1>5, HistoryKept, ShopWrites

(* What an edit leaves in the row of "id".                                 *)
LEMMA EditedRow ==
    ASSUME ShopInv, NEW t, ShopTxnOK(t), t.op = "edit", Exists(t.id)
    PROVE  LET x == Stored(t.id, Patched(rows[t.id], t.fields), t.at) IN
           /\ Shaped(x, Columns(t.id))
           /\ \A f \in DOMAIN Columns(t.id) \ {"at"} :
                x[f] = IF f \in DOMAIN t.fields THEN t.fields[f] ELSE rows[t.id][f]
           /\ t.id \in Tagged => x.at = t.at
<1>1. PICK id : id = t.id
    OBVIOUS
<1>2. PICK fields : fields = t.fields
    OBVIOUS
<1>3. PICK columns : columns = Columns(id)
    OBVIOUS
<1>4. PICK y : y = rows[id]
    OBVIOUS
<1>5. PICK z : z = Patched(y, fields)
    OBVIOUS
<1>6. PICK x : x = Stored(id, z, t.at)
    OBVIOUS
<1>7. id \in Id /\ id \in Existing /\ t.at \in Nat
    BY <1>1 DEF ShopTxnOK, Existing, ShopInv, RowsPart
<1>8. Shaped(y, columns)
    BY <1>3, <1>4, <1>7 DEF ShopInv, RowsPart
<1>9. PatchOK(id, fields)
    BY <1>1, <1>2 DEF ShopTxnOK
<1>10. DOMAIN fields \subseteq DOMAIN columns \ {"at"} /\ \A f \in DOMAIN fields : fields[f] \in columns[f]
    BY <1>3, <1>9 DEF PatchOK
<1>11. Shaped(z, columns) /\ \A f \in DOMAIN columns : z[f] = IF f \in DOMAIN fields THEN fields[f] ELSE y[f]
    BY <1>5, <1>8, <1>10, PatchedShape
<1>12. /\ Shaped(x, columns)
       /\ \A f \in DOMAIN columns \ {"at"} : x[f] = z[f]
       /\ id \in Tagged => x.at = t.at
    BY <1>3, <1>6, <1>7, <1>11, StoredShape
<1>13. \A f \in DOMAIN columns \ {"at"} : x[f] = IF f \in DOMAIN fields THEN fields[f] ELSE y[f]
    BY <1>11, <1>12
<1>14. x = Stored(t.id, Patched(rows[t.id], t.fields), t.at)
    BY <1>1, <1>2, <1>4, <1>5, <1>6
<1> QED BY <1>1, <1>2, <1>3, <1>4, <1>12, <1>13, <1>14

LEMMA ShopCommitEdit ==
    ASSUME ShopInv, NEW r \in Request, CommitEdit(r)
    PROVE  ShopInv'
<1>1. PICK t : t = txn[r]
    OBVIOUS
<1>2. PICK id : id = t.id
    OBVIOUS
<1>3. PICK x : x = Stored(t.id, Patched(rows[t.id], t.fields), t.at)
    OBVIOUS
<1>4. /\ t.op = "edit" /\ Exists(id) /\ Refers(x) \subseteq Existing
      /\ rows' = [rows EXCEPT ![id] = x] /\ Close(r) /\ used' = used
    BY <1>1, <1>2, <1>3 DEF CommitEdit
<1>5. ShopTxnOK(t)
    BY <1>1 DEF ShopInv, ShopTxnsPart
<1>6. PICK fields : fields = t.fields
    OBVIOUS
<1>7. PICK y : y = rows[id]
    OBVIOUS
<1>8. PICK columns : columns = Columns(id)
    OBVIOUS
<1>9. /\ Shaped(x, columns)
      /\ \A f \in DOMAIN columns \ {"at"} : x[f] = IF f \in DOMAIN fields THEN fields[f] ELSE y[f]
      /\ id \in Tagged => x.at = t.at
    BY <1>2, <1>3, <1>4, <1>5, <1>6, <1>7, <1>8, EditedRow
<1>10. id \in Id /\ id \in Existing
    BY <1>2, <1>4, <1>5 DEF ShopTxnOK, Existing
<1>11. Shaped(y, columns) /\ Refers(y) \subseteq Existing
    BY <1>7, <1>8, <1>10 DEF ShopInv, RowsPart, ReferencesHold
<1>12. id \in Product => KindsFit(x)
    <2> SUFFICES ASSUME id \in Product, NEW k \in Kind, x[k] # NoValue
                 PROVE  x[k] \in Attribute
                        /\ (rows[x[k]] = Deleted \/ (Exists(x[k]) /\ rows[x[k]].kind = k))
        BY DEF KindsFit
    <2>1. PICK a : a = x[k]
        OBVIOUS
    <2>2. k \in DOMAIN columns /\ columns[k] = Attribute \cup {NoValue} /\ k # "at"
        BY <1>8, ProductColumns DEF Kind
    <2>3. CASE k \in DOMAIN fields
        <3>1. a = fields[k]
            BY <1>9, <2>1, <2>2, <2>3
        <3>2. KindsFit(fields)
            BY <1>4, <1>5, <1>6 DEF ShopTxnOK
        <3> QED BY <2>1, <2>3, <3>1, <3>2 DEF KindsFit
    <2>4. CASE k \notin DOMAIN fields
        <3>1. a = y[k] /\ a \in Attribute
            BY <1>9, <1>11, <2>1, <2>2, <2>4 DEF Shaped
        <3>2. a \in Refers(y)
            BY <1>11, <2>1, <2>2, <3>1 DEF Refers, Kind, Shaped
        <3>3. Exists(a)
            BY <1>11, <3>2 DEF Existing
        <3>4. rows[a].kind = k
            BY <1>4, <1>7, <2>1, <3>1 DEF ShopInv, ReferencesHold
        <3> QED BY <2>1, <3>1, <3>3, <3>4
    <2> QED BY <2>3, <2>4
<1>13. id \in Attribute => x.kind = rows[id].kind
    <2>1. id \in Attribute => "kind" \in DOMAIN columns \ {"at"}
        BY <1>8, IdAssumption DEF Columns
    <2>2. id \in Attribute => "kind" \notin DOMAIN fields
        BY <1>2, <1>4, <1>5, <1>6 DEF ShopTxnOK
    <2> QED BY <1>7, <1>9, <2>1, <2>2
<1>14. id \in Dated => x.at = t.at
    BY <1>9 DEF Dated, Tagged
<1>15. WritesRow(id, x, t.at)
    <2>1. x # Deleted
        BY <1>8, <1>9, <1>10, ShapedExists
    <2> QED BY <1>4, <1>8, <1>9, <1>10, <1>12, <1>13, <1>14, <2>1 DEF WritesRow, Exists
<1>16. history' \in [Product -> Seq(Price \X (Price \cup {NoValue}))]
    <2>1. PICK changed : changed = PriceChanges(t.fields, t.seen)
        OBVIOUS
    <2>2. CASE ~(id \in Product /\ PriceChanges(t.fields, t.seen))
        BY <1>1, <1>2, <2>2, HistoryKept DEF CommitEdit
    <2>3. CASE id \in Product /\ PriceChanges(t.fields, t.seen)
        <3>1. history' = [history EXCEPT ![id] = Append(history[id], Prices(x))]
            BY <1>1, <1>2, <1>3, <2>3 DEF CommitEdit
        <3>2. Prices(x) \in Price \X (Price \cup {NoValue})
            BY <1>8, <1>9, <2>3, ProductColumns DEF Prices, Shaped
        <3>3. history \in [Product -> Seq(Price \X (Price \cup {NoValue}))]
            BY DEF ShopInv, RowsPart
        <3>4. Append(history[id], Prices(x)) \in Seq(Price \X (Price \cup {NoValue}))
            BY <2>3, <3>2, <3>3, AppendProperties
        <3> QED BY <2>3, <3>1, <3>3, <3>4
    <2> QED BY <2>2, <2>3
<1> QED BY <1>1, <1>4, <1>15, <1>16, ShopWrites

LEMMA ShopRollback ==
    ASSUME ShopInv, NEW r \in Request, Rollback(r) \/ EndImport(r)
    PROVE  ShopInv'
BY ShopCloses DEF Rollback, EndImport

-----------------------------------------------------------------------------
(* The rows of an import.                                                  *)
(* A step within an import that leaves the rows alone.                     *)
LEMMA ShopReports ==
    ASSUME ShopInv, NEW r \in Request, NEW next, ShopTxnOK(next),
           next.op = txn[r].op, next.op = "import", next.at = txn[r].at,
           txn' = [txn EXCEPT ![r] = next],
           rows' = rows, history' = history, used' = used, copy' = copy, now' = now
    PROVE  ShopInv'
<1>1. \A s \in Request : txn'[s] = IF s = r THEN next ELSE txn[s]
    BY DEF ShopInv, ShopTxnsPart
<1>2. Existing' = Existing /\ \A i : Exists(i)' <=> Exists(i)
    BY DEF Existing, Exists
<1>3. RowsPart'
    BY <1>2 DEF ShopInv, RowsPart
<1>4. ReferencesHold'
    BY <1>2 DEF ShopInv, ReferencesHold, Refers
<1>5. ShopTxnsPart'
    <2>1. \A x : ShopTxnOK(x) => ShopTxnOK(x)'
        BY DEF ShopTxnOK, KindsFit, Exists
    <2>2. ASSUME NEW s \in Request
          PROVE  ShopTxnOK(txn[s])'
        <3>1. PICK x : x = txn'[s]
            OBVIOUS
        <3>2. ShopTxnOK(x)
            BY <1>1, <3>1 DEF ShopInv, ShopTxnsPart
        <3> QED BY <2>1, <3>1, <3>2
    <2> QED BY <2>2 DEF ShopInv, ShopTxnsPart
<1>6. \A s \in Request : txn'[s].op = txn[s].op /\ txn'[s].at = txn[s].at
    BY <1>1
<1>7. VersionsPart'
    <2>1. /\ \A s, s2 \in Request : s # s2 /\ txn'[s].op # "none" /\ txn'[s2].op # "none" =>
                txn'[s].at # txn'[s2].at
          /\ \A i \in Dated, s \in Request : Exists(i)' =>
                rows'[i].at \in 0 .. now' /\ (txn'[s].op # "none" => rows'[i].at # txn'[s].at)
        BY <1>2, <1>6 DEF ShopInv, VersionsPart
    <2>2. ASSUME NEW s \in Request, copy'[s].id \in Dated
          PROVE  /\ copy'[s].row.at \in 0 .. now'
                 /\ \A s2 \in Request : txn'[s2].op # "none" => copy'[s].row.at # txn'[s2].at
                 /\ Exists(copy[s].id)' /\ copy'[s].row.at = rows'[copy'[s].id].at =>
                       copy'[s].row = rows'[copy'[s].id]
        BY <1>2, <1>6, <2>2 DEF ShopInv, VersionsPart
    <2>3. \A s \in Request : txn'[s].op = "edit" => txn'[s].copy = copy'[s]
        BY <1>1 DEF ShopInv, VersionsPart
    <2> QED BY <2>1, <2>2, <2>3 DEF VersionsPart
<1> QED BY <1>3, <1>4, <1>5, <1>7 DEF ShopInv

LEMMA ShopImportCheck ==
    ASSUME ShopInv, NEW r \in Request, ImportCheck(r)
    PROVE  ShopInv'
<1>1. PICK t : t = txn[r]
    OBVIOUS
<1>2. /\ t.op = "import" /\ t.i <= Len(t.file)
      /\ rows' = rows /\ history' = history /\ used' = used /\ copy' = copy /\ now' = now
    BY <1>1 DEF ImportCheck
<1>3. ShopTxnOK(t)
    BY <1>1 DEF ShopInv, ShopTxnsPart
<1>4. t.file \in File /\ t.i \in Nat \ {0} /\ t.i \in DOMAIN t.file
    BY <1>2, <1>3, ClientAssumption DEF ShopTxnOK
<1>5. PICK next : next = txn'[r]
    OBVIOUS
<1>6. /\ txn' = [txn EXCEPT ![r] = next] /\ DOMAIN next = ImportFields
      /\ next.op = "import" /\ next.at = t.at /\ next.file = t.file
      /\ \/ next.checked = TRUE /\ next.i = t.i
         \/ next.checked = FALSE /\ next.i = t.i + 1
    <2>1. DOMAIN t = ImportFields
        BY <1>2, <1>3 DEF ShopTxnOK
    <2>2. CASE txn' = [txn EXCEPT ![r].checked = TRUE]
        <3>1. next = [t EXCEPT !.checked = TRUE] /\ txn' = [txn EXCEPT ![r] = next]
            BY <1>1, <1>5, <2>2 DEF ShopInv, ShopTxnsPart
        <3>2. next = [f \in ImportFields |-> IF f = "checked" THEN TRUE ELSE t[f]]
            BY <2>1, <3>1
        <3> QED BY <1>2, <3>1, <3>2 DEF ImportFields
    <2>3. CASE Report(r, NoValue, t.aborted)
        <3>1. next = [t EXCEPT !.result = Append(@, NoValue), !.i = @ + 1, !.checked = FALSE,
                               !.aborted = t.aborted]
              /\ txn' = [txn EXCEPT ![r] = next]
            BY <1>1, <1>5, <2>3 DEF ShopInv, ShopTxnsPart, Report
        <3>2. DOMAIN next = ImportFields
            BY <2>1, <3>1
        <3>3. next.checked = FALSE /\ next.i = t.i + 1
            BY <2>1, <3>1 DEF ImportFields
        <3>4. next.op = t.op /\ next.at = t.at /\ next.file = t.file
            BY <2>1, <3>1 DEF ImportFields
        <3> QED BY <1>2, <3>1, <3>2, <3>3, <3>4
    <2> QED BY <1>1, <2>2, <2>3 DEF ImportCheck
<1>7. ShopTxnOK(next)
    <2>1. next.at \in 1 .. now
        BY <1>2, <1>3, <1>6 DEF ShopTxnOK
    <2>2. next.file \in File
        BY <1>4, <1>6, Zenon
    <2>3. next.i \in Nat \ {0}
        BY <1>4, <1>6
    <2>6. next.checked \in BOOLEAN
        BY <1>6
    <2>4. next.checked = TRUE => next.i = t.i
        BY <1>6
    <2>5. next.checked = TRUE => next.i \in DOMAIN next.file
        BY <1>4, <1>6, <2>4, Zenon
    <2> QED BY <1>6, <2>1, <2>2, <2>3, <2>5, <2>6 DEF ShopTxnOK
<1> QED BY <1>1, <1>2, <1>6, <1>7, ShopReports

LEMMA ShopImportInsert ==
    ASSUME ShopInv, NEW r \in Request, ImportInsert(r)
    PROVE  ShopInv'
<1>1. PICK t : t = txn[r]
    OBVIOUS
<1>2. /\ t.op = "import" /\ t.checked /\ Fresh(Product) # {}
      /\ history' = history /\ used' = used /\ copy' = copy
    BY <1>1 DEF ImportInsert
<1>3. ShopTxnOK(t) /\ DOMAIN t = ImportFields
    BY <1>1, <1>2 DEF ShopInv, ShopTxnsPart, ShopTxnOK
<1>4. t.file \in File /\ t.i \in Nat \ {0} /\ t.i \in DOMAIN t.file /\ t.at \in 1 .. now
    <2>1. t.checked \in BOOLEAN /\ (t.checked = TRUE => t.i \in DOMAIN t.file)
        BY <1>2, <1>3 DEF ShopTxnOK
    <2> QED BY <1>2, <1>3, <2>1 DEF ShopTxnOK
<1>5. PICK p : p = (CHOOSE fresh \in Fresh(Product) : TRUE)
    OBVIOUS
<1>6. p \in Product /\ rows[p] = Unused
    BY <1>2, <1>5 DEF Fresh
<1>7. PICK y : y = Imported(t.file[t.i])
    OBVIOUS
<1>8. PICK next : next = txn'[r]
    OBVIOUS
<1>9. CASE /\ Refers(y) \subseteq Existing
           /\ now < MaxTime /\ now' = now + 1
           /\ rows' = [rows EXCEPT ![p] = Stored(p, y, t.at)]
           /\ txn' = [txn EXCEPT ![r].result = Append(@, p), ![r].i = @ + 1,
                                 ![r].checked = FALSE, ![r].at = now + 1]
    <2>1. PICK x : x = Stored(p, y, t.at)
        OBVIOUS
    <2>2. now \in Nat /\ t.at \in Nat /\ now' \in 0 .. MaxTime /\ now <= now'
        BY <1>4, <1>9, MaxTimeAssumption DEF ShopInv, RowsPart
    <2>3. NewOK(p, y) /\ \A k \in Kind : y[k] = NoValue
        <3>1. PICK z : z = t.file[t.i]
            OBVIOUS
        <3>2. DOMAIN z = DOMAIN ProductColumn /\ \A f \in DOMAIN z : z[f] \in ProductColumn[f]
            BY <1>4, <3>1, ClientAssumption
        <3> QED BY <1>6, <1>7, <3>1, <3>2, ImportedFits
    <2>4. p \in Id
        BY <1>6 DEF Id
    <2>5. /\ Shaped(x, Columns(p))
          /\ \A f \in DOMAIN Columns(p) \ {"at"} : x[f] = y[f]
          /\ p \in Tagged => x.at = t.at
        BY <2>1, <2>2, <2>3, <2>4, StoredShape
    <2>6. DOMAIN x \ {"at"} = DOMAIN y /\ "at" \notin DOMAIN y
        BY <2>3, <2>5 DEF Shaped, NewOK
    <2>7. WritesRow(p, x, t.at)
        <3>1. x # Deleted
            BY <2>4, <2>5, ShapedExists
        <3>2. rows[p] # Deleted /\ ~Exists(p)
            BY <1>6, IdAssumption DEF Exists
        <3>3. x.at = t.at
            BY <1>6, <2>5 DEF Tagged
        <3>4. Refers(x) \subseteq Existing
            <4>1. Refers(x) \subseteq Refers(y)
                BY <2>5, <2>6 DEF Refers, Shaped
            <4> QED BY <1>9, <4>1
        <3>5. KindsFit(x)
            <4>1. \A k \in Kind : x[k] = NoValue
                BY <1>6, <2>3, <2>5, ProductColumns DEF Kind
            <4> QED BY <4>1 DEF KindsFit
        <3> QED BY <1>9, <2>1, <2>4, <2>5, <3>1, <3>2, <3>3, <3>4, <3>5 DEF WritesRow
    <2>8. next = [t EXCEPT !.result = Append(@, p), !.i = @ + 1, !.checked = FALSE, !.at = now + 1]
          /\ txn' = [txn EXCEPT ![r] = next]
        BY <1>1, <1>8, <1>9 DEF ShopInv, ShopTxnsPart
    <2>9. DOMAIN next = ImportFields
        BY <1>3, <2>8
    <2>10. next.checked = FALSE /\ next.i = t.i + 1 /\ next.at = now + 1
        BY <1>3, <2>8 DEF ImportFields
    <2>11. next.op = t.op /\ next.file = t.file
        BY <1>3, <2>8 DEF ImportFields
    <2>12. ShopTxnOK(next)'
        <3>1. next.op = "import" /\ next.at \in 1 .. now'
            BY <1>2, <1>9, <2>2, <2>10, <2>11
        <3>2. next.file \in File /\ next.i \in Nat \ {0} /\ next.checked = FALSE
            BY <1>4, <2>10, <2>11
        <3> QED BY <2>9, <3>1, <3>2 DEF ShopTxnOK
    <2>13. RowsPart'
        BY <1>2, <2>2, <2>7, WriteRows DEF ShopInv, RowsPart
    <2>14. ReferencesHold'
        BY <1>2, <2>7, WriteReferences DEF ShopInv
    <2>15. ShopTxnsPart'
        <3>1. ASSUME NEW s \in Request
              PROVE  ShopTxnOK(txn[s])'
            <4>1. CASE s = r
                BY <1>8, <2>12, <4>1
            <4>2. CASE s # r
                <5>1. PICK u : u = txn[s]
                    OBVIOUS
                <5>2. txn'[s] = u
                    BY <2>8, <4>2, <5>1 DEF ShopInv, ShopTxnsPart
                <5>3. ShopTxnOK(u) /\ now' \in Nat
                    BY <2>2, <5>1 DEF ShopInv, ShopTxnsPart
                <5>4. ShopTxnOK(u)'
                    BY <2>2, <2>7, <5>3, WriteTxn DEF ShopInv
                <5> QED BY <5>2, <5>4
            <4> QED BY <4>1, <4>2
        <3> QED BY <1>2, <2>8, <3>1 DEF ShopInv, ShopTxnsPart
    <2>16. VersionsPart'
        <3>1. txn[r].op # "none" /\ WritesRow(p, x, txn[r].at)
            BY <1>1, <1>2, <2>7
        <3>2. txn' = [txn EXCEPT ![r] = txn'[r]] /\ txn'[r].at = now + 1
            BY <1>8, <2>8, <2>10
        <3>3. txn'[r].op # "edit"
            BY <1>2, <1>8, <2>11
        <3> QED BY <1>2, <1>9, <3>1, <3>2, <3>3, WriteVersions
    <2> QED BY <2>13, <2>14, <2>15, <2>16 DEF ShopInv
<1>10. CASE Report(r, NoValue, TRUE) /\ UNCHANGED <<rows, now>>
    <2>1. rows' = rows /\ now' = now
        BY <1>10
    <2>2. next = [t EXCEPT !.result = Append(@, NoValue), !.i = @ + 1, !.checked = FALSE,
                           !.aborted = TRUE]
          /\ txn' = [txn EXCEPT ![r] = next]
        BY <1>1, <1>8, <1>10 DEF ShopInv, ShopTxnsPart, Report
    <2>3. DOMAIN next = ImportFields
        BY <1>3, <2>2
    <2>4. next.checked = FALSE /\ next.i = t.i + 1
        BY <1>3, <2>2 DEF ImportFields
    <2>5. next.op = t.op /\ next.file = t.file /\ next.at = t.at
        BY <1>3, <2>2 DEF ImportFields
    <2>6. ShopTxnOK(next)
        <3>1. next.op = "import" /\ next.at \in 1 .. now
            BY <1>2, <1>4, <2>5
        <3>2. next.file \in File /\ next.i \in Nat \ {0} /\ next.checked = FALSE
            BY <1>4, <2>4, <2>5
        <3> QED BY <2>3, <3>1, <3>2 DEF ShopTxnOK
    <2> QED BY <1>1, <1>2, <2>1, <2>2, <2>5, <2>6, ShopReports
<1>11. \/ /\ Refers(y) \subseteq Existing
          /\ now < MaxTime /\ now' = now + 1
          /\ rows' = [rows EXCEPT ![p] = Stored(p, y, t.at)]
          /\ txn' = [txn EXCEPT ![r].result = Append(@, p), ![r].i = @ + 1,
                                ![r].checked = FALSE, ![r].at = now + 1]
       \/ Report(r, NoValue, TRUE) /\ UNCHANGED <<rows, now>>
    BY <1>1, <1>5, <1>7 DEF ImportInsert
<1> QED BY <1>9, <1>10, <1>11

-----------------------------------------------------------------------------
(* Requests that begin.                                                    *)
LEMMA ShopBegins ==
    ASSUME ShopInv, NEW r \in Request, NEW op \in {"edit", "deactivate", "delete"},
           NEW id \in Id, NEW fields, Exists(id), Begin(r, op, id, fields),
           op = "edit" =>
               /\ PatchOK(id, fields) /\ KindsFit(fields)
               /\ id \in Attribute => "kind" \notin DOMAIN fields
               /\ id \in Dated => TagMatches(r, id)
    PROVE  ShopInv'
<1>1. PICK new : new = [op |-> op, at |-> now + 1, id |-> id, fields |-> fields,
                        seen |-> rows[id], copy |-> copy[r]]
    OBVIOUS
<1>2. Open(r, new)
    BY <1>1 DEF Begin
<1>3. /\ new.op = op /\ new.at = now + 1 /\ new.id = id /\ new.fields = fields
      /\ new.seen = rows[id] /\ new.copy = copy[r]
    BY <1>1
<1>4. now \in Nat /\ now' = now + 1 /\ rows' = rows
    BY <1>2 DEF ShopInv, RowsPart, Open
<1>5. rows[id] # Unused /\ rows[id] \in Table(id)
    <2>1. id \in Existing
        BY DEF Existing
    <2> QED BY <2>1, TableShape DEF ShopInv, RowsPart, Exists
<1>6. op = "edit" /\ id \in Dated /\ copy[r].id = id => copy[r].row = rows[id]
    <2>1. NoCopy.id # id
        BY IdAssumption DEF NoCopy
    <2> QED BY <2>1 DEF TagMatches, AnyTag, ShopInv, VersionsPart
<1>7. KindsFit(fields) => KindsFit(fields)'
    BY <1>4 DEF KindsFit, Exists
<1>8. ShopTxnOK(new)'
    <2>1. new.at \in 1 .. now'
        BY <1>3, <1>4
    <2>2. new.op # "create" /\ new.op # "import"
        BY <1>3
    <2>3. new.id \in Id /\ rows'[new.id] # Unused /\ new.seen \in Table(new.id)
        BY <1>3, <1>4, <1>5
    <2>4. new.op = "edit" =>
              /\ PatchOK(new.id, new.fields) /\ KindsFit(new.fields)'
              /\ new.id \in Attribute => "kind" \notin DOMAIN new.fields
              /\ new.id \in Dated /\ new.copy.id = new.id => new.copy.row = new.seen
        BY <1>3, <1>6, <1>7
    <2> QED BY <2>1, <2>2, <2>3, <2>4 DEF ShopTxnOK
<1> QED BY <1>2, <1>3, <1>8, ShopOpens

LEMMA ShopCreates ==
    ASSUME ShopInv, NEW r \in Request, NEW table, table \subseteq Id, NEW fields,
           \A id \in table : NewOK(id, fields), KindsFit(fields),
           BeginCreate(r, table, fields)
    PROVE  ShopInv'
<1>1. PICK new : new = [op |-> "create", at |-> now + 1, table |-> table, fields |-> fields]
    OBVIOUS
<1>2. Open(r, new)
    BY <1>1 DEF BeginCreate
<1>3. new.op = "create" /\ new.at = now + 1 /\ new.table = table /\ new.fields = fields
    BY <1>1
<1>4. now \in Nat /\ now' = now + 1 /\ rows' = rows
    BY <1>2 DEF ShopInv, RowsPart, Open
<1>5. KindsFit(fields)'
    BY <1>4 DEF KindsFit, Exists
<1>6. ShopTxnOK(new)'
    <2>1. new.at \in 1 .. now'
        BY <1>3, <1>4
    <2> QED BY <1>3, <1>5, <2>1 DEF ShopTxnOK
<1> QED BY <1>2, <1>3, <1>6, ShopOpens

(* Fields without an attribute column name no attribute.                   *)
LEMMA NoKinds ==
    ASSUME NEW fields, DOMAIN fields \cap Kind = {}
    PROVE  KindsFit(fields)
BY DEF KindsFit

(* What a check of the attributes of a product promises.                   *)
LEMMA KindsChecked ==
    ASSUME NEW fields, AttributesFit(fields),
           \A k \in Kind \cap DOMAIN fields : fields[k] \in ProductColumn[k]
    PROVE  KindsFit(fields)
<1>1. \A k \in Kind : ProductColumn[k] = Attribute \cup {NoValue}
    BY DEF Kind, ProductColumn
<1> QED BY <1>1 DEF AttributesFit, KindsFit

LEMMA ShopCreateProduct ==
    ASSUME ShopInv, NEW r \in Request, CreateProduct(r)
    PROVE  ShopInv'
<1>1. PICK x \in NewProduct :
        AttributesFit(x) /\ BeginCreate(r, Product, Created(x))
    BY DEF CreateProduct
<1>2. DOMAIN x = DOMAIN ProductColumn /\ \A f \in DOMAIN x : x[f] \in ProductColumn[f]
    BY ClientAssumption
<1>3. PICK y : y = Created(x)
    OBVIOUS
<1>4. /\ \A p \in Product : NewOK(p, y)
      /\ DOMAIN y = DOMAIN x
      /\ \A f \in DOMAIN x \ {"override"} : y[f] = x[f]
    BY <1>2, <1>3, CreatedFits
<1>5. \A k \in Kind \cap DOMAIN y : k \in DOMAIN x /\ y[k] = x[k] /\ y[k] \in ProductColumn[k]
    BY <1>2, <1>4 DEF Kind
<1>6. AttributesFit(y)
    BY <1>1, <1>5 DEF AttributesFit
<1>7. KindsFit(y)
    BY <1>5, <1>6, KindsChecked
<1>8. Product \subseteq Id
    BY DEF Id
<1> QED BY <1>1, <1>3, <1>4, <1>7, <1>8, ShopCreates

LEMMA ShopCreateOther ==
    ASSUME ShopInv, NEW r \in Request,
           \/ CreateCategory(r) \/ CreateUnit(r) \/ CreateAttribute(r)
           \/ CreateContact(r) \/ CreateCostType(r)
    PROVE  ShopInv'
<1>1. CASE CreateCategory(r)
    <2>1. PICK parent \in Category \cup {NoValue} :
            BeginCreate(r, Category, NewCategory(parent))
        BY <1>1 DEF CreateCategory
    <2>2. PICK x : x = NewCategory(parent)
        OBVIOUS
    <2>3. DOMAIN x = {"parent", "active"} /\ x = [f \in {"parent", "active"} |-> x[f]]
        BY <2>2 DEF NewCategory
    <2>6. x["parent"] = parent /\ x["active"] = TRUE
        BY <2>2 DEF NewCategory
    <2>4. ASSUME NEW id \in Category
          PROVE  NewOK(id, x)
        <3>1. PICK columns : columns = Columns(id)
            OBVIOUS
        <3>2. columns = [parent |-> Category \cup {NoValue}, active |-> BOOLEAN, at |-> Nat]
            BY <3>1, IdAssumption DEF Columns
        <3>3. DOMAIN columns \ {"at"} = {"parent", "active"}
            BY <3>2
        <3>4. x = [f \in DOMAIN columns \ {"at"} |-> x[f]]
            BY <2>3, <3>3
        <3>5. x["active"] \in BOOLEAN
            BY <2>6
        <3>6. \A f \in DOMAIN columns \ {"at"} : x[f] \in columns[f]
            BY <2>6, <3>2, <3>3, <3>5
        <3> QED BY <3>1, <3>4, <3>6 DEF NewOK
    <2>5. Category \subseteq Id /\ KindsFit(x)
        BY <2>3, NoKinds DEF Id, Kind
    <2> QED BY <2>1, <2>2, <2>4, <2>5, ShopCreates
<1>2. CASE CreateUnit(r)
    <2>1. PICK dimension \in Dimension, base \in Unit \cup {NoValue} :
            BeginCreate(r, Unit, NewUnit(dimension, base))
        BY <1>2 DEF CreateUnit
    <2>2. PICK x : x = NewUnit(dimension, base)
        OBVIOUS
    <2>3. DOMAIN x = {"dimension", "base", "active"} /\ x = [f \in {"dimension", "base", "active"} |-> x[f]]
        BY <2>2 DEF NewUnit
    <2>6. x["dimension"] = dimension /\ x["base"] = base /\ x["active"] = TRUE
        BY <2>2 DEF NewUnit
    <2>4. ASSUME NEW id \in Unit
          PROVE  NewOK(id, x)
        <3>1. PICK columns : columns = Columns(id)
            OBVIOUS
        <3>2. columns = [dimension |-> Dimension \cup {NoValue}, base |-> Unit \cup {NoValue},
                         active |-> BOOLEAN]
            BY <3>1, IdAssumption DEF Columns
        <3>3. DOMAIN columns \ {"at"} = {"dimension", "base", "active"}
            BY <3>2
        <3>4. x = [f \in DOMAIN columns \ {"at"} |-> x[f]]
            BY <2>3, <3>3
        <3>5. x["active"] \in BOOLEAN
            BY <2>6
        <3>6. \A f \in DOMAIN columns \ {"at"} : x[f] \in columns[f]
            BY <2>6, <3>2, <3>3, <3>5
        <3> QED BY <3>1, <3>4, <3>6 DEF NewOK
    <2>5. Unit \subseteq Id /\ KindsFit(x)
        BY <2>3, NoKinds DEF Id, Kind
    <2> QED BY <2>1, <2>2, <2>4, <2>5, ShopCreates
<1>3. CASE CreateAttribute(r)
    <2>1. PICK kind \in Kind : BeginCreate(r, Attribute, NewAttribute(kind))
        BY <1>3 DEF CreateAttribute
    <2>2. PICK x : x = NewAttribute(kind)
        OBVIOUS
    <2>3. DOMAIN x = {"kind", "active"} /\ x = [f \in {"kind", "active"} |-> x[f]]
        BY <2>2 DEF NewAttribute
    <2>6. x["kind"] = kind /\ x["active"] = TRUE
        BY <2>2 DEF NewAttribute
    <2>4. ASSUME NEW id \in Attribute
          PROVE  NewOK(id, x)
        <3>1. PICK columns : columns = Columns(id)
            OBVIOUS
        <3>2. columns = [kind |-> Kind, active |-> BOOLEAN, at |-> Nat]
            BY <3>1, IdAssumption DEF Columns
        <3>3. DOMAIN columns \ {"at"} = {"kind", "active"}
            BY <3>2
        <3>4. x = [f \in DOMAIN columns \ {"at"} |-> x[f]]
            BY <2>3, <3>3
        <3>5. x["active"] \in BOOLEAN
            BY <2>6
        <3>6. \A f \in DOMAIN columns \ {"at"} : x[f] \in columns[f]
            BY <2>6, <3>2, <3>3, <3>5
        <3> QED BY <3>1, <3>4, <3>6 DEF NewOK
    <2>5. Attribute \subseteq Id /\ KindsFit(x)
        BY <2>3, NoKinds DEF Id, Kind
    <2> QED BY <2>1, <2>2, <2>4, <2>5, ShopCreates
<1>4. CASE CreateContact(r)
    <2>1. PICK type \in {"customer", "supplier"} :
            BeginCreate(r, Contact, NewContact(type))
        BY <1>4 DEF CreateContact
    <2>2. PICK x : x = NewContact(type)
        OBVIOUS
    <2>3. DOMAIN x = {"type", "active"} /\ x = [f \in {"type", "active"} |-> x[f]]
        BY <2>2 DEF NewContact
    <2>6. x["type"] = type /\ x["active"] = TRUE
        BY <2>2 DEF NewContact
    <2>4. ASSUME NEW id \in Contact
          PROVE  NewOK(id, x)
        <3>1. PICK columns : columns = Columns(id)
            OBVIOUS
        <3>2. columns = [type |-> {"customer", "supplier", "both"}, active |-> BOOLEAN, at |-> Nat]
            BY <3>1, IdAssumption DEF Columns
        <3>3. DOMAIN columns \ {"at"} = {"type", "active"}
            BY <3>2
        <3>4. x = [f \in DOMAIN columns \ {"at"} |-> x[f]]
            BY <2>3, <3>3
        <3>5. x["active"] \in BOOLEAN
            BY <2>6
        <3>6. \A f \in DOMAIN columns \ {"at"} : x[f] \in columns[f]
            BY <2>6, <3>2, <3>3, <3>5
        <3> QED BY <3>1, <3>4, <3>6 DEF NewOK
    <2>5. Contact \subseteq Id /\ KindsFit(x)
        BY <2>3, NoKinds DEF Id, Kind
    <2> QED BY <2>1, <2>2, <2>4, <2>5, ShopCreates
<1>5. CASE CreateCostType(r)
    <2>1. BeginCreate(r, CostType, NewCostType)
        BY <1>5 DEF CreateCostType
    <2>2. PICK x : x = NewCostType
        OBVIOUS
    <2>3. DOMAIN x = {"active"} /\ x = [f \in {"active"} |-> x[f]]
        BY <2>2 DEF NewCostType
    <2>6. x["active"] = TRUE
        BY <2>2 DEF NewCostType
    <2>4. ASSUME NEW id \in CostType
          PROVE  NewOK(id, x)
        <3>1. PICK columns : columns = Columns(id)
            OBVIOUS
        <3>2. columns = [active |-> BOOLEAN]
            BY <3>1, IdAssumption DEF Columns
        <3>3. DOMAIN columns \ {"at"} = {"active"}
            BY <3>2
        <3>4. x = [f \in DOMAIN columns \ {"at"} |-> x[f]]
            BY <2>3, <3>3
        <3>5. x["active"] \in BOOLEAN
            BY <2>6
        <3>6. \A f \in DOMAIN columns \ {"at"} : x[f] \in columns[f]
            BY <2>6, <3>2, <3>3, <3>5
        <3> QED BY <3>1, <3>4, <3>6 DEF NewOK
    <2>5. CostType \subseteq Id /\ KindsFit(x)
        BY <2>3, NoKinds DEF Id, Kind
    <2> QED BY <2>1, <2>2, <2>4, <2>5, ShopCreates
<1> QED BY <1>1, <1>2, <1>3, <1>4, <1>5

LEMMA ShopEditProduct ==
    ASSUME ShopInv, NEW r \in Request, NEW p \in Product, EditProduct(r, p)
    PROVE  ShopInv'
<1>1. PICK fields \in ProductPatch :
        TagMatches(r, p) /\ AttributesFit(fields) /\ Begin(r, "edit", p, fields)
    BY DEF EditProduct
<1>2. DOMAIN fields \subseteq DOMAIN ProductColumn
      /\ \A f \in DOMAIN fields : fields[f] \in ProductColumn[f]
    BY ClientAssumption
<1>3. KindsFit(fields)
    BY <1>1, <1>2, KindsChecked
<1>4. PatchOK(p, fields)
    BY <1>2, ProductColumns DEF PatchOK
<1>5. p \in Id /\ p \notin Attribute /\ Exists(p)
    BY <1>1, IdAssumption DEF Id, TagMatches
<1> QED BY <1>1, <1>3, <1>4, <1>5, ShopBegins

(* A patch of one column that is no attribute of a product.                *)
LEMMA OneColumn ==
    ASSUME NEW id, NEW fields, NEW column, DOMAIN fields = {column},
           column \in DOMAIN Columns(id), column # "at", column \notin Kind,
           fields[column] \in Columns(id)[column]
    PROVE  PatchOK(id, fields) /\ KindsFit(fields)
BY NoKinds DEF PatchOK

(* Reactivation.                                                           *)
LEMMA ActiveColumn ==
    ASSUME NEW id \in Id
    PROVE  /\ PatchOK(id, [active |-> TRUE]) /\ KindsFit([active |-> TRUE])
           /\ "kind" \notin DOMAIN [active |-> TRUE]
<1>1. PICK fields : fields = [active |-> TRUE]
    OBVIOUS
<1>2. DOMAIN fields = {"active"}
    BY <1>1
<1>3. fields["active"] \in BOOLEAN
    BY <1>1
<1>4. "active" \in DOMAIN Columns(id) /\ Columns(id)["active"] = BOOLEAN
    BY IdAssumption DEF Id, Columns
<1>5. PatchOK(id, fields) /\ KindsFit(fields)
    BY <1>2, <1>3, <1>4, OneColumn DEF Kind
<1> QED BY <1>1, <1>2, <1>5

LEMMA ShopEditCategory ==
    ASSUME ShopInv, NEW r \in Request, NEW c \in Category, EditCategory(r, c)
    PROVE  ShopInv'
<1>1. PICK fields \in CategoryPatch : TagMatches(r, c) /\ Begin(r, "edit", c, fields)
    BY DEF EditCategory
<1>2. c \in Id /\ c \notin Attribute /\ Exists(c)
    BY <1>1, IdAssumption DEF Id, TagMatches
<1>3. PatchOK(c, fields) /\ KindsFit(fields)
    <2>1. CASE fields = [active |-> TRUE]
        BY <1>2, <2>1, ActiveColumn
    <2>2. CASE \E q \in Category : fields = [parent |-> q]
        <3>1. DOMAIN fields = {"parent"} /\ fields["parent"] \in Category
            BY <2>2
        <3>2. "parent" \in DOMAIN Columns(c) /\ Columns(c)["parent"] = Category \cup {NoValue}
            BY IdAssumption DEF Columns
        <3> QED BY <3>1, <3>2, OneColumn DEF Kind
    <2> QED BY <2>1, <2>2 DEF CategoryPatch
<1> QED BY <1>1, <1>2, <1>3, ShopBegins

LEMMA ShopEditAttribute ==
    ASSUME ShopInv, NEW r \in Request, NEW a \in Attribute, EditAttribute(r, a)
    PROVE  ShopInv'
<1>1. PICK fields \in AttributePatch : TagMatches(r, a) /\ Begin(r, "edit", a, fields)
    BY DEF EditAttribute
<1>2. a \in Id /\ a \notin Dated /\ Exists(a)
    BY <1>1, IdAssumption DEF Id, TagMatches, Dated
<1>3. PatchOK(a, fields) /\ KindsFit(fields) /\ "kind" \notin DOMAIN fields
    BY <1>2, ActiveColumn DEF AttributePatch
<1> QED BY <1>1, <1>2, <1>3, ShopBegins

LEMMA ShopEditContact ==
    ASSUME ShopInv, NEW r \in Request, NEW c \in Contact, EditContact(r, c)
    PROVE  ShopInv'
<1>1. PICK fields \in ContactPatch : TagMatches(r, c) /\ Begin(r, "edit", c, fields)
    BY DEF EditContact
<1>2. c \in Id /\ c \notin Attribute /\ Exists(c)
    BY <1>1, IdAssumption DEF Id, TagMatches
<1>3. PatchOK(c, fields) /\ KindsFit(fields)
    <2>1. CASE fields = [active |-> TRUE]
        BY <1>2, <2>1, ActiveColumn
    <2>2. CASE \E type \in {"customer", "both"} : fields = [type |-> type]
        <3>1. DOMAIN fields = {"type"} /\ fields["type"] \in {"customer", "both"}
            BY <2>2
        <3>2. "type" \in DOMAIN Columns(c) /\ Columns(c)["type"] = {"customer", "supplier", "both"}
            BY IdAssumption DEF Columns
        <3> QED BY <3>1, <3>2, OneColumn DEF Kind
    <2> QED BY <2>1, <2>2 DEF ContactPatch
<1> QED BY <1>1, <1>2, <1>3, ShopBegins

LEMMA ShopEditUnit ==
    ASSUME ShopInv, NEW r \in Request, NEW u \in Unit, EditUnit(r, u)
    PROVE  ShopInv'
<1>1. u \in Id /\ u \notin Attribute /\ u \notin Dated /\ Exists(u)
    BY IdAssumption DEF Id, Dated, EditUnit
<1>2. PICK columns : columns = Columns(u)
    OBVIOUS
<1>3. columns = [dimension |-> Dimension \cup {NoValue}, base |-> Unit \cup {NoValue},
                 active |-> BOOLEAN]
    BY <1>2, IdAssumption DEF Columns
<1>4. ASSUME NEW dimension \in Dimension, Begin(r, "edit", u, [dimension |-> dimension])
      PROVE  ShopInv'
    <2>1. PICK fields : fields = [dimension |-> dimension]
        OBVIOUS
    <2>2. DOMAIN fields = {"dimension"} /\ fields["dimension"] \in Dimension
        BY <2>1
    <2>5. "dimension" \in DOMAIN Columns(u) /\ Columns(u)["dimension"] = Dimension \cup {NoValue}
        BY <1>2, <1>3
    <2>3. PatchOK(u, fields) /\ KindsFit(fields)
        BY <2>2, <2>5, OneColumn DEF Kind
    <2>4. Begin(r, "edit", u, fields)
        BY <1>4, <2>1
    <2> QED BY <1>1, <2>3, <2>4, ShopBegins
<1>5. ASSUME NEW base \in Unit, Begin(r, "edit", u, [base |-> base])
      PROVE  ShopInv'
    <2>1. PICK fields : fields = [base |-> base]
        OBVIOUS
    <2>2. DOMAIN fields = {"base"} /\ fields["base"] \in Unit
        BY <2>1
    <2>5. "base" \in DOMAIN Columns(u) /\ Columns(u)["base"] = Unit \cup {NoValue}
        BY <1>2, <1>3
    <2>3. PatchOK(u, fields) /\ KindsFit(fields)
        BY <2>2, <2>5, OneColumn DEF Kind
    <2>4. Begin(r, "edit", u, fields)
        BY <1>5, <2>1
    <2> QED BY <1>1, <2>3, <2>4, ShopBegins
<1> QED BY <1>4, <1>5 DEF EditUnit

LEMMA ShopEditCostType ==
    ASSUME ShopInv, NEW r \in Request, NEW t \in CostType, EditCostType(r, t)
    PROVE  ShopInv'
<1>1. PICK fields \in CostTypePatch : Exists(t) /\ Begin(r, "edit", t, fields)
    BY DEF EditCostType
<1>2. t \in Id /\ t \notin Attribute /\ t \notin Dated
    BY IdAssumption DEF Id, Dated
<1>3. PatchOK(t, fields) /\ KindsFit(fields)
    BY <1>2, ActiveColumn DEF CostTypePatch
<1> QED BY <1>1, <1>2, <1>3, ShopBegins

(* Deactivations and deletions.                                            *)
LEMMA ShopRemoves ==
    ASSUME ShopInv, NEW r \in Request, NEW id \in Id,
           \/ id \in Product /\ (DeactivateProduct(r, id) \/ DeleteProduct(r, id))
           \/ id \in Category /\ (DeactivateCategory(r, id) \/ DeleteCategory(r, id))
           \/ id \in Unit /\ (DeactivateUnit(r, id) \/ DeleteUnit(r, id))
           \/ id \in Attribute /\ (DeactivateAttribute(r, id) \/ DeleteAttribute(r, id))
           \/ id \in Contact /\ (DeactivateContact(r, id) \/ DeleteContact(r, id))
           \/ id \in CostType /\ (DeactivateCostType(r, id) \/ DeleteCostType(r, id))
    PROVE  ShopInv'
<1>1. Exists(id)
    BY DEF DeactivateProduct, DeleteProduct, DeactivateCategory, DeleteCategory,
           DeactivateUnit, DeleteUnit, DeactivateAttribute, DeleteAttribute,
           DeactivateContact, DeleteContact, DeactivateCostType, DeleteCostType
<1>2. \/ Begin(r, "deactivate", id, [active |-> FALSE])
      \/ Begin(r, "delete", id, <<>>)
    BY DEF DeactivateProduct, DeleteProduct, DeactivateCategory, DeleteCategory,
           DeactivateUnit, DeleteUnit, DeactivateAttribute, DeleteAttribute,
           DeactivateContact, DeleteContact, DeactivateCostType, DeleteCostType
<1> QED BY <1>1, <1>2, ShopBegins

LEMMA ShopStartImport ==
    ASSUME ShopInv, NEW r \in Request, StartImport(r)
    PROVE  ShopInv'
<1>1. PICK file \in File :
        Open(r, [op |-> "import", at |-> now + 1, file |-> file, valid |-> Valid(file),
                      i |-> 1, checked |-> FALSE, aborted |-> FALSE, result |-> <<>>])
    BY DEF StartImport
<1>2. PICK valid : valid = Valid(file)
    OBVIOUS
<1>3. PICK new : new = [op |-> "import", at |-> now + 1, file |-> file, valid |-> valid,
                        i |-> 1, checked |-> FALSE, aborted |-> FALSE, result |-> <<>>]
    OBVIOUS
<1>4. Open(r, new)
    BY <1>1, <1>2, <1>3
<1>5. now \in Nat /\ now' = now + 1 /\ rows' = rows
    BY <1>4 DEF ShopInv, RowsPart, Open
<1>6. new.op = "import" /\ new.at = now + 1 /\ new.file = file /\ new.i = 1
    BY <1>3
<1>7. new.checked = FALSE
    BY <1>3
<1>8. DOMAIN new = ImportFields
    BY <1>3 DEF ImportFields
<1>9. ShopTxnOK(new)'
    <2>1. new.at \in 1 .. now'
        BY <1>5, <1>6
    <2>2. new.file \in File /\ new.i \in Nat \ {0}
        BY <1>6
    <2> QED BY <1>6, <1>7, <1>8, <2>1, <2>2 DEF ShopTxnOK
<1> QED BY <1>4, <1>6, <1>9, ShopOpens

-----------------------------------------------------------------------------
(* Steps that open and close nothing.                                      *)
LEMMA ShopRead ==
    ASSUME ShopInv, NEW r \in Request, NEW id \in Tagged, Read(r, id)
    PROVE  ShopInv'
<1>1. /\ Exists(id) /\ txn[r].op = "none" /\ copy' = [copy EXCEPT ![r] = [id |-> id, row |-> rows[id]]]
      /\ rows' = rows /\ history' = history /\ used' = used /\ txn' = txn /\ now' = now
    BY DEF Read, Idle
<1>2. PICK new : new = [id |-> id, row |-> rows[id]]
    OBVIOUS
<1>3. new.id = id /\ new.row = rows[id]
    BY <1>2
<1>4. \A s \in Request : copy'[s] = IF s = r THEN new ELSE copy[s]
    BY <1>1, <1>2 DEF ShopInv, ShopTxnsPart
<1>5. Existing' = Existing /\ \A i : Exists(i)' <=> Exists(i)
    BY <1>1 DEF Existing, Exists
<1>6. RowsPart'
    BY <1>1, <1>5 DEF ShopInv, RowsPart
<1>7. ReferencesHold'
    BY <1>1, <1>5 DEF ShopInv, ReferencesHold, Refers
<1>8. ShopTxnsPart'
    <2>1. \A x : ShopTxnOK(x) => ShopTxnOK(x)'
        BY <1>1 DEF ShopTxnOK, KindsFit, Exists
    <2> QED BY <1>1, <2>1 DEF ShopInv, ShopTxnsPart
<1>9. VersionsPart'
    <2>1. /\ \A s, s2 \in Request : s # s2 /\ txn'[s].op # "none" /\ txn'[s2].op # "none" =>
                txn'[s].at # txn'[s2].at
          /\ \A i \in Dated, s \in Request : Exists(i)' =>
                rows'[i].at \in 0 .. now' /\ (txn'[s].op # "none" => rows'[i].at # txn'[s].at)
        BY <1>1, <1>5 DEF ShopInv, VersionsPart
    <2>2. ASSUME NEW s \in Request, copy'[s].id \in Dated
          PROVE  /\ copy'[s].row.at \in 0 .. now'
                 /\ \A s2 \in Request : txn'[s2].op # "none" => copy'[s].row.at # txn'[s2].at
                 /\ rows'[copy'[s].id] \notin {Unused, Deleted}
                      /\ copy'[s].row.at = rows'[copy'[s].id].at => copy'[s].row = rows'[copy'[s].id]
        <3>1. CASE s = r
            <4>1. copy'[s] = new
                BY <1>4, <3>1
            <4>2. id \in Dated
                BY <1>3, <2>2, <4>1
            <4>3. rows[id].at \in 0 .. now /\ \A s2 \in Request : txn[s2].op # "none" => rows[id].at # txn[s2].at
                BY <1>1, <4>2 DEF ShopInv, VersionsPart
            <4> QED BY <1>1, <1>3, <4>1, <4>3
        <3>2. CASE s # r
            <4>1. copy'[s] = copy[s]
                BY <1>4, <3>2
            <4> QED BY <1>1, <2>2, <4>1 DEF ShopInv, VersionsPart, Exists
        <3> QED BY <3>1, <3>2
    <2>3. ASSUME NEW s \in Request, txn'[s].op = "edit"
          PROVE  txn'[s].copy = copy'[s]
        <3>1. s # r /\ txn'[s] = txn[s] /\ copy'[s] = copy[s]
            BY <1>1, <1>4, <2>3
        <3> QED BY <2>3, <3>1 DEF ShopInv, VersionsPart
    <2> QED BY <2>1, <2>2, <2>3 DEF VersionsPart, Exists
<1> QED BY <1>6, <1>7, <1>8, <1>9 DEF ShopInv

LEMMA ShopUse ==
    ASSUME ShopInv, NEW id \in Id, Use(id)
    PROVE  ShopInv'
<1>1. /\ Exists(id) /\ used' = used \cup {id}
      /\ rows' = rows /\ history' = history /\ copy' = copy /\ txn' = txn /\ now' = now
    BY DEF Use
<1>2. Existing' = Existing /\ \A i : Exists(i)' <=> Exists(i)
    BY <1>1 DEF Existing, Exists
<1>3. RowsPart'
    BY <1>1, <1>2 DEF ShopInv, RowsPart
<1>4. ReferencesHold'
    <2>1. id \in Existing
        BY <1>1 DEF Existing
    <2> QED BY <1>1, <1>2, <2>1 DEF ShopInv, ReferencesHold, Refers
<1>5. ShopTxnsPart'
    BY <1>1, <1>2 DEF ShopInv, ShopTxnsPart, ShopTxnOK, KindsFit, Exists
<1>6. VersionsPart'
    BY <1>1, <1>2 DEF ShopInv, VersionsPart, Exists
<1> QED BY <1>3, <1>4, <1>5, <1>6 DEF ShopInv

-----------------------------------------------------------------------------
LEMMA ShopInit ==
    ASSUME CatalogInit
    PROVE  ShopInv
<1>1. /\ rows = Seed /\ history = [p \in Product |-> <<>>] /\ used = {} /\ now = 0
      /\ copy = [r \in Request |-> NoCopy] /\ txn = [r \in Request |-> NoTxn]
    BY DEF CatalogInit
<1>2. /\ rows = [id \in Id |-> rows[id]]
      /\ \A id \in Id : rows[id] # Unused =>
            /\ rows[id] \in Table(id)
            /\ id \in Tagged => rows[id].at = 0
            /\ Refers(rows[id]) \subseteq {i \in Id : rows[i] # Unused}
      /\ \A p \in Product, k \in Kind :
            p \in Id /\ rows[p] # Unused /\ rows[p][k] # NoValue => rows[rows[p][k]].kind = k
    BY <1>1, SeedAssumption
<1>3. Existing = {i \in Id : rows[i] # Unused}
    BY <1>2, IdAssumption DEF Existing, Exists
<1>4. RowsPart
    <2>1. \A id \in Existing : Shaped(rows[id], Columns(id))
        BY <1>2, <1>3, TableShape
    <2>2. <<>> \in Seq(Price \X (Price \cup {NoValue}))
        BY EmptySeq
    <2>3. now \in 0 .. MaxTime
        BY <1>1, MaxTimeAssumption
    <2> QED BY <1>1, <1>2, <2>1, <2>2, <2>3 DEF RowsPart
<1>5. ReferencesHold
    <2>1. \A p \in Product : Exists(p) => p \in Id /\ rows[p] # Unused
        BY DEF Exists, Id
    <2> QED BY <1>1, <1>2, <1>3, <2>1 DEF ReferencesHold
<1>6. NoTxn.op = "none" /\ NoCopy.id = NoValue
    BY DEF NoTxn, NoCopy
<1>7. ShopTxnsPart
    <2>1. \A r \in Request : txn[r].op = "none"
        BY <1>1, <1>6
    <2> QED BY <1>1, <2>1 DEF ShopTxnsPart, ShopTxnOK
<1>8. VersionsPart
    <2>1. \A r \in Request : txn[r].op = "none" /\ copy[r].id \notin Dated
        BY <1>1, <1>6, IdAssumption DEF Dated, Id
    <2>2. \A id \in Dated : Exists(id) => rows[id].at = 0
        BY <1>2 DEF Dated, Id, Tagged, Exists
    <2> QED BY <1>1, <2>1, <2>2 DEF VersionsPart
<1> QED BY <1>4, <1>5, <1>7, <1>8 DEF ShopInv

LEMMA ShopStep ==
    ASSUME ShopInv, [CatalogNext]_catalogVars
    PROVE  ShopInv'
<1>1. CASE UNCHANGED catalogVars
    <2>1. /\ rows' = rows /\ history' = history /\ used' = used /\ copy' = copy /\ txn' = txn
          /\ now' = now
        BY <1>1 DEF catalogVars
    <2>2. Existing' = Existing /\ \A i : Exists(i)' <=> Exists(i)
        BY <2>1 DEF Existing, Exists
    <2>3. RowsPart'
        BY <2>1, <2>2 DEF ShopInv, RowsPart
    <2>4. ReferencesHold'
        BY <2>1, <2>2 DEF ShopInv, ReferencesHold, Refers
    <2>5. ShopTxnsPart'
        BY <2>1, <2>2 DEF ShopInv, ShopTxnsPart, ShopTxnOK, KindsFit, Exists
    <2>6. VersionsPart'
        BY <2>1, <2>2 DEF ShopInv, VersionsPart, Exists
    <2> QED BY <2>3, <2>4, <2>5, <2>6 DEF ShopInv
<1>2. CASE \E id \in Product \cup Contact \cup CostType : Use(id)
    BY <1>2, ShopUse DEF Id
<1>3. ASSUME NEW r \in Request, Starts(r)
      PROVE  ShopInv'
    <2>1. CASE \E id \in Tagged : Read(r, id)
        BY <2>1, ShopRead
    <2>2. CASE \/ CreateProduct(r) \/ CreateCategory(r) \/ CreateUnit(r)
               \/ CreateAttribute(r) \/ CreateContact(r) \/ CreateCostType(r)
               \/ StartImport(r)
        BY <2>2, ShopCreateProduct, ShopCreateOther, ShopStartImport
    <2>3. CASE \E p \in Product :
                EditProduct(r, p) \/ DeactivateProduct(r, p) \/ DeleteProduct(r, p)
        BY <2>3, ShopEditProduct, ShopRemoves DEF Id
    <2>4. CASE \E c \in Category :
                EditCategory(r, c) \/ DeactivateCategory(r, c) \/ DeleteCategory(r, c)
        BY <2>4, ShopEditCategory, ShopRemoves DEF Id
    <2>5. CASE \E u \in Unit :
                EditUnit(r, u) \/ DeactivateUnit(r, u) \/ DeleteUnit(r, u)
        BY <2>5, ShopEditUnit, ShopRemoves DEF Id
    <2>6. CASE \E a \in Attribute :
                EditAttribute(r, a) \/ DeactivateAttribute(r, a) \/ DeleteAttribute(r, a)
        BY <2>6, ShopEditAttribute, ShopRemoves DEF Id
    <2>7. CASE \E c \in Contact :
                EditContact(r, c) \/ DeactivateContact(r, c) \/ DeleteContact(r, c)
        BY <2>7, ShopEditContact, ShopRemoves DEF Id
    <2>8. CASE \E t \in CostType :
                EditCostType(r, t) \/ DeactivateCostType(r, t) \/ DeleteCostType(r, t)
        BY <2>8, ShopEditCostType, ShopRemoves DEF Id
    <2> QED BY <1>3, <2>1, <2>2, <2>3, <2>4, <2>5, <2>6, <2>7, <2>8 DEF Starts
<1>4. ASSUME NEW r \in Request, Commits(r)
      PROVE  ShopInv'
    BY <1>4, ShopCommitCreate, ShopCommitEdit, ShopCommitDeactivate, ShopCommitDelete,
       ShopImportCheck, ShopImportInsert, ShopRollback DEF Commits
<1> QED BY <1>1, <1>2, <1>3, <1>4 DEF CatalogNext

(* The inductive invariant of the master data.                             *)
THEOREM ShopInvariant == CatalogSpec => []ShopInv
<1>1. CatalogInit => ShopInv
    BY ShopInit
<1>2. ShopInv /\ [CatalogNext]_catalogVars => ShopInv'
    BY ShopStep
<1> QED BY <1>1, <1>2, PTL DEF CatalogSpec

(* Every row has the columns of its table with values of their types.      *)
THEOREM ShopTypeOK == CatalogSpec => []CatalogTypeOK
<1>1. ShopInv => CatalogTypeOK
    <2> SUFFICES ASSUME ShopInv PROVE CatalogTypeOK
        OBVIOUS
    <2>1. DOMAIN rows = Id
        BY DEF ShopInv, RowsPart
    <2>2. \A id \in Existing : rows[id] \in Table(id)
        BY TableShape DEF ShopInv, RowsPart, Existing
    <2> QED BY <2>1, <2>2 DEF ShopInv, RowsPart, CatalogTypeOK
<1> QED BY <1>1, ShopInvariant, PTL

(* No foreign key dangles and every attribute of a product is of the kind  *)
(* of its column, although the checks run before other requests' commits.  *)
THEOREM ShopReferencesHold == CatalogSpec => []ReferencesHold
<1>1. ShopInv => ReferencesHold
    BY DEF ShopInv
<1> QED BY <1>1, ShopInvariant, PTL

(* An edit let in by its tag works on the row its client saw.              *)
THEOREM ShopTagTellsContent == CatalogSpec => []TagTellsContent
<1>1. ASSUME ShopInv
      PROVE  TagTellsContent
    <2>1. ASSUME NEW r \in Request, PresentsTag(r), txn[r].id \in Dated
          PROVE  /\ txn[r].seen = txn[r].copy.row
                 /\ Exists(txn[r].id) /\ rows[txn[r].id].at = txn[r].copy.row.at =>
                       rows[txn[r].id] = txn[r].copy.row
        <3>1. txn[r].copy.row = txn[r].seen
            BY <1>1, <2>1 DEF PresentsTag, ShopInv, ShopTxnsPart, ShopTxnOK
        <3>2. txn[r].copy = copy[r] /\ copy[r].id = txn[r].id
            BY <1>1, <2>1 DEF PresentsTag, ShopInv, VersionsPart
        <3>3. Exists(copy[r].id) /\ copy[r].row.at = rows[copy[r].id].at =>
                  copy[r].row = rows[copy[r].id]
            BY <1>1, <2>1, <3>2 DEF ShopInv, VersionsPart
        <3> QED BY <3>1, <3>2, <3>3
    <2> QED BY <2>1 DEF TagTellsContent, Dated
<1> QED BY <1>1, ShopInvariant, PTL

-----------------------------------------------------------------------------
(* The history of prices.                                                  *)

(* A commit that leaves the history and the prices of every product alone. *)
LEMMA PricesStand ==
    ASSUME ShopInv, NEW p \in Product, history' = history,
           Exists(p) /\ Exists(p)' => rows'[p].price = rows[p].price
                                                /\ rows'[p].override = rows[p].override
    PROVE  /\ (history[p]' # history[p] => Recorded(p))
           /\ ~PricesMove(p)
BY DEF PricesMove, Prices

LEMMA PricesAfterEdit ==
    ASSUME ShopInv, NEW r \in Request, CommitEdit(r), NEW p \in Product
    PROVE  /\ (history[p]' # history[p] => Recorded(p))
           /\ PricesMove(p) =>
                Recorded(p) \/ (txn[r].op = "edit" /\ txn[r].id = p /\ txn[r].seen # rows[p])
<1>1. PICK t : t = txn[r]
    OBVIOUS
<1>2. PICK id : id = t.id
    OBVIOUS
<1>3. PICK x : x = Stored(t.id, Patched(rows[t.id], t.fields), t.at)
    OBVIOUS
<1>4. /\ t.op = "edit" /\ Exists(id) /\ rows' = [rows EXCEPT ![id] = x]
      /\ history' = IF id \in Product /\ PriceChanges(t.fields, t.seen)
                    THEN [history EXCEPT ![id] = Append(history[id], Prices(x))] ELSE history
    BY <1>1, <1>2, <1>3 DEF CommitEdit
<1>5. ShopTxnOK(t) /\ id \in Id /\ p \in Id
    BY <1>1, <1>2, <1>4 DEF ShopInv, ShopTxnsPart, ShopTxnOK, Id
<1>6. rows'[p] = IF p = id THEN x ELSE rows[p]
    BY <1>4, <1>5 DEF ShopInv, RowsPart
<1>7. history[p]' = IF p = id /\ PriceChanges(t.fields, t.seen)
                    THEN Append(history[p], Prices(x)) ELSE history[p]
    BY <1>4 DEF ShopInv, RowsPart
<1>8. CASE p # id
    <2>1. ~PricesMove(p)
        BY <1>6, <1>8 DEF PricesMove, Prices
    <2> QED BY <1>7, <1>8, <2>1
<1>9. CASE p = id /\ PriceChanges(t.fields, t.seen)
    BY <1>6, <1>7, <1>9 DEF Recorded, Prices
<1>10. CASE p = id /\ ~PriceChanges(t.fields, t.seen)
    <2>1. history[p]' = history[p]
        BY <1>7, <1>10
    <2>2. ASSUME t.seen = rows[p]
          PROVE  ~PricesMove(p)
        <3>1. PICK fields, y : fields = t.fields /\ y = rows[p]
            OBVIOUS
        <3>2. \A f \in {"price", "override"} \cap DOMAIN fields : fields[f] = y[f]
            BY <1>10, <2>2, <3>1 DEF PriceChanges
        <3>3. \A f \in DOMAIN Columns(p) \ {"at"} : x[f] = IF f \in DOMAIN fields THEN fields[f] ELSE y[f]
            BY <1>2, <1>3, <1>4, <1>5, <1>10, <3>1, EditedRow
        <3>4. x["price"] = y["price"] /\ x["override"] = y["override"]
            BY <3>2, <3>3, ProductColumns
        <3> QED BY <1>6, <1>10, <3>1, <3>4 DEF PricesMove, Prices
    <2> QED BY <1>1, <1>2, <1>4, <1>10, <2>1, <2>2
<1> QED BY <1>8, <1>9, <1>10

LEMMA PricesAfterDeactivate ==
    ASSUME ShopInv, NEW r \in Request, CommitDeactivate(r), NEW p \in Product
    PROVE  (history[p]' # history[p] => Recorded(p)) /\ ~PricesMove(p)
<1>1. PICK t : t = txn[r]
    OBVIOUS
<1>2. PICK id : id = t.id
    OBVIOUS
<1>3. /\ t.op = "deactivate" /\ Exists(id) /\ history' = history
      /\ rows' = [rows EXCEPT ![id] = Touched(id, [rows[id] EXCEPT !.active = FALSE], t.at)]
    BY <1>1, <1>2 DEF CommitDeactivate
<1>4. p \in Id
    BY DEF Id
<1>5. CASE p # id
    <2>1. rows'[p] = rows[p]
        BY <1>3, <1>5
    <2> QED BY <1>3, <2>1, PricesStand
<1>6. CASE p = id
    <2>1. PICK y : y = rows[p]
        OBVIOUS
    <2>2. p \in Existing
        BY <1>3, <1>4, <1>6 DEF Existing
    <2>3. DOMAIN y = DOMAIN Columns(p)
        BY <2>1, <2>2 DEF ShopInv, RowsPart, Shaped
    <2>4. {"price", "override"} \subseteq DOMAIN y
        BY <2>3, ProductColumns
    <2>5. rows'[p] = [[y EXCEPT !.active = FALSE] EXCEPT !.at = t.at]
        BY <1>3, <1>4, <1>6, <2>1 DEF Touched, ShopInv, RowsPart
    <2>6. rows'[p].price = y.price /\ rows'[p].override = y.override
        BY <2>4, <2>5
    <2> QED BY <1>3, <2>1, <2>6, PricesStand
<1> QED BY <1>5, <1>6

(* Steps that write no row, or the row of an id without one.               *)
LEMMA PricesElsewhere ==
    ASSUME ShopInv, NEW p \in Product, history' = history,
           \/ rows' = rows
           \/ \E id : rows[id] = Unused /\ \E x : rows' = [rows EXCEPT ![id] = x]
           \/ \E id : rows' = [rows EXCEPT ![id] = Deleted]
    PROVE  (history[p]' # history[p] => Recorded(p)) /\ ~PricesMove(p)
<1>1. p \in Id
    BY DEF Id
<1>2. rows = [i \in Id |-> rows[i]]
    BY DEF ShopInv, RowsPart
<1>3. Exists(p) /\ Exists(p)' => rows'[p] = rows[p]
    BY <1>1, <1>2 DEF Exists
<1> QED BY <1>3, PricesStand

LEMMA PricesStep ==
    ASSUME ShopInv, [CatalogNext]_catalogVars, NEW p \in Product
    PROVE  /\ (history[p]' # history[p] => Recorded(p))
           /\ PricesMove(p) =>
                Recorded(p)
                \/ \E r \in Request : txn[r].op = "edit" /\ txn[r].id = p /\ txn[r].seen # rows[p]
<1>1. CASE UNCHANGED <<rows, history>>
    BY <1>1, PricesElsewhere
<1>2. ASSUME NEW r \in Request, Starts(r)
      PROVE  UNCHANGED <<rows, history>>
    BY <1>2 DEF Starts, Read, StartImport, Open, BeginCreate, Begin,
        CreateProduct, CreateCategory, CreateUnit, CreateAttribute,
        CreateContact, CreateCostType, EditProduct, EditCategory,
        EditUnit, EditAttribute, EditContact, EditCostType,
        DeactivateProduct, DeleteProduct, DeactivateCategory, DeleteCategory,
        DeactivateUnit, DeleteUnit, DeactivateAttribute, DeleteAttribute,
        DeactivateContact, DeleteContact, DeactivateCostType, DeleteCostType
<1>3. ASSUME NEW r \in Request, CommitCreate(r)
      PROVE  (history[p]' # history[p] => Recorded(p)) /\ ~PricesMove(p)
    <2>1. PICK id : id = (CHOOSE fresh \in Fresh(txn[r].table) : TRUE)
        OBVIOUS
    <2>2. rows[id] = Unused
        BY <1>3, <2>1 DEF CommitCreate, Fresh
    <2>3. history' = history
          /\ rows' = [rows EXCEPT ![id] = Stored(id, txn[r].fields, txn[r].at)]
        BY <1>3, <2>1 DEF CommitCreate
    <2> QED BY <2>2, <2>3, PricesElsewhere
<1>4. ASSUME NEW r \in Request, CommitDelete(r)
      PROVE  (history[p]' # history[p] => Recorded(p)) /\ ~PricesMove(p)
    BY <1>4, PricesElsewhere DEF CommitDelete
<1>5. ASSUME NEW r \in Request, ImportInsert(r)
      PROVE  (history[p]' # history[p] => Recorded(p)) /\ ~PricesMove(p)
    <2>1. PICK id : id = (CHOOSE fresh \in Fresh(Product) : TRUE)
        OBVIOUS
    <2>2. rows[id] = Unused
        BY <1>5, <2>1 DEF ImportInsert, Fresh
    <2>3. history' = history /\ (rows' = rows \/ \E x : rows' = [rows EXCEPT ![id] = x])
        BY <1>5, <2>1 DEF ImportInsert
    <2> QED BY <2>2, <2>3, PricesElsewhere
<1>6. ASSUME NEW r \in Request, Rollback(r) \/ ImportCheck(r) \/ EndImport(r)
      PROVE  UNCHANGED <<rows, history>>
    BY <1>6 DEF Rollback, ImportCheck, EndImport
<1>7. ASSUME NEW id, Use(id)
      PROVE  UNCHANGED <<rows, history>>
    BY <1>7 DEF Use
<1>8. CASE UNCHANGED catalogVars
    BY <1>1, <1>8 DEF catalogVars
<1>9. ASSUME NEW r \in Request, Commits(r), ~UNCHANGED <<rows, history>>
      PROVE  /\ (history[p]' # history[p] => Recorded(p))
             /\ PricesMove(p) =>
                  Recorded(p)
                  \/ \E s \in Request : txn[s].op = "edit" /\ txn[s].id = p /\ txn[s].seen # rows[p]
    <2>1. CASE CommitEdit(r)
        BY <2>1, PricesAfterEdit
    <2>2. CASE CommitDeactivate(r)
        BY <2>2, PricesAfterDeactivate
    <2> QED BY <1>3, <1>4, <1>5, <1>6, <1>9, <2>1, <2>2 DEF Commits
<1> QED BY <1>1, <1>2, <1>7, <1>8, <1>9 DEF CatalogNext

(* Every commit that changes the prices of a product records them, unless  *)
(* the row was changed after the request read it; nothing else is recorded.*)
THEOREM ShopPriceChangesRecorded == CatalogSpec => PriceChangesRecorded
<1>1. ShopInv /\ [CatalogNext]_catalogVars =>
        [ \A p \in Product :
            /\ history[p]' # history[p] => Recorded(p)
            /\ PricesMove(p) =>
                Recorded(p) \/ \E r \in Request :
                    txn[r].op = "edit" /\ txn[r].id = p /\ txn[r].seen # rows[p] ]_catalogVars
    BY PricesStep
<1> QED BY <1>1, ShopInvariant, PTL DEF CatalogSpec, PriceChangesRecorded

-----------------------------------------------------------------------------
(* The draft of a purchase.                                                *)

LEMMA BuyingFinite ==
    IsFiniteSet(Line) /\ IsFiniteSet(Cost)
BY FiniteAssumption

-----------------------------------------------------------------------------
(* Rows: amounts of lines may be any integers until they are known to be   *)
(* sums of shares.                                                         *)
LineInt ==
    [live : BOOLEAN, number : Nat, subtotal : Nat, mass : Nat, freight : Int,
     capitalizable : Int, operating : Int, total : Int]
CostInt ==
    [live : BOOLEAN, amount : Nat, method : Methods, capitalizable : BOOLEAN,
     share : [Line -> Int]]

LinesOK(ln) ==
    /\ ln \in [Line -> LineInt]
    /\ \A l \in Line : ~ln[l].live => ln[l] = NoLine
CostsOK(co) ==
    /\ co \in [Cost -> CostInt]
    /\ \A c \in Cost : ~co[c].live => co[c].amount = 0 /\ co[c].capitalizable = FALSE

(* Nothing is allocated to a line that does not exist.                     *)
OnRows(ln, share) == \A l \in Line \ Rows(ln) : share[l] = 0

LEMMA NoLineRow ==
    /\ NoLine \in LineInt
    /\ NoLine.live = FALSE /\ NoLine.number = 0 /\ NoLine.subtotal = 0 /\ NoLine.mass = 0
    /\ NoLine.freight = 0 /\ NoLine.capitalizable = 0
    /\ NoLine.operating = 0 /\ NoLine.total = 0
BY DEF NoLine, LineInt

LEMMA SubtotalsNat ==
    ASSUME NEW ln, LinesOK(ln)
    PROVE  /\ Subtotals(ln) \in Nat /\ Masses(ln) \in Nat
           /\ \A l \in Line : ln[l].subtotal <= Subtotals(ln) /\ ln[l].mass <= Masses(ln)
           /\ Subtotals(ln) > 0 => Rows(ln) # {}
<1> DEFINE f == [l \in Line |-> ln[l].subtotal]
           g == [l \in Line |-> ln[l].mass]
<1>1. /\ f \in [Line -> Nat] /\ g \in [Line -> Nat] /\ f \in [Line -> Int]
      /\ \A l \in Line : f[l] = ln[l].subtotal /\ g[l] = ln[l].mass
    BY DEF LinesOK, LineInt
<1>2. Subtotals(ln) = SumFunction(f) /\ Masses(ln) = SumFunction(g)
    BY DEF Subtotals, Masses
<1>3. Rows(ln) = {} => \A l \in Line : f[l] = 0
    BY NoLineRow DEF LinesOK, Rows
<1> HIDE DEF f, g
<1>4. SumFunction(f) \in Nat /\ \A l \in Line : f[l] <= SumFunction(f)
    BY <1>1, BuyingFinite, SumFunNat
<1>5. SumFunction(g) \in Nat /\ \A l \in Line : g[l] <= SumFunction(g)
    BY <1>1, BuyingFinite, SumFunNat
<1>6. Rows(ln) = {} => SumFunction(f) = 0
    BY <1>1, <1>3, BuyingFinite, SumFunZero
<1> QED BY <1>1, <1>2, <1>4, <1>5, <1>6

LEMMA NoShareSum ==
    ASSUME NEW share \in [Line -> Int], \A l \in Line : share[l] = 0
    PROVE  Shares(share) = 0
BY BuyingFinite, SumFunZero DEF Shares

(* There are finitely many numbers of lines, so one of them is the last.   *)
LEMMA NumbersFinite ==
    ASSUME NEW ln, LinesOK(ln)
    PROVE  LET N == {ln[l].number : l \in Rows(ln)}
           IN  N \subseteq Nat /\ IsFiniteSet(N)
<1> DEFINE N == {ln[l].number : l \in Rows(ln)}
           onto == [l \in Rows(ln) |-> ln[l].number]
<1>1. Rows(ln) \subseteq Line
    BY DEF Rows
<1>2. N \subseteq Nat
    BY <1>1 DEF LinesOK, LineInt
<1>3. IsFiniteSet(Rows(ln))
    BY <1>1, BuyingFinite, FS_Subset
<1>4. onto \in Surjection(Rows(ln), N)
    BY DEF Surjection
<1> HIDE DEF onto, N
<1>5. IsFiniteSet(N)
    BY <1>3, <1>4, FS_Surjection
<1> QED BY <1>2, <1>5 DEF N

LEMMA LastIsARow ==
    ASSUME NEW ln, LinesOK(ln), Rows(ln) # {}
    PROVE  LastRow(ln) \in Rows(ln)
<1> DEFINE N == {ln[l].number : l \in Rows(ln)}
<1>1. N # {} /\ \A l \in Rows(ln) : ln[l].number \in N
    OBVIOUS
<1>2. N \subseteq Nat /\ IsFiniteSet(N)
    BY NumbersFinite
<1>3. \A n \in N : \E l \in Rows(ln) : ln[l].number = n
    OBVIOUS
<1> HIDE DEF N
<1>4. N \subseteq Int
    BY <1>2
<1>5. Max(N) \in N /\ \A n \in N : Max(N) >= n
    BY ONLY <1>1, <1>2, <1>4, GreatestOf
<1>6. PICK l \in Rows(ln) : ln[l].number = Max(N)
    BY <1>3, <1>5
<1>7. \A k \in Rows(ln) : ln[k].number <= ln[l].number
    BY <1>1, <1>2, <1>5, <1>6
<1> QED BY <1>6, <1>7 DEF LastRow

LEMMA NextNumberNat ==
    ASSUME NEW ln, LinesOK(ln)
    PROVE  NextNumber(ln) \in Nat
<1> DEFINE N == {ln[l].number : l \in Rows(ln)}
           M == {0} \cup N
<1>1. N \subseteq Nat /\ IsFiniteSet(N)
    BY NumbersFinite
<1> HIDE DEF N
<1>2. IsFiniteSet({0} \cup N)
    BY <1>1, FS_AddElement
<1>3. M \subseteq Int /\ M \subseteq Nat /\ IsFiniteSet(M) /\ M # {}
    BY <1>1, <1>2
<1> HIDE DEF M
<1>4. Max(M) \in M
    BY ONLY <1>3, GreatestOf
<1>5. Max(M) \in Nat
    BY <1>3, <1>4
<1>6. NextNumber(ln) = 1 + Max(M)
    BY DEF NextNumber, M, N
<1> QED BY <1>5, <1>6

(* Spreading loses and invents nothing, whatever the shares are rounded to: *)
(* the last line takes what the others leave.                              *)
LEMMA SpreadSum ==
    ASSUME NEW ln, LinesOK(ln), Rows(ln) # {},
           NEW amount \in Int, NEW share \in [Line -> Int]
    PROVE  /\ Spread(ln, amount, share) \in [Line -> Int]
           /\ Shares(Spread(ln, amount, share)) = amount
           /\ OnRows(ln, Spread(ln, amount, share))
<1>1. PICK x : x = LastRow(ln)
    OBVIOUS
<1>2. x \in Rows(ln) /\ x \in Line
    BY <1>1, LastIsARow DEF Rows
<1> DEFINE g == [k \in Line |-> IF k \in Rows(ln) \ {x} THEN share[k] ELSE 0]
           s == Spread(ln, amount, share)
<1>3. g \in [Line -> Int] /\ g[x] = 0
    BY <1>2
<1>4. PICK left : left = SumFunction(g)
    OBVIOUS
<1>5. /\ s = [l \in Line |-> s[l]]
      /\ \A l \in Line : l # x => s[l] = g[l]
      /\ s[x] = amount - left
      /\ \A l \in Line \ Rows(ln) : s[l] = 0
    <2>1. s = [l \in Line |->
                CASE l \notin Rows(ln) -> 0
                  [] l \in Rows(ln) \ {x} -> share[l]
                  [] OTHER -> amount - SumFunction([k \in Line |->
                                 IF k \in Rows(ln) \ {l} THEN share[k] ELSE 0])]
        BY <1>1 DEF Spread
    <2>2. ASSUME NEW l \in Line, l \notin Rows(ln)
          PROVE  s[l] = 0
        <3>1. s[l] = CASE l \notin Rows(ln) -> 0
                       [] l \in Rows(ln) \ {x} -> share[l]
                       [] OTHER -> amount - SumFunction([k \in Line |->
                              IF k \in Rows(ln) \ {l} THEN share[k] ELSE 0])
            BY <2>1
        <3> HIDE DEF s
        <3> QED BY <1>2, <2>2, <3>1
    <2>3. \A l \in Rows(ln) : l \in Line /\ (l # x => s[l] = share[l])
        BY <2>1 DEF Rows
    <2>4. s[x] = amount - SumFunction(g)
        BY <1>2, <2>1
    <2>5. s[x] = amount - left
        BY <1>4, <2>4
    <2>6. \A l \in Line : l # x => s[l] = g[l]
        BY <2>2, <2>3
    <2>7. s = [l \in Line |-> s[l]]
        BY <2>1
    <2> QED BY <2>2, <2>5, <2>6, <2>7
<1> HIDE DEF g, s
<1>6. left \in Int
    BY <1>3, <1>4, BuyingFinite, SumFunInt
<1>7. s \in [Line -> Int]
    BY <1>3, <1>5, <1>6
<1>8. SumFunction(s) = SumFunction(g) - g[x] + s[x]
    <2>1. \A l \in Line \ {x} : s[l] = g[l]
        BY <1>5
    <2> QED BY <1>2, <1>3, <1>7, <2>1, BuyingFinite, SumFunChange
<1>9. Shares(s) = amount
    BY <1>3, <1>4, <1>5, <1>6, <1>8 DEF Shares
<1> QED BY <1>5, <1>7, <1>9 DEF s, OnRows

LEMMA HalfEvenInt ==
    ASSUME NEW a \in Int, NEW b \in Nat, b > 0
    PROVE  HalfEven(a, b) \in Int
BY DEF HalfEven

LEMMA FreightSum ==
    ASSUME NEW ln, LinesOK(ln), NEW amount \in Nat
    PROVE  /\ FreightShares(ln, amount) \in [Line -> Int]
           /\ OnRows(ln, FreightShares(ln, amount))
           /\ Shares(FreightShares(ln, amount)) =
                IF Subtotals(ln) > 0 THEN amount ELSE 0
<1>1. Subtotals(ln) \in Nat
    BY SubtotalsNat
<1>2. CASE Subtotals(ln) = 0
    <2>1. FreightShares(ln, amount) = NoShares
        BY <1>2 DEF FreightShares
    <2>2. NoShares \in [Line -> Int] /\ \A l \in Line : NoShares[l] = 0
        BY DEF NoShares
    <2>3. Shares(NoShares) = 0
        BY <2>2, NoShareSum
    <2> QED BY <1>2, <2>1, <2>2, <2>3 DEF OnRows
<1>3. CASE Subtotals(ln) > 0
    <2> DEFINE share == [l \in Line |-> HalfEven(amount * ln[l].subtotal, Subtotals(ln))]
    <2>1. ASSUME NEW l \in Line
          PROVE  HalfEven(amount * ln[l].subtotal, Subtotals(ln)) \in Int
        <3>1. ln[l].subtotal \in Nat
            BY DEF LinesOK, LineInt
        <3>2. amount * ln[l].subtotal \in Int
            BY <3>1
        <3> QED BY <1>1, <1>3, <3>2, HalfEvenInt
    <2>2. share \in [Line -> Int]
        BY <2>1
    <2>3. FreightShares(ln, amount) = Spread(ln, amount, share)
        BY <1>1, <1>3 DEF FreightShares
    <2>4. Rows(ln) # {} /\ amount \in Int
        BY <1>3, SubtotalsNat
    <2> HIDE DEF share
    <2> QED BY <1>3, <2>2, <2>3, <2>4, SpreadSum
<1> QED BY <1>1, <1>2, <1>3

(* A cost is allocated in full, by whatever method.                        *)
LEMMA AllocatedSum ==
    ASSUME NEW ln, LinesOK(ln), NEW c \in CostInt,
           Allocatable(ln, c), OnRows(ln, c.share)
    PROVE  /\ Allocated(ln, c) \in [Line -> Int]
           /\ OnRows(ln, Allocated(ln, c))
           /\ Shares(Allocated(ln, c)) = c.amount
<1>1. /\ c.share \in [Line -> Int] /\ c.amount \in Nat
      /\ c.method \in {"line_value", "weight", "manual"}
    BY DEF CostInt, Methods
<1>2. CASE Rows(ln) = {}
    <2>1. c.amount = 0 /\ Allocated(ln, c) = c.share
        BY <1>2 DEF Allocatable, Allocated
    <2>2. \A l \in Line : c.share[l] = 0
        BY <1>2 DEF OnRows
    <2> QED BY <1>1, <2>1, <2>2, NoShareSum
<1>3. CASE Rows(ln) # {} /\ c.method = "manual"
    BY <1>1, <1>3 DEF Allocatable, Allocated
<1>4. CASE Rows(ln) # {} /\ c.method \in {"line_value", "weight"}
    <2> DEFINE share == [l \in Line |-> IF c.method = "line_value"
                                THEN (c.amount * ln[l].subtotal) \div Subtotals(ln)
                                ELSE (c.amount * ln[l].mass) \div Masses(ln)]
    <2>1. Allocated(ln, c) = Spread(ln, c.amount, share)
        BY <1>4 DEF Allocated
    <2>2. \A l \in Line : c.amount * ln[l].subtotal \in Int /\ c.amount * ln[l].mass \in Int
        <3>1. \A l \in Line : ln[l].subtotal \in Nat /\ ln[l].mass \in Nat
            BY DEF LinesOK, LineInt
        <3> QED BY <1>1, <3>1
    <2>3. share \in [Line -> Int]
        <3>1. CASE c.method = "line_value"
            <4>1. Subtotals(ln) \in Nat /\ Subtotals(ln) > 0
                BY <1>4, <3>1, SubtotalsNat DEF Allocatable
            <4> QED BY <2>2, <3>1, <4>1
        <3>2. CASE c.method = "weight"
            <4>1. PICK l \in Line : ln[l].mass > 0
                BY <1>4, <3>2 DEF Allocatable, Rows
            <4>2. ln[l].mass \in Nat
                BY DEF LinesOK, LineInt
            <4>3. Masses(ln) \in Nat /\ Masses(ln) > 0
                BY <4>1, <4>2, SubtotalsNat
            <4> QED BY <2>2, <3>2, <4>3
        <3> QED BY <1>4, <3>1, <3>2
    <2> HIDE DEF share
    <2> QED BY <1>1, <1>4, <2>1, <2>3, SpreadSum
<1> QED BY <1>1, <1>2, <1>3, <1>4

-----------------------------------------------------------------------------
(* What the recomputation leaves: lines that carry the shares of the costs, *)
(* and costs that are allocated in full.                                   *)
Carries(ln, co) ==
    \A l \in Line : ln[l].live =>
        /\ ln[l].capitalizable = Carried(co, l, TRUE)
        /\ ln[l].operating = Carried(co, l, FALSE)
        /\ ln[l].total = ln[l].subtotal + ln[l].freight + ln[l].capitalizable + ln[l].operating

SharedOut(ln, co) ==
    \A c \in Costs(co) :
        Shares(co[c].share) = co[c].amount /\ OnRows(ln, co[c].share)

LEMMA CarriedInt ==
    ASSUME NEW co, CostsOK(co), NEW l \in Line, NEW cap \in BOOLEAN
    PROVE  Carried(co, l, cap) \in Int
<1> DEFINE f == [c \in Cost |->
        IF co[c].live /\ co[c].capitalizable = cap THEN co[c].share[l] ELSE 0]
<1>1. f \in [Cost -> Int]
    <2>1. ASSUME NEW c \in Cost
          PROVE  co[c].share[l] \in Int
        BY DEF CostsOK, CostInt
    <2>2. \A c \in Cost : f[c] = co[c].share[l] \/ f[c] = 0
        BY Zenon
    <2>3. \A c \in Cost : f[c] \in Int
        BY <2>1, <2>2
    <2>4. f = [c \in Cost |-> f[c]]
        OBVIOUS
    <2> HIDE DEF f
    <2> QED BY <2>3, <2>4
<1>2. Carried(co, l, cap) = SumFunction(f)
    BY DEF Carried
<1> HIDE DEF f
<1> QED BY <1>1, <1>2, BuyingFinite, SumFunInt

LEMMA Reallocation ==
    ASSUME NEW ln, LinesOK(ln), NEW co, CostsOK(co),
           \A c \in Costs(co) : OnRows(ln, co[c].share) /\ Allocatable(ln, co[c])
    PROVE  /\ CostsOK(Reallocated(ln, co))
           /\ SharedOut(ln, Reallocated(ln, co))
<1> DEFINE new == Reallocated(ln, co)
<1>1. ASSUME NEW c \in Cost, ~co[c].live
      PROVE  new[c] = co[c]
    BY <1>1 DEF Reallocated
<1>2. ASSUME NEW c \in Cost, co[c].live
      PROVE  /\ new[c] \in CostInt /\ new[c].live /\ new[c].amount = co[c].amount
             /\ Shares(new[c].share) = new[c].amount
             /\ OnRows(ln, new[c].share)
    <2>1. PICK share : share = Allocated(ln, co[c])
        OBVIOUS
    <2>2. co[c] \in CostInt /\ OnRows(ln, co[c].share) /\ Allocatable(ln, co[c])
        BY <1>2 DEF CostsOK, Costs
    <2>3. share \in [Line -> Int] /\ OnRows(ln, share) /\ Shares(share) = co[c].amount
        BY <2>1, <2>2, AllocatedSum
    <2>4. new[c] = [co[c] EXCEPT !.share = share]
        BY <1>2, <2>1 DEF Reallocated
    <2>5. new[c].live = co[c].live /\ new[c].amount = co[c].amount /\ new[c].share = share
        BY <2>2, <2>4 DEF CostInt
    <2>6. new[c] \in CostInt
        BY <2>2, <2>3, <2>4 DEF CostInt
    <2> QED BY <1>2, <2>3, <2>5, <2>6
<1>3. new = [c \in Cost |-> new[c]]
    BY DEF Reallocated
<1> HIDE DEF new
<1>4. CostsOK(new)
    BY <1>1, <1>2, <1>3 DEF CostsOK
<1>5. SharedOut(ln, new)
    BY <1>1, <1>2 DEF SharedOut, Costs
<1> QED BY <1>4, <1>5 DEF new

(* The lines of the recomputation are the lines it was given, with shares. *)
Reshared(ln, new, freight) ==
    \A l \in Line :
        /\ new[l].live = ln[l].live
        /\ new[l].subtotal = ln[l].subtotal
        /\ ln[l].live => new[l].freight = freight[l]

LEMMA ResharedLines ==
    ASSUME NEW ln, LinesOK(ln), NEW co, CostsOK(co),
           NEW freight \in [Line -> Int]
    PROVE  /\ LinesOK(WithShares(ln, freight, co))
           /\ Carries(WithShares(ln, freight, co), co)
           /\ Reshared(ln, WithShares(ln, freight, co), freight)
<1> DEFINE new == WithShares(ln, freight, co)
<1>1. ASSUME NEW l \in Line, ~ln[l].live
      PROVE  new[l] = NoLine /\ ln[l] = NoLine
    BY <1>1 DEF WithShares, LinesOK
<1>2. ASSUME NEW l \in Line, ln[l].live
      PROVE  /\ new[l] \in LineInt /\ new[l].live
             /\ new[l].subtotal = ln[l].subtotal /\ new[l].freight = freight[l]
             /\ new[l].capitalizable = Carried(co, l, TRUE)
             /\ new[l].operating = Carried(co, l, FALSE)
             /\ new[l].total = new[l].subtotal + new[l].freight + new[l].capitalizable + new[l].operating
    <2>1. PICK cap \in Int, op \in Int, f \in Int :
              /\ cap = Carried(co, l, TRUE) /\ op = Carried(co, l, FALSE)
              /\ f = freight[l]
        BY CarriedInt
    <2>2. ln[l] \in LineInt
        BY DEF LinesOK
    <2>3. new[l] = [ln[l] EXCEPT !.freight = f, !.capitalizable = cap, !.operating = op,
                                 !.total = ln[l].subtotal + f + cap + op]
        BY <1>2, <2>1 DEF WithShares
    <2>4. ln[l].subtotal + f + cap + op \in Int
        <3>1. PICK sub \in Nat : sub = ln[l].subtotal
            BY <2>2 DEF LineInt
        <3>2. sub + f + cap + op \in Int
            OBVIOUS
        <3> QED BY <3>1, <3>2
    <2>5. new[l] \in LineInt
        BY <2>1, <2>2, <2>3, <2>4 DEF LineInt
    <2>6. /\ new[l].live = ln[l].live /\ new[l].subtotal = ln[l].subtotal /\ new[l].freight = f
          /\ new[l].capitalizable = cap /\ new[l].operating = op
          /\ new[l].total = ln[l].subtotal + f + cap + op
        BY <2>2, <2>3 DEF LineInt
    <2> QED BY <1>2, <2>1, <2>5, <2>6
<1>3. new = [l \in Line |-> new[l]]
    BY DEF WithShares
<1> HIDE DEF new
<1>4. LinesOK(new)
    BY <1>1, <1>2, <1>3, NoLineRow DEF LinesOK
<1>5. Carries(new, co)
    BY <1>1, <1>2, NoLineRow DEF Carries
<1>6. Reshared(ln, new, freight)
    <2> SUFFICES ASSUME NEW l \in Line
                 PROVE  /\ new[l].live = ln[l].live /\ new[l].subtotal = ln[l].subtotal
                        /\ ln[l].live => new[l].freight = freight[l]
        BY DEF Reshared
    <2>1. ln[l] \in LineInt /\ new[l] \in LineInt
        BY <1>4 DEF LinesOK
    <2>2. ln[l].live \in BOOLEAN /\ new[l].live \in BOOLEAN
        BY <2>1 DEF LineInt
    <2>3. CASE ln[l].live
        <3>1. new[l].live = ln[l].live
            BY <1>2, <2>2, <2>3, Zenon
        <3> QED BY <1>2, <2>3, <3>1
    <2>4. CASE ~ln[l].live
        BY <1>1, <2>4
    <2> QED BY <2>3, <2>4
<1> QED BY <1>4, <1>5, <1>6 DEF new

(* The sums of two lists of lines that differ in shares only.              *)
LEMMA ResharedRows ==
    ASSUME NEW ln, NEW new, NEW freight, Reshared(ln, new, freight)
    PROVE  Rows(new) = Rows(ln) /\ Subtotals(new) = Subtotals(ln)
<1>1. Rows(new) = Rows(ln)
    BY DEF Rows, Reshared
<1>2. [l \in Line |-> new[l].subtotal] = [l \in Line |-> ln[l].subtotal]
    BY DEF Reshared
<1> QED BY <1>1, <1>2 DEF Subtotals

LEMMA ResharedFreight ==
    ASSUME NEW ln, LinesOK(ln), NEW new, LinesOK(new),
           NEW freight \in [Line -> Int], OnRows(ln, freight), Reshared(ln, new, freight)
    PROVE  [l \in Line |-> new[l].freight] = freight
<1>1. ASSUME NEW l \in Line
      PROVE  new[l].freight = freight[l]
    <2>1. CASE ln[l].live
        BY <2>1 DEF Reshared
    <2>2. CASE ~ln[l].live
        <3>1. freight[l] = 0
            BY <2>2 DEF OnRows, Rows
        <3>2. ~new[l].live
            BY <2>2 DEF Reshared
        <3>3. new[l].freight = 0
            BY <3>2, NoLineRow DEF LinesOK
        <3> QED BY <3>1, <3>3
    <2> QED BY <2>1, <2>2
<1> QED BY <1>1

-----------------------------------------------------------------------------
(* Transactions.  An edit names a line that exists; an update holds it.    *)
EditRow ==
    [op : LineEdits \cup {"none", "header", "cost"}, written : BOOLEAN, number : Nat,
     line : Line \cup {NoLineId}, subtotal : Nat, mass : Nat, shipping : Nat \cup {NoShipping},
     seen : SUBSET Line, goods : Nat, freight : [Line -> Int], costs : [Cost -> CostInt]]

Names(e, ln) ==
    /\ e.op # "shipping" => e.line \in Line
    /\ e.op = "update" => e.line \in Rows(ln)

(* What a transaction computed: the shares of an edit are the freight it    *)
(* read, if the lines it read have a value; the costs of a change are       *)
(* shared out over the lines there are.                                     *)
WorkedOut(e, ln) ==
    /\ e.op \in {"none", "header"} => ~e.written
    /\ e.op \in LineEdits /\ e.written =>
          /\ Names(e, ln)
          /\ Shares(e.freight) = IF e.goods > 0 THEN Value(e.shipping) ELSE 0
          /\ \A l \in Line \ e.seen : e.freight[l] = 0
    /\ e.op = "cost" => e.written /\ CostsOK(e.costs) /\ SharedOut(ln, e.costs)

(* While the costs are changed, no line comes or goes.                     *)
Undisturbed(ed) ==
    \A r, o \in Request : ed[r].op = "cost" /\ ed[o].written => ed[o].op \notin {"add", "delete"}

EditsOK ==
    /\ editing \in [Request -> EditRow]
    /\ \A r \in Request : WorkedOut(editing[r], line)
    /\ Undisturbed(editing)

(* The lines and the costs.                                                *)
RowsAgree ==
    /\ LinesOK(line)
    /\ CostsOK(cost)
    /\ SharedOut(line, cost)
    /\ Carries(line, cost)

BuyingInv ==
    /\ status \in {"none", "draft", "posted", "gone"}
    /\ shipping \in Nat \cup {NoShipping}
    /\ RowsAgree
    /\ FreightAllocated
    /\ EditsOK
    /\ status = "none" => Costs(cost) = {} /\ \A r \in Request : editing[r] = NoEdit

LEMMA NoEditRow ==
    ASSUME NEW ln
    PROVE  /\ NoEdit \in EditRow /\ NoEdit.op = "none" /\ NoEdit.written = FALSE
           /\ NoEdit.number = 0 /\ WorkedOut(NoEdit, ln)
<1>1. NoCost \in CostInt
    BY DEF NoCost, NoShares, CostInt, Methods
<1>2. NoCosts \in [Cost -> CostInt] /\ NoShares \in [Line -> Int]
    BY <1>1 DEF NoCosts, NoShares
<1>3. NoEdit \in EditRow
    BY <1>2 DEF NoEdit, EditRow, LineEdits
<1>4. NoEdit.op = "none" /\ NoEdit.written = FALSE /\ NoEdit.number = 0
    BY DEF NoEdit
<1>5. WorkedOut(NoEdit, ln)
    BY <1>4 DEF WorkedOut, LineEdits
<1> QED BY <1>3, <1>4, <1>5

LEMMA CostsRecomputed ==
    ASSUME NEW ln, LinesOK(ln), NEW co, CostsOK(co),
           \A c \in Costs(co) : OnRows(ln, co[c].share),
           NEW freight \in [Line -> Int],
           RecomputeCosts(ln, freight, co)
    PROVE  /\ RowsAgree'
           /\ Rows(line') = Rows(ln)
           /\ Subtotals(line') = Subtotals(ln)
           /\ OnRows(ln, freight) => FreightBorne' = SumFunction(freight)
<1>1. PICK new : new = Reallocated(ln, co)
    OBVIOUS
<1>2. PICK written : written = WithShares(ln, freight, new)
    OBVIOUS
<1>3. line' = written /\ cost' = new
    BY <1>1, <1>2 DEF RecomputeCosts
<1>4. CostsOK(new) /\ SharedOut(ln, new)
    BY <1>1, Reallocation DEF RecomputeCosts, AllAllocatable
<1>5. LinesOK(written) /\ Carries(written, new) /\ Reshared(ln, written, freight)
    BY <1>2, <1>4, ResharedLines
<1>6. Rows(written) = Rows(ln) /\ Subtotals(written) = Subtotals(ln)
    BY <1>5, ResharedRows
<1>7. SharedOut(written, new)
    BY <1>4, <1>6 DEF SharedOut, OnRows
<1>8. ASSUME OnRows(ln, freight)
      PROVE  FreightBorne' = SumFunction(freight)
    <2>1. [l \in Line |-> written[l].freight] = freight
        BY <1>5, <1>8, ResharedFreight
    <2> QED BY <1>3, <2>1 DEF FreightBorne
<1> QED BY <1>3, <1>4, <1>5, <1>6, <1>7, <1>8 DEF RowsAgree

LEMMA NewLineRow ==
    ASSUME NEW n \in Nat, NEW s \in Nat, NEW m \in Nat
    PROVE  /\ NewLine(n, s, m) \in LineInt
           /\ NewLine(n, s, m).live = TRUE /\ NewLine(n, s, m).subtotal = s
           /\ NewLine(n, s, m).freight = 0 /\ NewLine(n, s, m).capitalizable = 0
           /\ NewLine(n, s, m).operating = 0 /\ NewLine(n, s, m).total = s
BY DEF NewLine, LineInt

LEMMA RenumberedRows ==
    ASSUME NEW ln, LinesOK(ln)
    PROVE  LinesOK(Renumbered(ln)) /\ Rows(Renumbered(ln)) = Rows(ln)
<1> DEFINE before(l) == {k \in Rows(ln) : ln[k].number <= ln[l].number}
           new == Renumbered(ln)
<1>1. ASSUME NEW l \in Line
      PROVE  Cardinality(before(l)) \in Nat
    <2>1. before(l) \subseteq Line
        BY DEF Rows
    <2>2. IsFiniteSet(before(l))
        BY <2>1, BuyingFinite, FS_Subset
    <2> HIDE DEF before
    <2> QED BY <2>2, FS_CardinalityType
<1>2. ASSUME NEW l \in Line, ln[l].live
      PROVE  new[l] \in LineInt /\ new[l].live
    <2>1. new[l] = [ln[l] EXCEPT !.number = Cardinality(before(l))]
        BY <1>2 DEF Renumbered
    <2>2. ln[l] \in LineInt
        BY DEF LinesOK
    <2>3. PICK n \in Nat : n = Cardinality(before(l))
        BY <1>1
    <2> HIDE DEF before, new
    <2>4. new[l] = [ln[l] EXCEPT !.number = n]
        BY <2>1, <2>3
    <2>5. new[l] \in LineInt /\ new[l].live = ln[l].live
        BY <2>2, <2>4 DEF LineInt
    <2> QED BY <1>2, <2>5
<1>3. ASSUME NEW l \in Line, ~ln[l].live
      PROVE  new[l] = NoLine
    BY <1>3 DEF Renumbered
<1>4. new = [l \in Line |-> new[l]]
    BY DEF Renumbered
<1> HIDE DEF new
<1>5. LinesOK(new)
    BY <1>2, <1>3, <1>4, NoLineRow DEF LinesOK
<1>6. Rows(new) = Rows(ln)
    BY <1>2, <1>3, NoLineRow DEF Rows
<1> QED BY <1>5, <1>6 DEF new

(* What a transaction sees of the lines.                                   *)
LEMMA WithOwnRows ==
    ASSUME LinesOK(line), NEW e \in EditRow, e.op \in LineEdits, Names(e, line)
    PROVE  /\ LinesOK(WithOwn(e))
           /\ e.op = "delete" => Rows(WithOwn(e)) = Rows(line) \ {e.line}
           /\ e.op # "delete" => Rows(line) \subseteq Rows(WithOwn(e))
           /\ e.op \in {"update", "shipping"} => Rows(WithOwn(e)) = Rows(line)
<1>0. /\ e.number \in Nat /\ e.subtotal \in Nat /\ e.mass \in Nat
      /\ e.op \in {"add", "update", "delete", "shipping"}
    BY DEF EditRow, LineEdits
<1>1. CASE e.op = "add"
    <2>1. PICK newRow : newRow = NewLine(e.number, e.subtotal, e.mass)
        OBVIOUS
    <2>2. newRow \in LineInt /\ newRow.live = TRUE
        BY <1>0, <2>1, NewLineRow
    <2>3. e.line \in Line
        BY <1>1 DEF Names
    <2>4. WithOwn(e) = [line EXCEPT ![e.line] = newRow]
        BY <1>1, <2>1 DEF WithOwn
    <2> QED BY <1>1, <2>2, <2>3, <2>4 DEF LinesOK, Rows
<1>2. CASE e.op = "update"
    <2>1. e.line \in Line /\ line[e.line].live
        BY <1>2 DEF Names, Rows
    <2>2. PICK newRow : newRow = [line[e.line] EXCEPT !.subtotal = e.subtotal, !.mass = e.mass]
        OBVIOUS
    <2>3. line[e.line] \in LineInt
        BY <2>1 DEF LinesOK
    <2>4. newRow \in LineInt /\ newRow.live = line[e.line].live
        BY <1>0, <2>2, <2>3 DEF LineInt
    <2>5. newRow.live
        BY <2>1, <2>4
    <2>6. WithOwn(e) = [line EXCEPT ![e.line] = newRow]
        <3>1. WithOwn(e) = [line EXCEPT ![e.line].subtotal = e.subtotal, ![e.line].mass = e.mass]
            BY <1>2 DEF WithOwn
        <3> QED BY <2>1, <2>2, <3>1 DEF LinesOK
    <2>7. PICK ln : ln = WithOwn(e)
        OBVIOUS
    <2>8. \A l \in Line : ln[l] = IF l = e.line THEN newRow ELSE line[l]
        BY <2>6, <2>7 DEF LinesOK
    <2>9. LinesOK(ln)
        BY <2>4, <2>5, <2>6, <2>7, <2>8 DEF LinesOK
    <2>10. Rows(ln) = Rows(line)
        BY <2>1, <2>5, <2>8 DEF Rows
    <2> QED BY <1>2, <2>7, <2>9, <2>10
<1>3. CASE e.op = "delete"
    <2>1. PICK ln : ln = [line EXCEPT ![e.line] = NoLine]
        OBVIOUS
    <2>2. e.line \in Line
        BY <1>3 DEF Names
    <2>3. LinesOK(ln) /\ Rows(ln) = Rows(line) \ {e.line}
        BY <2>1, <2>2, NoLineRow DEF LinesOK, Rows
    <2>4. WithOwn(e) = Renumbered(ln)
        BY <1>3, <2>1 DEF WithOwn
    <2> QED BY <1>3, <2>3, <2>4, RenumberedRows
<1>4. CASE e.op = "shipping"
    BY <1>4 DEF WithOwn
<1> QED BY <1>0, <1>1, <1>2, <1>3, <1>4

-----------------------------------------------------------------------------
LEMMA NoCostRow ==
    /\ NoCost \in CostInt /\ NoCost.live = FALSE
    /\ NoCost.amount = 0 /\ NoCost.capitalizable = FALSE
BY DEF NoCost, NoShares, CostInt, Methods

(* No lines bear nothing.                                                  *)
LEMMA NothingAllocated ==
    /\ LinesOK([l \in Line |-> NoLine])
    /\ Carries([l \in Line |-> NoLine], NoCosts)
    /\ CostsOK(NoCosts) /\ Costs(NoCosts) = {} /\ SharedOut([l \in Line |-> NoLine], NoCosts)
    /\ SumFunction([l \in Line |-> ([k \in Line |-> NoLine])[l].freight]) = 0
<1>1. PICK ln : ln = [l \in Line |-> NoLine]
    OBVIOUS
<1>2. PICK co : co = NoCosts
    OBVIOUS
<1>3. LinesOK(ln) /\ Carries(ln, co)
    BY <1>1, NoLineRow DEF LinesOK, Carries
<1>4. CostsOK(co) /\ Costs(co) = {}
    BY <1>2, NoCostRow DEF CostsOK, Costs, NoCosts
<1>5. SharedOut(ln, co)
    BY <1>4 DEF SharedOut
<1>6. PICK freight : freight = [l \in Line |-> ln[l].freight]
    OBVIOUS
<1>7. freight \in [Line -> Int] /\ \A l \in Line : freight[l] = 0
    BY <1>1, <1>6, NoLineRow
<1>8. SumFunction(freight) = 0
    BY <1>7, BuyingFinite, SumFunZero
<1> QED BY <1>1, <1>2, <1>3, <1>4, <1>5, <1>6, <1>8

LEMMA BuyingInit ==
    ASSUME DraftInit
    PROVE  BuyingInv
<1>1. /\ line = [l \in Line |-> NoLine] /\ cost = NoCosts /\ status = "none"
      /\ shipping = NoShipping /\ editing = [r \in Request |-> NoEdit]
    BY DEF DraftInit
<1>2. RowsAgree /\ Costs(cost) = {}
    BY <1>1, NothingAllocated DEF RowsAgree
<1>3. FreightBorne = 0
    BY <1>1, NothingAllocated DEF FreightBorne
<1>4. FreightAllocated
    BY <1>1, <1>3 DEF FreightAllocated, FreightDue, Value
<1>5. EditsOK
    <2>1. \A r \in Request : editing[r] = NoEdit
        BY <1>1
    <2>2. PICK none : none = NoEdit
        OBVIOUS
    <2>3. none \in EditRow /\ none.op = "none" /\ WorkedOut(none, line)
        BY <2>2, NoEditRow
    <2>4. editing \in [Request -> EditRow]
        BY <1>1, <2>2, <2>3
    <2> QED BY <2>1, <2>2, <2>3, <2>4 DEF EditsOK, Undisturbed
<1> QED BY <1>1, <1>2, <1>4, <1>5 DEF BuyingInv

(* A draft exists while a transaction is open.                             *)
LEMMA OpenEdit ==
    ASSUME BuyingInv, NEW r \in Request, editing[r].op # "none"
    PROVE  status # "none"
<1>1. editing[r] # NoEdit
    BY NoEditRow
<1> QED BY <1>1 DEF BuyingInv

(* A step of one transaction.                                              *)
LEMMA EditStep ==
    ASSUME EditsOK, NEW r \in Request, NEW e \in EditRow,
           editing' = [editing EXCEPT ![r] = e],
           WorkedOut(e, line'),
           \A o \in Request : o # r => WorkedOut(editing[o], line'),
           \A o \in Request : o # r /\ editing[o].op = "cost" /\ e.written => e.op \notin {"add", "delete"},
           \A o \in Request : o # r /\ e.op = "cost" /\ editing[o].written => editing[o].op \notin {"add", "delete"}
    PROVE  EditsOK'
<1>1. \A o \in Request : editing'[o] = IF o = r THEN e ELSE editing[o]
    BY DEF EditsOK
<1>2. editing' \in [Request -> EditRow]
    BY DEF EditsOK
<1>3. \A o \in Request : WorkedOut(editing'[o], line')
    BY <1>1
<1>4. Undisturbed(editing')
    <2> SUFFICES ASSUME NEW o \in Request, NEW p \in Request, editing'[o].op = "cost", editing'[p].written
                 PROVE  editing'[p].op \notin {"add", "delete"}
        BY DEF Undisturbed
    <2>1. CASE o = r /\ p = r
        BY <1>1, <2>1
    <2>2. CASE o = r /\ p # r
        BY <1>1, <2>2
    <2>3. CASE o # r /\ p = r
        BY <1>1, <2>3
    <2>4. CASE o # r /\ p # r
        BY <1>1, <2>4 DEF EditsOK, Undisturbed
    <2> QED BY <2>1, <2>2, <2>3, <2>4
<1> QED BY <1>2, <1>3, <1>4 DEF EditsOK

(* What was computed stays right when the same lines are there.            *)
LEMMA StaysWorkedOut ==
    ASSUME NEW e, NEW ln, NEW new, WorkedOut(e, ln), Rows(new) = Rows(ln)
    PROVE  WorkedOut(e, new)
BY DEF WorkedOut, Names, SharedOut, OnRows

(* A step that leaves the rows alone.                                      *)
LEMMA BuyingAside ==
    ASSUME BuyingInv, EditsOK', UNCHANGED <<line, shipping, cost, settled>>,
           status' # "none", status' \in {"none", "draft", "posted", "gone"}
    PROVE  BuyingInv'
BY DEF BuyingInv, RowsAgree, LinesOK, CostsOK, SharedOut, Carries, FreightAllocated, FreightDue,
       FreightBorne

(* A transaction ends, or goes on without a write.                         *)
LEMMA BuyingUnwritten ==
    ASSUME BuyingInv, NEW r \in Request, NEW e \in EditRow,
           e.op # "cost", ~e.written,
           editing' = [editing EXCEPT ![r] = e],
           UNCHANGED <<line, shipping, cost, settled>>, UNCHANGED status, status # "none"
    PROVE  BuyingInv'
<1>1. EditsOK
    BY DEF BuyingInv
<1>2. WorkedOut(e, line)
    BY DEF WorkedOut
<1>3. \A o \in Request : WorkedOut(editing[o], line)
    BY <1>1 DEF EditsOK
<1>4. EditsOK'
    BY <1>1, <1>2, <1>3, EditStep
<1> QED BY <1>4, BuyingAside DEF BuyingInv

LEMMA NoCostsCarried ==
    ASSUME NEW co, CostsOK(co), Costs(co) = {}, NEW l \in Line, NEW cap \in BOOLEAN
    PROVE  Carried(co, l, cap) = 0
<1> DEFINE f == [c \in Cost |->
        IF co[c].live /\ co[c].capitalizable = cap THEN co[c].share[l] ELSE 0]
<1>1. f \in [Cost -> Int] /\ \A c \in Cost : f[c] = 0
    BY DEF Costs
<1>2. Carried(co, l, cap) = SumFunction(f)
    BY DEF Carried
<1> HIDE DEF f
<1> QED BY <1>1, <1>2, BuyingFinite, SumFunZero

LEMMA BuyingCreate ==
    ASSUME BuyingInv, NEW L \in SUBSET Line, NEW n \in [Line -> Nat], NEW s \in [Line -> Subtotal],
           NEW m \in [Line -> Mass], NEW sh \in Freight \cup {NoShipping},
           CreateDraft(L, n, s, m, sh)
    PROVE  BuyingInv'
<1>1. PICK ln : ln = [l \in Line |-> IF l \in L THEN NewLine(n[l], s[l], m[l]) ELSE NoLine]
    OBVIOUS
<1>2. ASSUME NEW l \in Line
      PROVE  /\ ln[l] \in LineInt /\ ln[l].freight = 0
             /\ ln[l].capitalizable = 0 /\ ln[l].operating = 0 /\ ln[l].total = ln[l].subtotal
             /\ ~ln[l].live => ln[l] = NoLine
    <2>1. s[l] \in Nat /\ m[l] \in Nat /\ n[l] \in Nat
        BY CentsAssumption
    <2>2. CASE l \in L
        <3>1. PICK number, subtotal, mass : number = n[l] /\ subtotal = s[l] /\ mass = m[l]
            OBVIOUS
        <3>2. number \in Nat /\ subtotal \in Nat /\ mass \in Nat
            BY <2>1, <3>1
        <3>3. PICK newRow : newRow = NewLine(number, subtotal, mass)
            OBVIOUS
        <3>4. /\ newRow \in LineInt /\ newRow.live = TRUE /\ newRow.subtotal = subtotal
              /\ newRow.freight = 0 /\ newRow.capitalizable = 0 /\ newRow.operating = 0
              /\ newRow.total = subtotal
            BY <3>2, <3>3 DEF NewLine, LineInt
        <3>5. ln[l] = newRow
            BY <1>1, <2>2, <3>1, <3>3
        <3> QED BY <3>4, <3>5
    <2>3. CASE l \notin L
        <3>1. ln[l] = NoLine
            BY <1>1, <2>3
        <3> QED BY <3>1, NoLineRow
    <2> QED BY <2>2, <2>3
<1>3. LinesOK(ln)
    BY <1>1, <1>2 DEF LinesOK
<1>4. Costs(cost) = {} /\ CostsOK(cost) /\ EditsOK /\ \A r \in Request : editing[r] = NoEdit
    BY DEF BuyingInv, RowsAgree, CreateDraft
<1>5. sh \in Nat \cup {NoShipping} /\ shipping' = sh /\ status' = "draft" /\ UNCHANGED editing
    BY CentsAssumption DEF CreateDraft
<1>6. RowsAgree' /\ FreightAllocated'
  <2>1. CASE sh # NoShipping
    <3>1. sh \in Nat /\ Value(sh) = sh /\ Value(shipping') = sh
        BY <1>5, <2>1 DEF Value
    <3>2. PICK freight : freight = FreightShares(ln, sh)
        OBVIOUS
    <3>3. /\ freight \in [Line -> Int] /\ OnRows(ln, freight)
          /\ SumFunction(freight) = IF Subtotals(ln) > 0 THEN sh ELSE 0
        BY <1>3, <3>1, <3>2, FreightSum DEF Shares
    <3>4. PICK co : co = cost
        OBVIOUS
    <3>5. RecomputeCosts(ln, freight, co)
        BY <1>1, <2>1, <3>1, <3>2, <3>4 DEF CreateDraft
    <3>6. RowsAgree' /\ Subtotals(line') = Subtotals(ln) /\ FreightBorne' = SumFunction(freight)
        BY <1>3, <1>4, <3>3, <3>4, <3>5, CostsRecomputed
    <3> QED BY <3>1, <3>3, <3>6 DEF FreightAllocated, FreightDue
  <2>2. CASE sh = NoShipping
    <3>1. line' = ln /\ cost' = cost
        BY <1>1, <2>2 DEF CreateDraft
    <3>2. Carries(ln, cost)
        <4> SUFFICES ASSUME NEW l \in Line
                     PROVE  /\ ln[l].capitalizable = Carried(cost, l, TRUE)
                            /\ ln[l].operating = Carried(cost, l, FALSE)
                            /\ ln[l].total = ln[l].subtotal + ln[l].freight
                                               + ln[l].capitalizable + ln[l].operating
            BY DEF Carries
        <4>1. ln[l].subtotal \in Nat
            BY <1>2 DEF LineInt
        <4>2. Carried(cost, l, TRUE) = 0 /\ Carried(cost, l, FALSE) = 0
            BY <1>4, NoCostsCarried
        <4>3. ln[l].capitalizable = 0 /\ ln[l].operating = 0 /\ ln[l].freight = 0
              /\ ln[l].total = ln[l].subtotal
            BY <1>2
        <4>4. ln[l].total = ln[l].subtotal + ln[l].freight + ln[l].capitalizable + ln[l].operating
            BY <4>1, <4>3
        <4> QED BY <4>2, <4>3, <4>4, Zenon
    <3>3. PICK freight : freight = [l \in Line |-> ln[l].freight]
        OBVIOUS
    <3>4. freight \in [Line -> Int] /\ \A l \in Line : freight[l] = 0
        BY <1>2, <3>3
    <3>5. SumFunction(freight) = 0
        BY <3>4, BuyingFinite, SumFunZero
    <3>6. FreightAllocated'
        BY <1>5, <2>2, <3>1, <3>3, <3>5 DEF FreightAllocated, FreightBorne, FreightDue, Value
    <3>7. SharedOut(ln, cost)
        BY <1>4 DEF SharedOut
    <3> QED BY <1>3, <1>4, <3>1, <3>2, <3>6, <3>7 DEF RowsAgree
  <2> QED BY <2>1, <2>2
<1>7. EditsOK'
    <2>1. \A r \in Request : WorkedOut(editing[r], line')
        BY <1>4, NoEditRow
    <2> QED BY <1>4, <1>5, <2>1 DEF EditsOK, Undisturbed
<1> QED BY <1>5, <1>6, <1>7 DEF BuyingInv

(* An edit writes its row and computes the shares of the freight it read.   *)
LEMMA BuyingWritten ==
    ASSUME BuyingInv, NEW r \in Request, NEW e \in EditRow,
           e.op \in LineEdits, Names(e, line), e.op \in {"add", "delete"} => NoCostChange,
           WritesAndReads(r, e)
    PROVE  BuyingInv'
<1>1. EditsOK /\ LinesOK(line)
    BY DEF BuyingInv, RowsAgree
<1>2. PICK ln : ln = WithOwn(e)
    OBVIOUS
<1>3. LinesOK(ln)
    BY <1>1, <1>2, WithOwnRows
<1>4. PICK amount \in Nat : amount = Value(e.shipping)
    BY DEF EditRow, Value
<1>5. PICK freight : freight = FreightShares(ln, amount)
    OBVIOUS
<1>6. PICK goods : goods = Subtotals(ln)
    OBVIOUS
<1>7. PICK seen : seen = Rows(ln)
    OBVIOUS
<1>8. /\ freight \in [Line -> Int] /\ \A l \in Line \ seen : freight[l] = 0
      /\ Shares(freight) = IF goods > 0 THEN amount ELSE 0
      /\ goods \in Nat /\ seen \in SUBSET Line
    <2>1. OnRows(ln, freight)
        BY <1>3, <1>5, FreightSum
    <2>2. seen \in SUBSET Line
        BY <1>7 DEF Rows
    <2> QED BY <1>3, <1>5, <1>6, <1>7, <2>1, <2>2, FreightSum, SubtotalsNat DEF OnRows
<1>9. PICK new : new = [e EXCEPT !.written = TRUE, !.seen = seen, !.goods = goods, !.freight = freight]
    OBVIOUS
<1>10. editing' = [editing EXCEPT ![r] = new]
    BY <1>2, <1>4, <1>5, <1>6, <1>7, <1>9 DEF WritesAndReads
<1>11. /\ new \in EditRow /\ new.op = e.op /\ new.line = e.line /\ new.shipping = e.shipping
       /\ new.freight = freight /\ new.goods = goods /\ new.seen = seen /\ new.written = TRUE
    BY <1>8, <1>9 DEF EditRow
<1>12. WorkedOut(new, line)
    <2>1. Names(new, line)
        BY <1>11 DEF Names
    <2>2. new.op \notin {"none", "header", "cost"}
        BY <1>11 DEF LineEdits
    <2>3. Shares(new.freight) = IF new.goods > 0 THEN Value(new.shipping) ELSE 0
        BY <1>4, <1>8, <1>11
    <2>4. \A l \in Line \ new.seen : new.freight[l] = 0
        BY <1>8, <1>11
    <2> QED BY <2>1, <2>2, <2>3, <2>4 DEF WorkedOut
<1>13. \A o \in Request : WorkedOut(editing[o], line)
    BY <1>1 DEF EditsOK
<1>14. UNCHANGED <<status, line, shipping, cost, settled>>
    BY DEF WritesAndReads
<1>15. \A o \in Request : editing[o].op = "cost" => new.op \notin {"add", "delete"}
    BY <1>11 DEF NoCostChange, ChangesCosts
<1>16. new.op # "cost"
    BY <1>11 DEF LineEdits
<1>17. EditsOK'
    <2>1. WorkedOut(new, line') /\ \A o \in Request : WorkedOut(editing[o], line')
        BY <1>12, <1>13, <1>14
    <2>2. new \in EditRow
        BY <1>11
    <2> QED BY <1>1, <1>10, <1>15, <1>16, <2>1, <2>2, EditStep
<1>18. editing[r].op # "none"
    BY DEF WritesAndReads, LineEdits
<1>19. status # "none"
    BY <1>18, OpenEdit
<1> QED BY <1>14, <1>17, <1>19, BuyingAside DEF BuyingInv

LEMMA BuyingWrites ==
    ASSUME BuyingInv, NEW r \in Request,
           \/ \E l \in Line, s \in Subtotal, m \in Mass : WriteAdded(r, l, s, m) \/ WriteUpdated(r, l, s, m)
           \/ \E l \in Line : WriteDeleted(r, l)
           \/ \E amount \in Freight : WriteShipping(r, amount)
    PROVE  BuyingInv'
<1>0. EditsOK /\ shipping \in Nat \cup {NoShipping}
    BY DEF BuyingInv
<1>1. ASSUME NEW l \in Line, NEW s \in Subtotal, NEW m \in Mass, WriteAdded(r, l, s, m)
      PROVE  BuyingInv'
    <2>1. PICK e : e = [editing[r] EXCEPT !.op = "add", !.line = l, !.subtotal = s, !.mass = m,
                                          !.shipping = shipping]
        OBVIOUS
    <2>2. editing[r] \in EditRow /\ s \in Nat /\ m \in Nat
        BY <1>0, CentsAssumption DEF EditsOK
    <2>3. e \in EditRow /\ e.op = "add" /\ e.line = l
        BY <1>0, <2>1, <2>2 DEF EditRow, LineEdits
    <2>4. WritesAndReads(r, e) /\ NoCostChange
        BY <1>1, <2>1 DEF WriteAdded
    <2>5. Names(e, line) /\ e.op \in LineEdits
        BY <2>3 DEF Names, LineEdits
    <2> QED BY <2>3, <2>4, <2>5, BuyingWritten
<1>2. ASSUME NEW l \in Line, NEW s \in Subtotal, NEW m \in Mass, WriteUpdated(r, l, s, m)
      PROVE  BuyingInv'
    <2>1. PICK e : e = [NoEdit EXCEPT !.op = "update", !.line = l, !.subtotal = s, !.mass = m,
                                      !.shipping = shipping]
        OBVIOUS
    <2>2. s \in Nat /\ m \in Nat
        BY CentsAssumption
    <2>3. e \in EditRow /\ e.op = "update" /\ e.line = l
        BY <1>0, <2>1, <2>2, NoEditRow DEF EditRow, LineEdits
    <2>4. WritesAndReads(r, e) /\ l \in Rows(line)
        BY <1>2, <2>1 DEF WriteUpdated
    <2>5. Names(e, line) /\ e.op \in LineEdits
        BY <2>3, <2>4 DEF Names, LineEdits
    <2> QED BY <2>3, <2>4, <2>5, BuyingWritten
<1>3. ASSUME NEW l \in Line, WriteDeleted(r, l)
      PROVE  BuyingInv'
    <2>1. PICK e : e = [NoEdit EXCEPT !.op = "delete", !.line = l, !.shipping = shipping]
        OBVIOUS
    <2>2. e \in EditRow /\ e.op = "delete" /\ e.line = l
        BY <1>0, <2>1, NoEditRow DEF EditRow, LineEdits
    <2>3. WritesAndReads(r, e) /\ NoCostChange
        BY <1>3, <2>1 DEF WriteDeleted
    <2>4. Names(e, line) /\ e.op \in LineEdits
        BY <2>2 DEF Names, LineEdits
    <2> QED BY <2>2, <2>3, <2>4, BuyingWritten
<1>4. ASSUME NEW amount \in Freight, WriteShipping(r, amount)
      PROVE  BuyingInv'
    <2>1. PICK e : e = [NoEdit EXCEPT !.op = "shipping", !.shipping = amount]
        OBVIOUS
    <2>2. amount \in Nat
        BY CentsAssumption
    <2>3. e \in EditRow /\ e.op = "shipping"
        BY <2>1, <2>2, NoEditRow DEF EditRow, LineEdits
    <2>4. WritesAndReads(r, e)
        BY <1>4, <2>1 DEF WriteShipping
    <2>5. Names(e, line) /\ e.op \in LineEdits
        BY <2>3 DEF Names, LineEdits
    <2> QED BY <2>3, <2>4, <2>5, BuyingWritten
<1> QED BY <1>1, <1>2, <1>3, <1>4

-----------------------------------------------------------------------------
(* An edit that ends updates the rows it is alone to hold.                 *)
LEMMA AloneOnLines ==
    ASSUME EditsOK, NEW r \in Request, LinesFree(r), NEW o \in Request, o # r, editing[o].written
    PROVE  editing[o].op # "update" /\ (editing[o].op = "delete" => Rows(line) = {})
<1>1. LinesHeld(o) = {}
    BY DEF LinesFree, Others
<1> QED BY <1>1 DEF LinesHeld

(* The costs when a line goes.                                             *)
Without(co, l) == [c \in Cost |-> [co[c] EXCEPT !.share[l] = 0]]

LEMMA CostsWithout ==
    ASSUME NEW ln, NEW co, CostsOK(co), SharedOut(ln, co), NEW l \in Line,
           NEW new, Rows(new) = Rows(ln) \ {l}
    PROVE  /\ CostsOK(Without(co, l))
           /\ Costs(Without(co, l)) = Costs(co)
           /\ \A c \in Costs(co) : OnRows(new, Without(co, l)[c].share)
<1> DEFINE left == Without(co, l)
<1>0. left = [c \in Cost |-> left[c]] /\ \A c \in Cost : left[c] = [co[c] EXCEPT !.share[l] = 0]
    BY DEF Without
<1> HIDE DEF left
<1>1. ASSUME NEW c \in Cost
      PROVE  /\ left[c] \in CostInt /\ left[c].live = co[c].live /\ left[c].amount = co[c].amount
             /\ left[c].capitalizable = co[c].capitalizable
             /\ left[c].share[l] = 0
             /\ \A k \in Line : k # l => left[c].share[k] = co[c].share[k]
    <2>1. co[c] \in CostInt
        BY DEF CostsOK
    <2>2. PICK share : share = [co[c].share EXCEPT ![l] = 0]
        OBVIOUS
    <2>3. share \in [Line -> Int] /\ share[l] = 0 /\ \A k \in Line : k # l => share[k] = co[c].share[k]
        BY <2>1, <2>2 DEF CostInt
    <2>4. left[c] = [co[c] EXCEPT !.share = share]
        BY <1>0, <2>1, <2>2 DEF CostInt
    <2> QED BY <2>1, <2>3, <2>4 DEF CostInt
<1>2. CostsOK(left)
    BY <1>0, <1>1 DEF CostsOK
<1>3. Costs(left) = Costs(co)
    BY <1>1 DEF Costs
<1>4. ASSUME NEW c \in Costs(co)
      PROVE  OnRows(new, left[c].share)
    <2>1. c \in Cost
        BY DEF Costs
    <2>2. OnRows(ln, co[c].share)
        BY DEF SharedOut
    <2> QED BY <1>1, <2>1, <2>2 DEF OnRows
<1> QED BY <1>2, <1>3, <1>4 DEF left

LEMMA BuyingFinished ==
    ASSUME BuyingInv, NEW r \in Request, FinishEdit(r)
    PROVE  BuyingInv'
<1>1. PICK e : e = editing[r]
    OBVIOUS
<1>2. /\ e \in EditRow /\ e.written /\ e.op \in LineEdits
      /\ EditsOK /\ RowsAgree /\ LinesFree(r)
    BY <1>1 DEF BuyingInv, EditsOK, FinishEdit
<1>3. WorkedOut(e, line)
    BY <1>1, <1>2 DEF EditsOK
<1>4. Names(e, line)
    BY <1>2, <1>3 DEF WorkedOut
<1>5. PICK ln : ln = WithOwn(e)
    OBVIOUS
<1>6. /\ LinesOK(ln)
      /\ e.op = "delete" => Rows(ln) = Rows(line) \ {e.line}
      /\ e.op # "delete" => Rows(line) \subseteq Rows(ln)
      /\ e.op \in {"update", "shipping"} => Rows(ln) = Rows(line)
    BY <1>2, <1>4, <1>5, WithOwnRows DEF RowsAgree
<1>7. PICK freight : freight = [l \in Line |-> IF l \in e.seen THEN e.freight[l] ELSE ln[l].freight]
    OBVIOUS
<1>8. freight \in [Line -> Int]
    <2>1. \A l \in Line : e.freight[l] \in Int /\ ln[l].freight \in Int
        BY <1>2, <1>6 DEF EditRow, LinesOK, LineInt
    <2> QED BY <1>7, <2>1
<1>9. PICK co : co = IF e.op = "delete"
              THEN [c \in Cost |-> [cost[c] EXCEPT !.share[e.line] = 0]] ELSE cost
    OBVIOUS
<1>10. CostsOK(co) /\ Costs(co) = Costs(cost) /\ \A c \in Costs(co) : OnRows(ln, co[c].share)
    <2>1. CostsOK(cost) /\ SharedOut(line, cost)
        BY <1>2 DEF RowsAgree
    <2>2. CASE e.op = "delete"
        <3>1. e.line \in Line
            BY <1>4, <2>2 DEF Names
        <3>2. Rows(ln) = Rows(line) \ {e.line}
            BY <1>6, <2>2
        <3>3. co = [c \in Cost |-> [cost[c] EXCEPT !.share[e.line] = 0]]
            BY <1>9, <2>2
        <3>4. PICK gone \in Line : gone = e.line
            BY <3>1
        <3>5. PICK old, lines : old = cost /\ lines = line
            OBVIOUS
        <3>6. Rows(ln) = Rows(lines) \ {gone}
            BY <3>2, <3>4, <3>5
        <3>7. co = Without(old, gone)
            BY <3>3, <3>4, <3>5 DEF Without
        <3>8. CostsOK(old) /\ SharedOut(lines, old)
            BY <2>1, <3>5
        <3>9. CostsOK(co) /\ Costs(co) = Costs(old) /\ \A c \in Costs(co) : OnRows(ln, co[c].share)
            BY <3>6, <3>7, <3>8, CostsWithout
        <3> QED BY <3>5, <3>9
    <2>3. CASE e.op # "delete"
        <3>1. co = cost
            BY <1>9, <2>3
        <3> QED BY <1>6, <2>1, <2>3, <3>1 DEF OnRows, SharedOut
    <2> QED BY <2>2, <2>3
<1>11. /\ RecomputeCosts(ln, freight, co)
       /\ shipping' = IF e.op = "shipping" THEN e.shipping ELSE shipping
       /\ settled' = (e.seen = Rows(line') /\ e.shipping = shipping' /\ (e.goods > 0 <=> Subtotals(line') > 0))
       /\ editing' = [editing EXCEPT ![r] = NoEdit]
       /\ UNCHANGED status
    BY <1>1, <1>5, <1>7, <1>9 DEF FinishEdit
<1>12. /\ RowsAgree' /\ Rows(line') = Rows(ln)
       /\ OnRows(ln, freight) => FreightBorne' = SumFunction(freight)
    BY <1>6, <1>8, <1>10, <1>11, CostsRecomputed
<1>13. FreightAllocated'
    <2> SUFFICES ASSUME settled'
                 PROVE  FreightBorne' = FreightDue'
        BY DEF FreightAllocated
    <2>1. e.seen = Rows(ln) /\ e.shipping = shipping' /\ (e.goods > 0 <=> Subtotals(line') > 0)
        BY <1>11, <1>12
    <2>2. \A l \in Line \ e.seen : e.freight[l] = 0 /\ ln[l].freight = 0
        <3>1. \A l \in Line \ e.seen : e.freight[l] = 0
            BY <1>2, <1>3 DEF WorkedOut
        <3>2. \A l \in Line \ e.seen : ln[l] = NoLine
            BY <1>6, <2>1 DEF LinesOK, Rows
        <3> QED BY <3>1, <3>2, NoLineRow
    <2>3. freight = e.freight
        <3>1. e.freight \in [Line -> Int]
            BY <1>2 DEF EditRow
        <3> QED BY <1>7, <2>2, <3>1
    <2>4. OnRows(ln, freight)
        BY <2>1, <2>2, <2>3 DEF OnRows
    <2>5. SumFunction(freight) = IF e.goods > 0 THEN Value(e.shipping) ELSE 0
        BY <1>2, <1>3, <2>3 DEF WorkedOut, Shares
    <2> QED BY <1>12, <2>1, <2>4, <2>5 DEF FreightDue
<1>14. EditsOK'
    <2>1. PICK none : none = NoEdit
        OBVIOUS
    <2>2. none \in EditRow /\ none.op = "none" /\ none.written = FALSE /\ WorkedOut(none, line')
        BY <2>1, NoEditRow
    <2>3. ASSUME NEW o \in Request, o # r
          PROVE  WorkedOut(editing[o], line')
        <3>1. WorkedOut(editing[o], line) /\ editing[o] \in EditRow
            BY <1>2 DEF EditsOK
        <3>2. CASE editing[o].op = "cost"
            <4>1. e.op \notin {"add", "delete"}
                BY <1>1, <1>2, <3>2 DEF EditsOK, Undisturbed
            <4>2. Rows(line') = Rows(line)
                BY <1>2, <1>6, <1>12, <4>1 DEF LineEdits
            <4> QED BY <3>1, <4>2, StaysWorkedOut
        <3>3. CASE editing[o].op \in LineEdits /\ editing[o].written
            <4>1. editing[o].op # "update"
                BY <1>2, <2>3, <3>3, AloneOnLines
            <4> QED BY <3>1, <3>3, <4>1 DEF WorkedOut, Names, LineEdits
        <3>4. CASE editing[o].op # "cost" /\ ~(editing[o].op \in LineEdits /\ editing[o].written)
            BY <3>1, <3>4 DEF WorkedOut
        <3> QED BY <3>2, <3>3, <3>4
    <2>4. editing' = [editing EXCEPT ![r] = none]
        BY <1>11, <2>1
    <2> QED BY <1>2, <2>2, <2>3, <2>4, EditStep
<1>15. shipping' \in Nat \cup {NoShipping}
    BY <1>2, <1>11 DEF BuyingInv, EditRow
<1>16. status # "none"
    <2>1. editing[r].op # "none"
        BY <1>1, <1>2 DEF LineEdits
    <2> QED BY <2>1, OpenEdit
<1> QED BY <1>11, <1>12, <1>13, <1>14, <1>15, <1>16 DEF BuyingInv

-----------------------------------------------------------------------------
(* A change of the costs.                                                  *)
LEMMA BuyingCostsRead ==
    ASSUME BuyingInv, NEW r \in Request, NEW co, CostsOK(co),
           \A c \in Costs(co) : OnRows(line, co[c].share), ChangeCosts(r, co)
    PROVE  BuyingInv'
<1>1. EditsOK /\ LinesOK(line)
    BY DEF BuyingInv, RowsAgree
<1>2. PICK new : new = Reallocated(line, co)
    OBVIOUS
<1>3. CostsOK(new) /\ SharedOut(line, new)
    <2>1. PICK ln : ln = line
        OBVIOUS
    <2> QED BY <1>1, <1>2, <2>1, Reallocation DEF ChangeCosts, AllAllocatable
<1>4. PICK e : e = [NoEdit EXCEPT !.op = "cost", !.written = TRUE, !.costs = new]
    OBVIOUS
<1>5. e \in EditRow /\ e.op = "cost" /\ e.costs = new /\ e.written
    BY <1>3, <1>4, NoEditRow DEF EditRow, CostsOK
<1>6. WorkedOut(e, line)
    BY <1>3, <1>5 DEF WorkedOut, LineEdits
<1>7. editing' = [editing EXCEPT ![r] = e] /\ UNCHANGED <<status, line, shipping, cost, settled>>
      /\ status = "draft"
    BY <1>2, <1>4 DEF ChangeCosts
<1>8. \A o \in Request : editing[o].written => editing[o].op \notin {"add", "delete"}
    BY DEF ChangeCosts, PurchaseFree, RefersToPurchase
<1>9. \A o \in Request : WorkedOut(editing[o], line)
    BY <1>1 DEF EditsOK
<1>10. EditsOK'
    BY <1>1, <1>5, <1>6, <1>7, <1>8, <1>9, EditStep
<1> QED BY <1>7, <1>10, BuyingAside DEF BuyingInv

LEMMA BuyingCosts ==
    ASSUME BuyingInv, NEW r \in Request, NEW c \in Cost,
           \/ \E amount \in Amount, method \in Methods, capitalizable \in BOOLEAN :
                \E share \in [Line -> 0 .. amount] :
                    AddCost(r, c, amount, method, capitalizable, share)
           \/ DeleteCost(r, c)
    PROVE  BuyingInv'
<1>1. \E newRow \in CostInt :
        /\ newRow.live => OnRows(line, newRow.share)
        /\ ~newRow.live => newRow.amount = 0 /\ newRow.capitalizable = FALSE
        /\ ChangeCosts(r, [cost EXCEPT ![c] = newRow])
    <2>1. CASE \E amount \in Amount, method \in Methods, capitalizable \in BOOLEAN :
                \E share \in [Line -> 0 .. amount] :
                    AddCost(r, c, amount, method, capitalizable, share)
        <3>0. PICK amount \in Amount, method \in Methods, capitalizable \in BOOLEAN :
                \E share \in [Line -> 0 .. amount] :
                    AddCost(r, c, amount, method, capitalizable, share)
            BY <2>1
        <3>1. PICK share \in [Line -> 0 .. amount] :
                  AddCost(r, c, amount, method, capitalizable, share)
            BY <3>0
        <3>2. PICK newRow : newRow = [live |-> TRUE, amount |-> amount, method |-> method,
                                capitalizable |-> capitalizable, share |-> share]
            OBVIOUS
        <3>3. amount \in Nat /\ share \in [Line -> Int]
            BY CentsAssumption
        <3>4. newRow \in CostInt /\ newRow.live = TRUE /\ newRow.share = share
            BY <3>2, <3>3 DEF CostInt
        <3>5. OnRows(line, share)
            BY <3>1 DEF AddCost, OnRows
        <3> QED BY <3>1, <3>2, <3>4, <3>5 DEF AddCost
    <2>2. CASE DeleteCost(r, c)
        BY <2>2, NoCostRow DEF DeleteCost
    <2> QED BY <2>1, <2>2
<1>2. PICK newRow \in CostInt :
        /\ newRow.live => OnRows(line, newRow.share)
        /\ ~newRow.live => newRow.amount = 0 /\ newRow.capitalizable = FALSE
        /\ ChangeCosts(r, [cost EXCEPT ![c] = newRow])
    BY <1>1
<1>3. PICK co : co = [cost EXCEPT ![c] = newRow]
    OBVIOUS
<1>4. CostsOK(co) /\ \A d \in Cost : co[d] = IF d = c THEN newRow ELSE cost[d]
    BY <1>2, <1>3 DEF BuyingInv, RowsAgree, CostsOK
<1>5. ASSUME NEW d \in Costs(co)
      PROVE  OnRows(line, co[d].share)
    <2>1. d \in Cost /\ co[d].live
        BY DEF Costs
    <2>2. CASE d = c
        BY <1>2, <1>4, <2>1, <2>2
    <2>3. CASE d # c
        BY <1>4, <2>1, <2>3 DEF BuyingInv, RowsAgree, SharedOut, Costs
    <2> QED BY <2>2, <2>3
<1> QED BY <1>2, <1>3, <1>4, <1>5, BuyingCostsRead

(* The costs are written, and the freight of the lines is left as it is.   *)
LEMMA BuyingCostsWritten ==
    ASSUME BuyingInv, NEW r \in Request, FinishCosts(r)
    PROVE  BuyingInv'
<1>1. PICK e : e = editing[r]
    OBVIOUS
<1>2. e \in EditRow /\ e.op = "cost" /\ EditsOK /\ LinesOK(line) /\ LinesFree(r)
    BY <1>1 DEF BuyingInv, EditsOK, RowsAgree, FinishCosts
<1>3. CostsOK(e.costs) /\ SharedOut(line, e.costs)
    BY <1>1, <1>2 DEF EditsOK, WorkedOut
<1>4. PICK freight : freight = [l \in Line |-> line[l].freight]
    OBVIOUS
<1>5. freight \in [Line -> Int] /\ OnRows(line, freight)
    <2>1. freight \in [Line -> Int]
        BY <1>2, <1>4 DEF LinesOK, LineInt
    <2>2. OnRows(line, freight)
        BY <1>2, <1>4, NoLineRow DEF LinesOK, OnRows, Rows
    <2> QED BY <2>1, <2>2
<1>6. PICK old, co : old = line /\ co = e.costs
    OBVIOUS
<1>7. PICK new : new = WithShares(old, freight, co)
    OBVIOUS
<1>8. LinesOK(new) /\ Carries(new, co) /\ Reshared(old, new, freight)
    BY <1>2, <1>3, <1>5, <1>6, <1>7, ResharedLines
<1>9. /\ Rows(new) = Rows(old) /\ Subtotals(new) = Subtotals(old)
      /\ [l \in Line |-> new[l].freight] = freight
    BY <1>2, <1>5, <1>6, <1>8, ResharedRows, ResharedFreight
<1>10. line' = new /\ cost' = co /\ UNCHANGED <<status, shipping, settled>>
       /\ editing' = [editing EXCEPT ![r] = NoEdit]
    BY <1>1, <1>4, <1>6, <1>7 DEF FinishCosts
<1>11. SharedOut(new, co)
    BY <1>3, <1>6, <1>9 DEF SharedOut, OnRows
<1>12. RowsAgree'
    BY <1>3, <1>6, <1>8, <1>10, <1>11 DEF RowsAgree
<1>13. FreightAllocated'
    BY <1>4, <1>6, <1>9, <1>10 DEF BuyingInv, FreightAllocated, FreightBorne, FreightDue
<1>14. \A o \in Request : WorkedOut(editing[o], line')
    BY <1>2, <1>6, <1>9, <1>10, StaysWorkedOut DEF EditsOK
<1>15. EditsOK'
    <2>1. PICK none : none = NoEdit
        OBVIOUS
    <2>2. none \in EditRow /\ none.op = "none" /\ none.written = FALSE /\ WorkedOut(none, line')
        BY <2>1, NoEditRow
    <2> QED BY <1>2, <1>10, <1>14, <2>1, <2>2, EditStep
<1>16. status # "none"
    BY <1>1, <1>2, OpenEdit
<1> QED BY <1>10, <1>12, <1>13, <1>15, <1>16 DEF BuyingInv

LEMMA BuyingDeleted ==
    ASSUME BuyingInv, DeleteDraft
    PROVE  BuyingInv'
<1>1. line' = [l \in Line |-> NoLine] /\ cost' = NoCosts
      /\ shipping' = NoShipping /\ status' = "gone" /\ UNCHANGED editing
      /\ \A r \in Request : ~editing[r].written
    BY DEF DeleteDraft
<1>2. RowsAgree'
    BY <1>1, NothingAllocated DEF RowsAgree
<1>3. FreightBorne' = 0
    BY <1>1, NothingAllocated DEF FreightBorne
<1>4. FreightAllocated'
    BY <1>1, <1>3 DEF FreightAllocated, FreightDue, Value
<1>5. EditsOK'
    BY <1>1 DEF BuyingInv, EditsOK, WorkedOut, Undisturbed
<1> QED BY <1>1, <1>2, <1>4, <1>5 DEF BuyingInv

(* Steps that write no rows: the first of an edit, and its end without one. *)
LEMMA BuyingOthers ==
    ASSUME BuyingInv, NEW r \in Request,
           \/ \E op \in LineEdits \cup {"header"} : BeginEdit(r, op)
           \/ NumberLine(r) \/ UpdateHeader(r) \/ Refused(r)
    PROVE  BuyingInv'
<1>1. EditsOK /\ LinesOK(line) /\ editing[r] \in EditRow /\ WorkedOut(editing[r], line)
    BY DEF BuyingInv, RowsAgree, EditsOK
<1>2. ASSUME NEW op \in LineEdits \cup {"header"}, BeginEdit(r, op)
      PROVE  BuyingInv'
    <2>1. PICK e : e = [editing[r] EXCEPT !.op = op]
        OBVIOUS
    <2>2. ~editing[r].written
        BY <1>1, <1>2 DEF BeginEdit, WorkedOut
    <2>3. e \in EditRow /\ ~e.written /\ e.op = op
        BY <1>1, <2>1, <2>2 DEF EditRow
    <2>4. editing' = [editing EXCEPT ![r] = e] /\ UNCHANGED <<line, shipping, cost, settled>>
          /\ UNCHANGED status /\ status = "draft"
        BY <1>1, <1>2, <2>1 DEF BeginEdit, EditsOK
    <2>5. e.op # "cost"
        BY <2>3 DEF LineEdits
    <2> QED BY <2>3, <2>4, <2>5, BuyingUnwritten
<1>3. CASE NumberLine(r)
    <2>1. PICK n \in Nat : n = NextNumber(line)
        BY <1>1, NextNumberNat
    <2>2. PICK e : e = [editing[r] EXCEPT !.number = n]
        OBVIOUS
    <2>3. /\ e \in EditRow /\ e.written = editing[r].written /\ e.op = "add" /\ editing[r].op = "add"
          /\ e.line = editing[r].line /\ e.freight = editing[r].freight
          /\ e.goods = editing[r].goods /\ e.seen = editing[r].seen
          /\ e.shipping = editing[r].shipping
        BY <1>1, <1>3, <2>2 DEF EditRow, NumberLine
    <2>4. editing' = [editing EXCEPT ![r] = e] /\ UNCHANGED <<line, shipping, cost, settled>>
          /\ UNCHANGED status
        BY <1>1, <1>3, <2>1, <2>2 DEF NumberLine, EditsOK
    <2>5. WorkedOut(e, line)
        BY <1>1, <2>3 DEF WorkedOut, Names
    <2>6. \A o \in Request : o # r /\ editing[o].op = "cost" /\ e.written => e.op \notin {"add", "delete"}
        BY <1>1, <2>3 DEF EditsOK, Undisturbed
    <2>7. \A o \in Request : WorkedOut(editing[o], line)
        BY <1>1 DEF EditsOK
    <2>8. EditsOK'
        BY <1>1, <2>3, <2>4, <2>5, <2>6, <2>7, EditStep
    <2>9. status # "none"
        BY <2>3, OpenEdit
    <2> QED BY <2>4, <2>8, <2>9, BuyingAside DEF BuyingInv
<1>4. CASE UpdateHeader(r) \/ Refused(r)
    <2>1. PICK none : none = NoEdit
        OBVIOUS
    <2>2. none \in EditRow /\ none.op # "cost" /\ ~none.written
        BY <2>1, NoEditRow
    <2>3. editing' = [editing EXCEPT ![r] = none] /\ UNCHANGED <<line, shipping, cost, settled>>
          /\ UNCHANGED status /\ editing[r].op # "none"
        BY <1>4, <2>1 DEF UpdateHeader, Refused
    <2>4. status # "none"
        BY <2>3, OpenEdit
    <2> QED BY <2>2, <2>3, <2>4, BuyingUnwritten
<1> QED BY <1>2, <1>3, <1>4

LEMMA BuyingPosted ==
    ASSUME BuyingInv, Post
    PROVE  BuyingInv'
<1>1. UNCHANGED <<line, shipping, cost, editing, settled>> /\ status' = "posted"
    BY DEF Post
<1>2. EditsOK'
    BY <1>1 DEF BuyingInv, EditsOK, WorkedOut, Names, SharedOut, OnRows, Rows, CostsOK, Undisturbed
<1> QED BY <1>1, <1>2, BuyingAside

LEMMA BuyingStep ==
    ASSUME BuyingInv, [DraftNext]_draftVars
    PROVE  BuyingInv'
<1>1. CASE UNCHANGED draftVars
    <2>1. UNCHANGED <<status, line, shipping, cost, editing, settled>>
        BY <1>1 DEF draftVars
    <2>2. EditsOK'
        BY <2>1 DEF BuyingInv, EditsOK, WorkedOut, Names, SharedOut, OnRows, Rows, CostsOK, Undisturbed
    <2>3. CASE status # "none"
        BY <2>1, <2>2, <2>3, BuyingAside DEF BuyingInv
    <2>4. CASE status = "none"
        <3>1. RowsAgree'
            BY <2>1 DEF BuyingInv, RowsAgree, LinesOK, CostsOK, SharedOut, Carries
        <3>2. FreightAllocated'
            BY <2>1 DEF BuyingInv, FreightAllocated, FreightDue, FreightBorne
        <3> QED BY <2>1, <2>2, <3>1, <3>2 DEF BuyingInv
    <2> QED BY <2>3, <2>4
<1>2. ASSUME NEW L \in SUBSET Line, NEW n \in [Line -> 0 .. Cardinality(Line)],
             NEW s \in [Line -> Subtotal], NEW m \in [Line -> Mass],
             NEW sh \in Freight \cup {NoShipping}, CreateDraft(L, n, s, m, sh)
      PROVE  BuyingInv'
    <2>1. n \in [Line -> Nat]
        OBVIOUS
    <2> QED BY <1>2, <2>1, BuyingCreate
<1>3. ASSUME NEW r \in Request,
             \/ \E op \in LineEdits \cup {"header"} : BeginEdit(r, op)
             \/ NumberLine(r) \/ UpdateHeader(r) \/ Refused(r)
      PROVE  BuyingInv'
    BY <1>3, BuyingOthers
<1>4. ASSUME NEW r \in Request,
             \/ \E l \in Line, s \in Subtotal, m \in Mass : WriteAdded(r, l, s, m) \/ WriteUpdated(r, l, s, m)
             \/ \E l \in Line : WriteDeleted(r, l)
             \/ \E amount \in Freight : WriteShipping(r, amount)
      PROVE  BuyingInv'
    BY <1>4, BuyingWrites
<1>5. ASSUME NEW r \in Request, FinishEdit(r) \/ FinishCosts(r)
      PROVE  BuyingInv'
    BY <1>5, BuyingFinished, BuyingCostsWritten
<1>6. ASSUME NEW r \in Request, NEW c \in Cost,
             \/ \E amount \in Amount, method \in Methods, capitalizable \in BOOLEAN :
                  \E share \in [Line -> 0 .. amount] :
                      AddCost(r, c, amount, method, capitalizable, share)
             \/ DeleteCost(r, c)
      PROVE  BuyingInv'
    BY <1>6, BuyingCosts
<1>7. ASSUME Post \/ DeleteDraft
      PROVE  BuyingInv'
    BY <1>7, BuyingPosted, BuyingDeleted
<1> QED BY <1>1, <1>2, <1>3, <1>4, <1>5, <1>6, <1>7 DEF DraftNext

(* The inductive invariant of the draft of a purchase.                     *)
THEOREM BuyingInvariant == DraftSpec => []BuyingInv
<1>1. DraftInit => BuyingInv
    BY BuyingInit
<1>2. BuyingInv /\ [DraftNext]_draftVars => BuyingInv'
    BY BuyingStep
<1> QED BY <1>1, <1>2, PTL DEF DraftSpec

(* No cent of the freight is lost or invented by rounding, unless the last *)
(* edit to commit was overtaken by another one.                            *)
THEOREM BuyingFreightAllocated == DraftSpec => []FreightAllocated
<1>1. BuyingInv => FreightAllocated
    BY DEF BuyingInv
<1> QED BY <1>1, BuyingInvariant, PTL

(* No cent of an additional cost is lost or invented by rounding.          *)
THEOREM BuyingCostsAllocated == DraftSpec => []CostsAllocated
<1>1. BuyingInv => CostsAllocated
    BY DEF BuyingInv, RowsAgree, SharedOut, OnRows, CostsAllocated
<1> QED BY <1>1, BuyingInvariant, PTL

(* The shares of the costs, summed by line or by cost.                     *)
LEMMA CarriedSum ==
    ASSUME NEW co, CostsOK(co), NEW ln, SharedOut(ln, co), NEW cap \in BOOLEAN
    PROVE  SumFunction([l \in Line |-> Carried(co, l, cap)])
             = SumFunction([c \in Cost |-> IF co[c].capitalizable = cap THEN co[c].amount ELSE 0])
<1> DEFINE counts(c) == co[c].live /\ co[c].capitalizable = cap
           f == [c \in Cost |-> [l \in Line |-> IF counts(c) THEN co[c].share[l] ELSE 0]]
           amounts == [c \in Cost |-> IF co[c].capitalizable = cap THEN co[c].amount ELSE 0]
<1>1. ASSUME NEW c \in Cost
      PROVE  /\ f[c] \in [Line -> Int]
             /\ SumFunction(f[c]) = amounts[c]
    <2>1. co[c] \in CostInt
        BY DEF CostsOK
    <2>2. co[c].share \in [Line -> Int] /\ co[c].amount \in Nat
        BY <2>1 DEF CostInt
    <2>3. CASE counts(c)
        <3>1. [l \in Line |-> IF counts(c) THEN co[c].share[l] ELSE 0] = co[c].share
            BY <2>2, <2>3
        <3>2. f[c] = co[c].share
            BY <3>1
        <3>3. Shares(co[c].share) = co[c].amount
            BY <2>3 DEF SharedOut, Costs
        <3>4. SumFunction(co[c].share) = co[c].amount
            BY <3>3 DEF Shares
        <3> QED BY <2>2, <2>3, <3>2, <3>4
    <2>4. CASE ~counts(c)
        <3>1. PICK z : z = [l \in Line |-> 0]
            OBVIOUS
        <3>2. f[c] = z
            BY <2>4, <3>1
        <3>3. z \in [Line -> Int] /\ \A l \in Line : z[l] = 0
            BY <3>1
        <3>4. SumFunction(z) = 0
            BY <3>3, BuyingFinite, SumFunZero
        <3>5. amounts[c] = 0
            BY <2>4 DEF CostsOK
        <3> QED BY <3>2, <3>3, <3>4, <3>5
    <2> QED BY <2>3, <2>4
<1>2. f \in [Cost -> [Line -> Int]]
    <2>1. f = [c \in Cost |-> f[c]]
        OBVIOUS
    <2> HIDE DEF f
    <2> QED BY <1>1, <2>1
<1>3. [c \in Cost |-> SumFunction(f[c])] = amounts
    BY <1>1
<1>4. [l \in Line |-> SumFunction([c \in Cost |-> f[c][l]])]
          = [l \in Line |-> Carried(co, l, cap)]
    <2>1. ASSUME NEW l \in Line
          PROVE  SumFunction([c \in Cost |-> f[c][l]]) = Carried(co, l, cap)
        <3>1. [c \in Cost |-> f[c][l]] =
                  [c \in Cost |-> IF co[c].live /\ co[c].capitalizable = cap THEN co[c].share[l] ELSE 0]
            OBVIOUS
        <3> HIDE DEF f
        <3> QED BY <3>1 DEF Carried
    <2> HIDE DEF f
    <2> QED BY <2>1
<1> HIDE DEF f, amounts
<1>5. SumFunction([c \in Cost |-> SumFunction(f[c])])
        = SumFunction([l \in Line |-> SumFunction([c \in Cost |-> f[c][l]])])
    BY <1>2, BuyingFinite, SumFunSwap
<1> QED BY <1>3, <1>4, <1>5 DEF amounts

(* A line that does not exist carries nothing.                             *)
LEMMA CarriedByRows ==
    ASSUME NEW co, CostsOK(co), NEW ln, SharedOut(ln, co),
           NEW l \in Line, l \notin Rows(ln), NEW cap \in BOOLEAN
    PROVE  Carried(co, l, cap) = 0
<1> DEFINE f == [c \in Cost |->
        IF co[c].live /\ co[c].capitalizable = cap THEN co[c].share[l] ELSE 0]
<1>1. \A c \in Cost : f[c] = 0
    BY DEF SharedOut, OnRows, Costs
<1>2. f \in [Cost -> Int]
    BY <1>1
<1>3. Carried(co, l, cap) = SumFunction(f)
    BY DEF Carried
<1> HIDE DEF f
<1> QED BY <1>1, <1>2, <1>3, BuyingFinite, SumFunZero

(* The stock a post takes in is worth what the purchase cost.              *)
LEMMA PostedAtCost ==
    ASSUME BuyingInv, Post
    PROVE  SumFunction(received') =
             Subtotals(line) + CapitalizableCosts + IF settled THEN FreightDue ELSE FreightBorne
<1>1. PICK sub : sub = [l \in Line |-> line[l].subtotal]
    OBVIOUS
<1>2. PICK fr : fr = [l \in Line |-> line[l].freight]
    OBVIOUS
<1>3. PICK cap : cap = [l \in Line |-> Carried(cost, l, TRUE)]
    OBVIOUS
<1>4. PICK goods : goods = [l \in Line |-> sub[l] + fr[l]]
    OBVIOUS
<1>5. PICK in : in = received'
    OBVIOUS
<1>6. LinesOK(line) /\ CostsOK(cost) /\ SharedOut(line, cost) /\ Carries(line, cost)
    BY DEF BuyingInv, RowsAgree
<1>7. sub \in [Line -> Int] /\ fr \in [Line -> Int]
    BY <1>1, <1>2, <1>6 DEF LinesOK, LineInt
<1>8. cap \in [Line -> Int]
    BY <1>3, <1>6, CarriedInt
<1>9. goods \in [Line -> Int]
    BY <1>4, <1>7
<1>10. in = [l \in Line |-> IF line[l].live
              THEN line[l].subtotal + line[l].freight + line[l].capitalizable ELSE 0]
    BY <1>5 DEF Post, LandedCost
<1>11. ASSUME NEW l \in Line
       PROVE  in[l] = goods[l] + cap[l]
    <2>1. goods[l] = line[l].subtotal + line[l].freight /\ cap[l] = Carried(cost, l, TRUE)
        BY <1>1, <1>2, <1>3, <1>4
    <2>2. CASE line[l].live
        BY <1>6, <1>10, <2>1, <2>2 DEF Carries
    <2>3. CASE ~line[l].live
        <3>1. Carried(cost, l, TRUE) = 0
            BY <1>6, <2>3, CarriedByRows DEF Rows
        <3>2. line[l].subtotal = 0 /\ line[l].freight = 0
            BY <1>6, <2>3, NoLineRow DEF LinesOK
        <3>3. in[l] = 0
            BY <1>10, <2>3, Zenon
        <3>4. goods[l] = 0
            BY <2>1, <3>2
        <3>5. cap[l] = 0
            BY <2>1, <3>1, Zenon
        <3> QED BY <3>3, <3>4, <3>5
    <2> QED BY <2>2, <2>3
<1>12. in \in [Line -> Int]
    <2>1. \A l \in Line : in[l] \in Int
        BY <1>8, <1>9, <1>11
    <2>2. in = [l \in Line |-> in[l]]
        BY <1>10
    <2> QED BY <2>1, <2>2
<1>13. SumFunction(in) = SumFunction(goods) + SumFunction(cap)
    BY <1>8, <1>9, <1>11, <1>12, BuyingFinite, SumFunPlus
<1>14. SumFunction(goods) = SumFunction(sub) + SumFunction(fr)
    <2>1. \A l \in Line : goods[l] = sub[l] + fr[l]
        BY <1>4
    <2> QED BY <1>7, <1>9, <2>1, BuyingFinite, SumFunPlus
<1>15. SumFunction(sub) = Subtotals(line)
    BY <1>1 DEF Subtotals
<1>16. SumFunction(fr) = IF settled THEN FreightDue ELSE FreightBorne
    BY <1>2 DEF BuyingInv, FreightAllocated, FreightBorne
<1>17. SumFunction(cap) = CapitalizableCosts
    <2>1. SumFunction(cap)
            = SumFunction([c \in Cost |-> IF cost[c].capitalizable = TRUE THEN cost[c].amount ELSE 0])
        BY <1>3, <1>6, CarriedSum
    <2>2. \A c \in Cost : cost[c].capitalizable \in BOOLEAN
        BY <1>6 DEF CostsOK, CostInt
    <2>3. [c \in Cost |-> IF cost[c].capitalizable = TRUE THEN cost[c].amount ELSE 0]
            = [c \in Cost |-> IF cost[c].capitalizable THEN cost[c].amount ELSE 0]
        BY <2>2
    <2> QED BY <2>1, <2>3 DEF CapitalizableCosts
<1>18. SumFunction(sub) \in Int /\ SumFunction(fr) \in Int /\ SumFunction(cap) \in Int
    BY <1>7, <1>8, BuyingFinite, SumFunInt
<1> QED BY <1>5, <1>13, <1>14, <1>15, <1>16, <1>17, <1>18

(* What a post puts into stock is worth what the purchase cost, its        *)
(* capitalizable costs and its freight included, or what the lines bear of *)
(* the freight when edits overtook each other.                             *)
THEOREM BuyingReceivedAtLandedCost == DraftSpec => ReceivedAtLandedCost
<1>1. BuyingInv /\ [DraftNext]_draftVars =>
        [status = "draft" /\ status' = "posted" =>
          SumFunction(received') = Subtotals(line) + CapitalizableCosts
                                     + IF settled THEN FreightDue ELSE FreightBorne]_draftVars
    <2> SUFFICES ASSUME BuyingInv, DraftNext, status = "draft", status' = "posted"
                 PROVE  Post
        BY PostedAtCost
    <2> QED BY DEF DraftNext, CreateDraft, BeginEdit, NumberLine, WriteAdded, WriteUpdated,
               WriteDeleted, WriteShipping, WritesAndReads, FinishEdit, UpdateHeader, Refused,
               AddCost, DeleteCost, ChangeCosts, FinishCosts, DeleteDraft
<1> QED BY <1>1, BuyingInvariant, PTL DEF ReceivedAtLandedCost, DraftSpec

=============================================================================
