----------------------------- MODULE SaleDraft -----------------------------
(***************************************************************************)
(* A draft sale edited by several clients while another posts or deletes   *)
(* it, statement by statement at READ COMMITTED.  The edits (add_line,     *)
(* update_line, delete_line, update_draft) read the sale without a lock    *)
(* and take row locks as their statements need them; post_sale and         *)
(* delete_draft lock the sale first.  A statement that meets a row lock    *)
(* waits; what a transaction wrote is seen by others when it commits.      *)
(*                                                                         *)
(* One sale; a line has unit price 1 and no discount of its own, so that   *)
(* its line_total is its quantity.                                         *)
(***************************************************************************)
EXTENDS Integers, FiniteSets, Functions

CONSTANTS
    Request,     \* requests served at the same time
    Line,        \* ids the sequence of "sale_lines" may give
    Quantity,    \* quantities a client may ask for
    Discount,    \* header discounts a client may ask for
    Opening,     \* lines the draft was created with: id -> quantity
    Operation    \* operations the clients use

ASSUME QuantityAssumption == Quantity \subseteq Nat \ {0}
ASSUME DiscountAssumption == Discount \subseteq Nat
ASSUME OpeningAssumption == DOMAIN Opening \subseteq Line /\ Opening \in [DOMAIN Opening -> Nat \ {0}]
ASSUME OperationAssumption ==
    Operation \subseteq {"add", "update", "delete", "discount", "post", "drop"}

VARIABLES
    status,     \* sales.lifecycle_status; "gone" when the draft is deleted
    total,      \* sales.total_amount
    discount,   \* sales.discount_amount
    quantity,   \* sale_lines.quantity, 0 when there is no row
    number,     \* sale_lines.line_number
    fresh,      \* ids the sequence has not given yet
    moved,      \* quantity taken by the 'sale' movement of a line
    txn,        \* the transaction of each request
    sum         \* the total a request is computing

vars == <<status, total, discount, quantity, number, fresh, moved, txn, sum>>

rows == <<status, total, discount, quantity, number, fresh, moved>>

NoRows == [l \in Line |-> 0]

(* doc: the strongest lock held on the sale; held: the lines it has locked. *)
Edit(op, pc, line, value, n) ==
    [op |-> op, pc |-> pc, line |-> line, value |-> value, number |-> n,
     read |-> NoRows, doc |-> "none", held |-> {}]

(* SELECT ... FOR UPDATE, then list_lines. *)
SaleLocked(op) ==
    [op |-> op, pc |-> "lines", line |-> {}, value |-> 0, number |-> 0,
     read |-> quantity, doc |-> "update", held |-> {}]

NoTxn == Edit("none", "start", {}, 0, 0)
Ended == Edit("none", "ended", {}, 0, 0)

Rows == {l \in Line : quantity[l] > 0}

LinesTotal(q) == SumFunctionOnSet(q, Line)

(* SELECT COALESCE(MAX(line_number), 0), plus 1 *)
IsNextNumber(n) == \A l \in Rows : number[l] < n

(* Row locks of PostgreSQL: FOR UPDATE (also DELETE), the one of an UPDATE   *)
(* that keeps the key, and the KEY SHARE a foreign key check takes.          *)
Conflicts(mode) ==
    CASE mode = "update" -> {"update", "nokey", "share"}
      [] mode = "nokey"  -> {"update", "nokey"}
      [] mode = "share"  -> {"update"}

DocHeldBy(o, mode) == txn[o].doc \in Conflicts(mode)
DocFree(r, mode) == \A o \in Request \ {r} : ~DocHeldBy(o, mode)
LineFree(r, l) == \A o \in Request \ {r} : l \notin txn[o].held

(* What r sees of the lines: the committed rows and its own write. *)
Seen(r) == [l \in Line |-> IF l \in txn[r].line THEN txn[r].value ELSE quantity[l]]

Inserted(o) == txn[o].op = "add" /\ txn[o].line # {}

(* Mutation: a transaction that ends keeps its lock on the sale. *)
ReleaseLinesOnly(r) ==
    /\ txn' = [txn EXCEPT ![r].pc = "ended", ![r].held = {}]
    /\ sum' = [sum EXCEPT ![r] = 0]

Release(r) ==
    /\ txn' = [txn EXCEPT ![r] = Ended]
    /\ sum' = [sum EXCEPT ![r] = 0]

-----------------------------------------------------------------------------
(* The first read of each operation: SELECT without a lock for the edits.   *)

Starts(r, op) ==
    /\ txn[r].pc = "start"
    /\ op \in Operation
    /\ status = "draft"
    /\ UNCHANGED <<rows, sum>>

StartAdd(r, q) ==
    /\ Starts(r, "add")
    /\ \E n \in {1} \cup {number[l] + 1 : l \in Rows} :
        /\ IsNextNumber(n)
        /\ txn' = [txn EXCEPT ![r] = Edit("add", "insert", {}, q, n)]

StartUpdate(r, l, q) ==
    /\ Starts(r, "update")
    /\ l \in Rows
    /\ txn' = [txn EXCEPT ![r] = Edit("update", "write", {l}, q, 0)]

StartDelete(r, l) ==
    /\ Starts(r, "delete")
    /\ l \in Rows
    /\ txn' = [txn EXCEPT ![r] = Edit("delete", "write", {l}, 0, 0)]

StartDiscount(r, d) ==
    /\ Starts(r, "discount")
    /\ txn' = [txn EXCEPT ![r] = Edit("discount", "discount", {}, d, 0)]

StartPost(r) ==
    /\ Starts(r, "post")
    /\ DocFree(r, "update")
    /\ Rows # {}
    /\ txn' = [txn EXCEPT ![r] = SaleLocked("post")]

StartDrop(r) ==
    /\ Starts(r, "drop")
    /\ DocFree(r, "update")
    /\ txn' = [txn EXCEPT ![r] = SaleLocked("drop")]

-----------------------------------------------------------------------------
(* The statements of an edit. *)

NumberTaken(r) == \E l \in Rows : number[l] = txn[r].number

(* The foreign key check shares the sale; uq_sale_lines_sale_line_num makes *)
(* an insert wait for an uncommitted one of the same number.                *)
InsertLine(r) ==
    /\ txn[r].pc = "insert"
    /\ status # "gone"
    /\ DocFree(r, "share")
    /\ ~NumberTaken(r)
    /\ \A o \in Request \ {r} : ~(Inserted(o) /\ txn[o].number = txn[r].number)
    /\ \E l \in fresh :
        /\ fresh' = fresh \ {l}
        /\ txn' = [txn EXCEPT ![r].pc = "sum", ![r].line = {l}, ![r].doc = "share"]
    /\ UNCHANGED <<status, total, discount, quantity, number, moved, sum>>

(* Mutation: no trg_sale_lines_immutable. *)
LineMutableAlways(l) == TRUE
(* trg_sale_lines_immutable_update and _delete, fired by an existing row. *)
LineMutable(l) == l \in Rows => status = "draft"

(* UPDATE or DELETE of one line; a DELETE that finds no row goes on. *)
WriteLine(r) ==
    /\ txn[r].pc = "write"
    /\ \A l \in txn[r].line :
        /\ LineFree(r, l)
        /\ LineMutable(l)
        /\ txn[r].op = "update" => l \in Rows
    /\ txn' = [txn EXCEPT ![r].pc = "sum", ![r].held = txn[r].line]
    /\ UNCHANGED <<rows, sum>>

(* _recompute_sale *)
SumLines(r) ==
    /\ txn[r].pc = "sum"
    /\ txn' = [txn EXCEPT ![r].pc = "readDiscount"]
    /\ sum' = [sum EXCEPT ![r] = LinesTotal(Seen(r))]
    /\ UNCHANGED rows

ReadDiscount(r) ==
    /\ txn[r].pc = "readDiscount"
    /\ status # "gone"
    /\ txn' = [txn EXCEPT ![r].pc = "total"]
    /\ sum' = [sum EXCEPT ![r] = @ - discount]
    /\ UNCHANGED rows

(* ck_sales_total_amount_nonneg and ck_sales_discount_le_total *)
HeaderOK(t, d) == t >= 0 /\ d <= t

WriteTotal(r) ==
    /\ txn[r].pc = "total"
    /\ status # "gone"
    /\ DocFree(r, "nokey")
    /\ HeaderOK(sum[r], discount)
    /\ txn' = [txn EXCEPT ![r].pc = "commit", ![r].doc = "nokey"]
    /\ UNCHANGED <<rows, sum>>

WriteDiscount(r) ==
    /\ txn[r].pc = "discount"
    /\ status # "gone"
    /\ DocFree(r, "nokey")
    /\ HeaderOK(total, txn[r].value)
    /\ txn' = [txn EXCEPT ![r].pc = "commit", ![r].doc = "nokey"]
    /\ UNCHANGED <<rows, sum>>

(* post_sale writes the cost snapshot of one line after the other; the      *)
(* DELETE of the sale cascades to its lines.                                *)
LockLine(r, l) ==
    /\ txn[r].pc = "lines"
    /\ txn[r].read[l] > 0 /\ l \notin txn[r].held
    /\ txn[r].op = "post" =>
          \A k \in Line : txn[r].read[k] > 0 /\ number[k] < number[l] => k \in txn[r].held
    /\ LineFree(r, l)
    /\ txn' = [txn EXCEPT ![r].held = @ \cup {l}]
    /\ UNCHANGED <<rows, sum>>

-----------------------------------------------------------------------------
(* The ends of a transaction. *)

CommitEdit(r) ==
    /\ txn[r].pc = "commit" /\ txn[r].op \in {"add", "update", "delete"}
    /\ quantity' = Seen(r)
    /\ number' = [l \in Line |->
                    IF l \in txn[r].line /\ txn[r].op = "add" THEN txn[r].number
                                                              ELSE number[l]]
    /\ total' = sum[r]
    /\ Release(r)
    /\ UNCHANGED <<status, discount, fresh, moved>>

CommitDiscount(r) ==
    /\ txn[r].pc = "commit" /\ txn[r].op = "discount"
    /\ discount' = txn[r].value
    /\ Release(r)
    /\ UNCHANGED <<status, total, quantity, number, fresh, moved>>

LinesLocked(r) == \A l \in Line : txn[r].read[l] > 0 => l \in txn[r].held

CommitPost(r) ==
    /\ txn[r].pc = "lines" /\ txn[r].op = "post"
    /\ LinesLocked(r)
    /\ status' = "posted"
    /\ moved' = txn[r].read
    /\ Release(r)
    /\ UNCHANGED <<total, discount, quantity, number, fresh>>

CommitDrop(r) ==
    /\ txn[r].pc = "lines" /\ txn[r].op = "drop"
    /\ LinesLocked(r)
    /\ status' = "gone"
    /\ quantity' = NoRows
    /\ Release(r)
    /\ UNCHANGED <<total, discount, number, fresh, moved>>

(* The request is refused: a check before the first write, or an error its   *)
(* next statement raises.                                                   *)
Refuse(r) ==
    /\ \/ txn[r].pc = "start"
       \/ /\ txn[r].pc = "insert"
          /\ DocFree(r, "share")
          /\ status = "gone" \/ NumberTaken(r) \/ fresh = {}
       \/ /\ txn[r].pc = "write"
          /\ \E l \in txn[r].line :
                LineFree(r, l) /\ (~LineMutable(l) \/ (txn[r].op = "update" /\ l \notin Rows))
       \/ txn[r].pc = "readDiscount" /\ status = "gone"
       \/ /\ txn[r].pc = "total"
          /\ DocFree(r, "nokey")
          /\ status = "gone" \/ ~HeaderOK(sum[r], discount)
       \/ /\ txn[r].pc = "discount"
          /\ DocFree(r, "nokey")
          /\ status = "gone" \/ ~HeaderOK(total, txn[r].value)
    /\ Release(r)
    /\ UNCHANGED rows

(* What a statement of r waits for, and PostgreSQL's deadlock detector.     *)
WaitsFor(r, o) ==
    /\ o # r
    /\ \/ txn[r].pc = "insert" /\ DocHeldBy(o, "share")
       \/ txn[r].pc = "insert" /\ Inserted(o) /\ txn[o].number = txn[r].number
       \/ txn[r].pc = "write" /\ txn[r].line \cap txn[o].held # {}
       \/ txn[r].pc \in {"total", "discount"} /\ DocHeldBy(o, "nokey")
       \/ txn[r].pc = "lines" /\ \E l \in Line :
             txn[r].read[l] > 0 /\ l \notin txn[r].held /\ l \in txn[o].held

Deadlocked(S) == S # {} /\ \A r \in S : \E o \in S : WaitsFor(r, o)

DetectDeadlock(r) ==
    /\ \E S \in SUBSET Request : r \in S /\ Deadlocked(S)
    /\ Release(r)
    /\ UNCHANGED rows

(* The connection is lost or the process dies. *)
Rollback(r) ==
    /\ txn[r].pc # "ended"
    /\ Release(r)
    /\ UNCHANGED rows

-----------------------------------------------------------------------------

(* create_draft *)
Init ==
    /\ status = "draft"
    /\ quantity = [l \in Line |-> IF l \in DOMAIN Opening THEN Opening[l] ELSE 0]
    /\ number \in {n \in [Line -> 0 .. Cardinality(DOMAIN Opening)] :
                      /\ \A l \in Line : n[l] > 0 <=> l \in DOMAIN Opening
                      /\ \A k, l \in DOMAIN Opening : n[k] = n[l] => k = l}
    /\ total = LinesTotal(quantity)
    /\ discount = 0
    /\ fresh = Line \ DOMAIN Opening
    /\ moved = NoRows
    /\ txn = [r \in Request |-> NoTxn]
    /\ sum = [r \in Request |-> 0]

Start(r) ==
    \/ \E q \in Quantity : StartAdd(r, q)
    \/ \E l \in Line, q \in Quantity : StartUpdate(r, l, q)
    \/ \E l \in Line : StartDelete(r, l)
    \/ \E d \in Discount : StartDiscount(r, d)
    \/ StartPost(r) \/ StartDrop(r)

Step(r) ==
    \/ Start(r)
    \/ InsertLine(r) \/ WriteLine(r) \/ SumLines(r) \/ ReadDiscount(r)
    \/ WriteTotal(r) \/ WriteDiscount(r) \/ \E l \in Line : LockLine(r, l)
    \/ CommitEdit(r) \/ CommitDiscount(r) \/ CommitPost(r) \/ CommitDrop(r)
    \/ Refuse(r) \/ DetectDeadlock(r)

Next == \E r \in Request : Step(r) \/ Rollback(r)

Spec == Init /\ [][Next]_vars

(* The server runs every request that can go on, and the detector runs.    *)
FairSpec == Spec /\ \A r \in Request : WF_vars(Step(r))

-----------------------------------------------------------------------------

Txn ==
    [op : {"none"} \cup Operation,
     pc : {"start", "insert", "write", "sum", "readDiscount", "total",
           "discount", "lines", "commit", "ended"},
     line : SUBSET Line, value : Nat, number : Nat, read : [Line -> Nat],
     doc : {"none", "share", "nokey", "update"}, held : SUBSET Line]

(* The types of the rows, with the CHECK constraints of the header, and of  *)
(* the open transactions.                                                   *)
TypeOK ==
    /\ status \in {"draft", "posted", "gone"}
    /\ total \in Nat
    /\ discount \in 0 .. total
    /\ quantity \in [Line -> Nat]
    /\ number \in [Line -> Nat]
    /\ fresh \in SUBSET Line
    /\ moved \in [Line -> Nat]
    /\ txn \in [Request -> Txn]
    /\ sum \in [Request -> Int]

(* A movement is of a line of the sale, and of the quantity that line still  *)
(* has: no edit that began before the post changes or removes a line after.  *)
MovedAsSold == \A l \in Line : moved[l] > 0 => quantity[l] = moved[l]

(* _recompute_sale: "so the header and lines never drift".                  *)
NoDrift == status # "gone" => total = LinesTotal(quantity) - discount

(* Every request ends: deadlocks between an edit and a post are resolved,   *)
(* and every other wait is for a transaction that ends.                     *)
EveryRequestEnds == \A r \in Request : <>(txn[r].pc = "ended")

(* "Lines can only be added to a draft sale": every line of a posted sale   *)
(* has its movement.                                                        *)
PostedLinesMoved == status = "posted" => \A l \in Rows : moved[l] > 0

(* Database design, hazard 7: nothing but the status of a posted sale       *)
(* changes.                                                                 *)
HeaderFixedOncePosted ==
    [][status = "posted" => total' = total /\ discount' = discount]_vars

(* Backend architecture 17.4: locks are ordered so that no deadlock arises. *)
NoLockCycle == \A S \in SUBSET Request : ~Deadlocked(S)

=============================================================================
