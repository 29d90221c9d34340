---------------------------- MODULE StockLedger ----------------------------
(***************************************************************************)
(* The stock of products under concurrent requests, statement by statement *)
(* at READ COMMITTED.  Three ways to write "stock_movements" meet here:    *)
(*   - post_sale reads the stock of a line without a lock and inserts the  *)
(*     movement; the reversals of cancel_sale and of a cancelled           *)
(*     production run are inserted unchecked;                              *)
(*   - a production post, a stock adjustment and a sorting event lock the  *)
(*     product rows FOR UPDATE, in ascending order, and decide under them; *)
(*   - every insert takes FOR KEY SHARE on its product, for the foreign    *)
(*     key; the output of a production run takes it last.                  *)
(* A movement gets its id from the sequence as its insert begins, before   *)
(* the insert waits for that lock: ids need not follow the commits.        *)
(* Each request is served once: it commits, is refused, or is rolled back. *)
(***************************************************************************)
EXTENDS Integers, FiniteSets, FiniteSetsExt

CONSTANTS
    Product,        \* ids of the rows of "products"
    Request,        \* requests served at the same time
    Sale,           \* sales, in draft at the start
    Run,            \* production runs, in draft at the start
    Event,          \* sorting events, not posted at the start
    Sold,           \* quantity of each product on the lines of a sale
    Consumed,       \* quantity of each product on the inputs of a run
    Output,         \* output product of a run
    Made,           \* output quantity of a run
    Sorted,         \* quantity of each product on the outputs of an event
    Delta,          \* quantities a stock adjustment may ask for
    NegativeOK,     \* products that may go below zero (BR-STOCK-011)
    Opening,        \* stock before the first modelled movement
    Nobody          \* the document of a request that has none

Document == Sale \cup Run \cup Event

ASSUME RequestAssumption == IsFiniteSet(Request)
ASSUME ProductAssumption == Product \subseteq Nat
ASSUME DocumentAssumption ==
    Sale \cap Run = {} /\ Sale \cap Event = {} /\ Run \cap Event = {} /\ Nobody \notin Event
ASSUME SoldAssumption == Sold \in [Sale -> [Product -> Nat]]
ASSUME ConsumedAssumption == Consumed \in [Run -> [Product -> Nat]]
ASSUME OutputAssumption ==
    Output \in [Run -> Product] /\ \A d \in Run : Consumed[d][Output[d]] = 0
ASSUME MadeAssumption == Made \in [Run -> Nat \ {0}]
ASSUME SortedAssumption == Sorted \in [Event -> [Product -> Nat]]
ASSUME DeltaAssumption == Delta \subseteq Int \ {0}
ASSUME NegativeOKAssumption == NegativeOK \subseteq Product
ASSUME OpeningAssumption == Opening \in [Product -> Int]

VARIABLES
    stock,     \* SUM(stock_movements.quantity) per product
    newest,    \* MAX(stock_movements.id) per product; 0 without movements
    outputs,   \* sorting_event_outputs.stock_movement_id, per event and product
    since,     \* products moved since an event was posted; history, read by no action
    state,     \* "open", "posted" or "cancelled", per document
    txn        \* the transaction of each request

committed == <<stock, newest, outputs, since, state>>
vars == <<committed, txn>>

DocumentOp == {"issue", "unissue", "produce", "unproduce", "sort", "unsort"}

Nothing == [p \in Product |-> 0]

(* The movements a transaction inserts, as a quantity per product. *)
Movement(op, d, delta) ==
    [p \in Product |->
        CASE op = "issue"     -> - Sold[d][p]
          [] op = "unissue"   -> Sold[d][p]
          [] op = "produce"   -> IF p = Output[d] THEN Made[d] ELSE - Consumed[d][p]
          [] op = "unproduce" -> IF p = Output[d] THEN - Made[d] ELSE Consumed[d][p]
          [] op = "sort"      -> Sorted[d][p]
          [] op = "unsort"    -> - Sorted[d][p]
          [] op = "adjust"    -> IF p = d THEN delta ELSE 0]

Inputs(d) == {p \in Product : Consumed[d][p] > 0}
Sortings(d) == {p \in Product : Sorted[d][p] > 0}

(* The product rows an operation locks FOR UPDATE before it writes. *)
Locks(op, d) ==
    CASE op = "produce"           -> Inputs(d)
      [] op \in {"sort", "unsort"} -> Sortings(d)
      [] op = "adjust"            -> {d}
      [] OTHER                    -> {}

Unlocked == [p \in Product |-> "none"]

NoTxn == [pc |-> "start", op |-> "none", doc |-> Nobody, move |-> Nothing, id |-> Nothing,
          held |-> Unlocked, lock |-> {}, seen |-> {}, insert |-> {}]
Ended == [NoTxn EXCEPT !.pc = "ended"]

(* Mutation: a transaction that ends keeps its row locks. *)
ReleaseKeepsLocks(r) == txn' = [txn EXCEPT ![r] = [Ended EXCEPT !.held = txn[r].held]]

Release(r) == txn' = [txn EXCEPT ![r] = Ended]

-----------------------------------------------------------------------------
(* The row locks of the documents and of the products. *)

DocumentFree(d) == \A r \in Request : txn[r].doc # d

(* FOR UPDATE conflicts with every lock of another transaction on the row,  *)
(* FOR KEY SHARE only with FOR UPDATE.                                       *)
MayUpdate(r, p) == \A o \in Request \ {r} : txn[o].held[p] = "none"

(* Mutation: stock_movements has no foreign key to products. *)
MayShareAlways(r, p) == TRUE

MayShare(r, p) == \A o \in Request \ {r} : txn[o].held[p] # "update"

-----------------------------------------------------------------------------

Open(r, op, d, delta) ==
    LET m == Movement(op, d, delta)
    IN  txn' = [txn EXCEPT ![r] =
            [pc |-> "open", op |-> op, doc |-> d, move |-> m, id |-> Nothing, held |-> Unlocked,
             lock |-> Locks(op, d), seen |-> {}, insert |-> {p \in Product : m[p] # 0}]]

(* The row of the document is locked FOR UPDATE, its status is checked. *)
Begin(r, op, d, from) ==
    /\ txn[r].pc = "start"
    /\ DocumentFree(d)
    /\ state[d] = from
    /\ Open(r, op, d, 0)
    /\ UNCHANGED committed

BeginIssue(r, d) == d \in Sale /\ Begin(r, "issue", d, "open")
BeginUnissue(r, d) == d \in Sale /\ Begin(r, "unissue", d, "posted")
BeginProduce(r, d) == d \in Run /\ Begin(r, "produce", d, "open")
BeginUnproduce(r, d) == d \in Run /\ Begin(r, "unproduce", d, "posted")
BeginSort(r, d) == d \in Event /\ Begin(r, "sort", d, "open")
BeginUnsort(r, d) == d \in Event /\ Begin(r, "unsort", d, "posted")

BeginAdjust(r, p, delta) ==
    /\ txn[r].pc = "start"
    /\ Open(r, "adjust", p, delta)
    /\ UNCHANGED committed

(* Mutation: the projected stock is not computed, only the one at hand. *)
AcceptsAnyStock(t, p) ==
    /\ t.op \in {"produce", "adjust"} /\ p \notin NegativeOK /\ t.move[p] < 0
          => stock[p] >= 0
    /\ t.op = "unsort" => newest[p] <= outputs[t.doc][p]

(* Mutation: a reversal does not look for later movements. *)
AcceptsLater(t, p) ==
    t.op \in {"produce", "adjust"} /\ p \notin NegativeOK /\ t.move[p] < 0
        => stock[p] + t.move[p] >= 0

(* What the operation reads of a product once it holds its row: enough      *)
(* stock for an input or a downward adjustment, and no movement with a      *)
(* higher id than that of the event a reversal takes back.                  *)
Accepts(t, p) ==
    /\ t.op \in {"produce", "adjust"} /\ p \notin NegativeOK /\ t.move[p] < 0
          => stock[p] + t.move[p] >= 0
    /\ t.op = "unsort" => newest[p] <= outputs[t.doc][p]

(* Product ids are locked in ascending order. *)
LocksNext(r, p) == p \in txn[r].lock /\ \A q \in txn[r].lock : p <= q

LockProduct(r, p) ==
    /\ LocksNext(r, p)
    /\ MayUpdate(r, p)
    /\ Accepts(txn[r], p)
    /\ txn' = [txn EXCEPT ![r].lock = @ \ {p}, ![r].held[p] = "update"]
    /\ UNCHANGED committed

(* post_sale reads on_hand_quantity of one line, then inserts its movement. *)
ReadStock(r, p) ==
    /\ txn[r].op = "issue"
    /\ txn[r].seen = {}
    /\ p \in txn[r].insert
    /\ p \notin NegativeOK => stock[p] + txn[r].move[p] >= 0
    /\ txn' = [txn EXCEPT ![r].seen = {p}]
    /\ UNCHANGED committed

(* The next movement to insert: lines of a sale come in the order of their  *)
(* numbers, which says nothing of the products; inputs come in ascending    *)
(* order and before the output, also when they are reversed.                *)
IsNext(t, p) ==
    /\ p \in t.insert
    /\ t.op = "issue" => p \in t.seen
    /\ t.op \in {"produce", "unproduce"} =>
          IF p = Output[t.doc] THEN t.insert = {p}
                               ELSE \A q \in t.insert \ {Output[t.doc]} : p <= q

(* The insert of this movement has begun. *)
Inserting(t, p) == p \in t.insert /\ t.id[p] # 0

(* An id above every id of the product: of committed movements, and of those *)
(* being inserted.  There is one sequence for all products; a product sees   *)
(* the order of its own ids.                                                 *)
NextId(p) == 1 + Max({newest[p]} \cup {txn[o].id[p] : o \in Request})

(* The insert begins: the column default takes the next id. *)
DrawId(r, p) ==
    /\ txn[r].lock = {}
    /\ \A q \in Product : ~Inserting(txn[r], q)
    /\ IsNext(txn[r], p)
    /\ txn' = [txn EXCEPT ![r].id[p] = NextId(p)]
    /\ UNCHANGED committed

(* The foreign key is checked, with FOR KEY SHARE, at the end of the insert. *)
InsertMovement(r, p) ==
    /\ Inserting(txn[r], p)
    /\ MayShare(r, p)
    /\ txn' = [txn EXCEPT ![r].insert = @ \ {p},
                          ![r].seen = {},
                          ![r].held[p] = IF @ = "none" THEN "share" ELSE @]
    /\ UNCHANGED committed

(* The status of the document after the operation. *)
Becomes(op) == IF op \in {"issue", "produce", "sort"} THEN "posted" ELSE "cancelled"

Commit(r) ==
    LET t == txn[r]
    IN  /\ t.pc = "open" /\ t.lock = {} /\ t.insert = {}
        /\ stock' = [p \in Product |-> stock[p] + t.move[p]]
        /\ newest' = [p \in Product |-> IF t.id[p] > newest[p] THEN t.id[p] ELSE newest[p]]
        /\ outputs' = [d \in Event |->
                        IF t.op = "sort" /\ d = t.doc THEN t.id ELSE outputs[d]]
        /\ since' = [d \in Event |->
                        IF state[d] # "posted" THEN {}
                        ELSE since[d] \cup {p \in Sortings(d) : t.move[p] # 0}]
        /\ state' = [d \in Document |->
                        IF t.op # "adjust" /\ d = t.doc THEN Becomes(t.op) ELSE state[d]]
        /\ Release(r)

(* A request the status of its document, the stock or a later movement refuses. *)
Refuse(r) ==
    /\ \/ txn[r].pc = "start"
       \/ \E p \in Product :
             LocksNext(r, p) /\ MayUpdate(r, p) /\ ~Accepts(txn[r], p)
       \/ \E p \in Product \ NegativeOK :
             /\ txn[r].op = "issue" /\ txn[r].seen = {} /\ p \in txn[r].insert
             /\ stock[p] + txn[r].move[p] < 0
    /\ Release(r)
    /\ UNCHANGED committed

(* What the next statement of r waits for, and the deadlock detector. *)
WaitsFor(r, o) ==
    /\ o # r
    /\ \E p \in Product :
        \/ LocksNext(r, p) /\ txn[o].held[p] # "none"
        \/ Inserting(txn[r], p) /\ txn[o].held[p] = "update"

Waiting(r) == \E o \in Request : WaitsFor(r, o)

Deadlocked(S) == S # {} /\ \A r \in S : \E o \in S : WaitsFor(r, o)

DetectDeadlock(r) ==
    /\ txn[r].pc = "open"
    /\ \E S \in SUBSET {o \in Request : Waiting(o)} : r \in S /\ Deadlocked(S)
    /\ Release(r)
    /\ UNCHANGED committed

(* The connection is lost or the process dies: nothing of it stays. *)
Rollback(r) ==
    /\ txn[r].pc = "open"
    /\ Release(r)
    /\ UNCHANGED committed

-----------------------------------------------------------------------------

Init ==
    /\ stock = Opening
    /\ newest = Nothing
    /\ outputs = [d \in Event |-> Nothing]
    /\ since = [d \in Event |-> {}]
    /\ state = [d \in Document |-> "open"]
    /\ txn = [r \in Request |-> NoTxn]

Start(r) ==
    \/ \E d \in Sale : BeginIssue(r, d) \/ BeginUnissue(r, d)
    \/ \E d \in Run : BeginProduce(r, d) \/ BeginUnproduce(r, d)
    \/ \E d \in Event : BeginSort(r, d) \/ BeginUnsort(r, d)
    \/ \E p \in Product, delta \in Delta : BeginAdjust(r, p, delta)

Step(r) ==
    \/ Start(r)
    \/ \E p \in Product : LockProduct(r, p) \/ ReadStock(r, p) \/ DrawId(r, p) \/ InsertMovement(r, p)
    \/ Commit(r) \/ Refuse(r) \/ DetectDeadlock(r)

Next == \E r \in Request : Step(r) \/ Rollback(r)

Spec == Init /\ [][Next]_vars

(* The server runs every request that can go on, and the detector runs. *)
FairSpec == Spec /\ \A r \in Request : WF_vars(Step(r))

-----------------------------------------------------------------------------

Txn ==
    [pc : {"start", "open", "ended"},
     op : DocumentOp \cup {"none", "adjust"},
     doc : Document \cup Product \cup {Nobody},
     move : [Product -> Int], id : [Product -> Nat],
     held : [Product -> {"none", "share", "update"}],
     lock : SUBSET Product, seen : SUBSET Product, insert : SUBSET Product]

TypeOK ==
    /\ stock \in [Product -> Int]
    /\ newest \in [Product -> Nat]
    /\ outputs \in [Event -> [Product -> Nat]]
    /\ since \in [Event -> SUBSET Product]
    /\ state \in [Document -> {"open", "posted", "cancelled"}]
    /\ txn \in [Request -> Txn]

(* What a locked product was accepted for stays true until the commit, since *)
(* no movement of another transaction gets past the lock (repo.py, "the lock *)
(* blocks any other inserter until COMMIT").                                 *)
AcceptedStays ==
    \A r \in Request, p \in Product :
        txn[r].held[p] = "update" => Accepts(txn[r], p)

(* BR-STOCK-010: a production post or an adjustment never takes a product    *)
(* below zero, whatever sales, cancellations and sorting run meanwhile; only *)
(* the operations that decide without the lock do.                           *)
GuardedNeverOverdraws ==
    [][\A r \in Request :
          txn[r].op \in {"produce", "adjust"} /\ txn'[r] # txn[r] =>
              \A p \in Product \ NegativeOK : stock'[p] < stock[p] => stock'[p] >= 0
      ]_vars

(* A sorting event is only taken back while no movement of its products has  *)
(* a higher id than its own: what the check read stays true up to the commit *)
(* of the reversal, although it is read before the reversal inserts.  A      *)
(* movement whose insert had begun before the event's may still have been    *)
(* committed after it: see ReversedUnmoved.                                  *)
ReversedUntouched ==
    [][\A d \in Event :
          state[d] = "posted" /\ state'[d] = "cancelled" =>
              \A p \in Sortings(d) : newest[p] <= outputs[d][p]
      ]_vars

(* "A sorting output has later inventory activity and is no longer safely    *)
(* reversible": no movement of its products was committed since.             *)
ReversedUnmoved ==
    [][\A d \in Event : state[d] = "posted" /\ state'[d] = "cancelled" => since[d] = {}]_vars

(* Row locks never block a request for ever. *)
EveryRequestEnds == \A r \in Request : <>(txn[r].pc = "ended")

(* "Sorting prevents two concurrent posts from deadlocking when they share   *)
(* >1 raw product" (ProductionRunService.post).                              *)
PostsNeverDeadlock ==
    \A r, o \in Request : txn[r].op = "produce" /\ txn[o].op = "produce" =>
        ~(WaitsFor(r, o) /\ WaitsFor(o, r))

=============================================================================
