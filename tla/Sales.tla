------------------------------- MODULE Sales -------------------------------
(***************************************************************************)
(* The requests of SaleService and RefundService as interleaved PostgreSQL *)
(* transactions at READ COMMITTED.  A request locks one row with SELECT    *)
(* ... FOR UPDATE (the sale, or the return for cancel_return), reads what  *)
(* it needs and decides (a Begin action); it keeps the lock until it       *)
(* commits its writes (a Commit action) or rolls back.  Rows it reads      *)
(* without a lock, the stock of a product and the cash journal, may change *)
(* in between.                                                             *)
(***************************************************************************)
EXTENDS SaleDocument

CONSTANTS
    Request,        \* requests being served at the same time
    Product,        \* ids of the rows of "products"
    ProductOf,      \* sale_lines.product_id
    AllowNegative,  \* products.allow_negative_stock, or the system default
    OpeningStock,   \* stock of each product before the first modelled request
    OpeningCash     \* cash balance before the first modelled request

ASSUME ProductOfAssumption == ProductOf \in [Line -> Product]
ASSUME AllowNegativeAssumption == AllowNegative \in [Product -> BOOLEAN]
ASSUME OpeningStockAssumption == OpeningStock \in [Product -> Nat]
ASSUME OpeningCashAssumption == OpeningCash \in Nat

VARIABLES
    cash,     \* SUM(cash_movements.amount)
    txn       \* the open transaction of each request

vars == <<docVars, cash, txn>>

Method == {"cash", "transfer"}

Idle == [op |-> "idle"]

Txn ==
    {Idle}
    \cup [op : {"post", "cancel"}, sale : Sale]
    \cup [op : {"pay", "refund"}, sale : Sale, amount : Amount, method : Method]
    \cup [op : {"return"}, sale : Sale, ret : Return, qty : Asked]
    \cup [op : {"cancelReturn"}, ret : Return]

(* Mutations: an operation that reads the sale without FOR UPDATE. *)
LocksSaleExceptCancel == {"post", "pay", "refund", "return"}
LocksSaleExceptReturn == {"post", "cancel", "pay", "refund"}

LocksSale == {"post", "cancel", "pay", "refund", "return"}

SaleIsFree(s) == \A r \in Request : txn[r].op \in LocksSale => txn[r].sale # s

ReturnIsFree(x) ==
    \A r \in Request : txn[r].op \in {"return", "cancelReturn"} => txn[r].ret # x

(* on_hand_quantity: SUM(stock_movements.quantity) of a product. *)
OnHand(p) ==
    OpeningStock[p] +
        SumFunction([l \in {k \in Line : ProductOf[k] = p} |->
                        reversal[l] + Restocked(l) - issue[l] - Unrestocked(l)])

(* What posting a sale takes of a product. *)
Needed(p, s) == SumFunctionOnSet(Quantity, {l \in Listed(s) : ProductOf[l] = p})

(* fn_cash_movements_balance_check, and the cash guard of create_refund. *)
CashCovers(amount) == cash + amount >= 0

CashEffect(m, amount) == IF m = "cash" THEN amount ELSE 0

Start(r, t) ==
    /\ txn[r] = Idle
    /\ txn' = [txn EXCEPT ![r] = t]
    /\ UNCHANGED <<docVars, cash>>

Finish(r) == txn' = [txn EXCEPT ![r] = Idle]

-----------------------------------------------------------------------------

BeginPost(r, s) ==
    /\ SaleIsFree(s)
    /\ CanPost(s)
    /\ \A l \in Listed(s) :
          \/ AllowNegative[ProductOf[l]]
          \/ Needed(ProductOf[l], s) <= OnHand(ProductOf[l])
    /\ Start(r, [op |-> "post", sale |-> s])

CommitPost(r) ==
    /\ txn[r].op = "post"
    /\ PostWrites(txn[r].sale)
    /\ UNCHANGED cash
    /\ Finish(r)

BeginPay(r, s, a, m) ==
    /\ SaleIsFree(s)
    /\ CanPay(s, a)
    /\ CashCovers(CashEffect(m, a))
    /\ Start(r, [op |-> "pay", sale |-> s, amount |-> a, method |-> m])

CommitPay(r) ==
    /\ txn[r].op = "pay"
    /\ PayWrites(txn[r].sale, txn[r].amount)
    /\ cash' = cash + CashEffect(txn[r].method, txn[r].amount)
    /\ Finish(r)

BeginRefund(r, s, a, m) ==
    /\ SaleIsFree(s)
    /\ CanRefund(s, a)
    /\ m = "cash" => CashCovers(-a)
    /\ Start(r, [op |-> "refund", sale |-> s, amount |-> a, method |-> m])

CommitRefund(r) ==
    /\ txn[r].op = "refund"
    /\ RefundWrites(txn[r].sale, txn[r].amount)
    /\ cash' = cash - CashEffect(txn[r].method, txn[r].amount)
    /\ Finish(r)

BeginCancel(r, s) ==
    /\ SaleIsFree(s)
    /\ CanCancel(s)
    /\ Start(r, [op |-> "cancel", sale |-> s])

CommitCancel(r) ==
    /\ txn[r].op = "cancel"
    /\ CancelWrites(txn[r].sale)
    /\ UNCHANGED cash
    /\ Finish(r)

BeginReturn(r, s, x, q) ==
    /\ SaleIsFree(s)
    /\ ReturnIsFree(x)
    /\ CanReturn(s, x, q)
    /\ Start(r, [op |-> "return", sale |-> s, ret |-> x, qty |-> q])

CommitReturn(r) ==
    /\ txn[r].op = "return"
    /\ ReturnWrites(txn[r].sale, txn[r].ret, txn[r].qty)
    /\ UNCHANGED cash
    /\ Finish(r)

BeginCancelReturn(r, x) ==
    /\ ReturnIsFree(x)
    /\ CanCancelReturn(x)
    /\ Start(r, [op |-> "cancelReturn", ret |-> x])

CommitCancelReturn(r) ==
    /\ txn[r].op = "cancelReturn"
    /\ CancelReturnWrites(txn[r].ret)
    /\ UNCHANGED cash
    /\ Finish(r)

(* An error, a lost connection or a crash of the process before the commit. *)
Rollback(r) ==
    /\ txn[r] # Idle
    /\ Finish(r)
    /\ UNCHANGED <<docVars, cash>>

-----------------------------------------------------------------------------

Init ==
    /\ DocInit
    /\ cash = OpeningCash
    /\ txn = [r \in Request |-> Idle]

Begin(r) ==
    \/ \E s \in Sale : BeginPost(r, s) \/ BeginCancel(r, s)
    \/ \E s \in Sale, a \in Amount, m \in Method :
            BeginPay(r, s, a, m) \/ BeginRefund(r, s, a, m)
    \/ \E s \in Sale, x \in Return, q \in Asked : BeginReturn(r, s, x, q)
    \/ \E x \in Return : BeginCancelReturn(r, x)

Commit(r) ==
    \/ CommitPost(r) \/ CommitPay(r) \/ CommitRefund(r)
    \/ CommitCancel(r) \/ CommitReturn(r) \/ CommitCancelReturn(r)

Next == \E r \in Request : Begin(r) \/ Commit(r) \/ Rollback(r)

Spec == Init /\ [][Next]_vars

-----------------------------------------------------------------------------

TypeOK ==
    /\ DocTypeOK
    /\ cash \in Int
    /\ txn \in [Request -> Txn]

(* What a transaction decided on is still true when it commits: the row it  *)
(* locked protects everything else it read about the document.              *)
InFlight(r) ==
    LET t == txn[r] IN
        /\ t.op = "post" => CanPost(t.sale)
        /\ t.op = "pay" => CanPay(t.sale, t.amount)
        /\ t.op = "refund" => CanRefund(t.sale, t.amount)
        /\ t.op = "cancel" => CanCancel(t.sale)
        /\ t.op = "return" => CanReturn(t.sale, t.ret, t.qty)
        /\ t.op = "cancelReturn" => CanCancelReturn(t.ret)

DecisionsStayValid == \A r \in Request : InFlight(r)

(* BR-COST-006 and API section 7.3: posting a sale never takes more of a    *)
(* product than there is, unless the product allows it.                     *)
PostNeverOversells ==
    [][\A r \in Request, p \in Product :
          txn[r].op = "post" /\ txn'[r] = Idle /\ OnHand(p)' < OnHand(p)
              => AllowNegative[p] \/ OnHand(p)' >= 0]_vars

(* INV-03: inventory is never negative unless the product allows it.        *)
StockNonNegative == \A p \in Product : AllowNegative[p] \/ OnHand(p) >= 0

(* INV-03: cash is never negative.                                          *)
CashNonNegative == cash >= 0

=============================================================================
