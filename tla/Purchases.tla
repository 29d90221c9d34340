----------------------------- MODULE Purchases -----------------------------
(***************************************************************************)
(* The requests of PurchaseService, SupplierRepaymentService and           *)
(* SortingService as interleaved PostgreSQL transactions at READ           *)
(* COMMITTED.  A request takes its row locks with SELECT ... FOR UPDATE,   *)
(* reads and decides (Begin), and keeps the locks until it commits its     *)
(* writes (Commit) or rolls back.  A return locks its purchase and the     *)
(* pending batches of the unsorted lines it names; a sorting locks only    *)
(* the batch; the cancellation of a return locks the return first and its  *)
(* purchase last, when it has written its movements.                       *)
(***************************************************************************)
EXTENDS PurchaseDocument

CONSTANTS
    Request,       \* requests being served at the same time
    Freight,       \* shipping paid in cash when the purchase is posted
    OpeningCash    \* cash balance before the first modelled request

ASSUME FreightAssumption == Freight \in [Purchase -> Nat]
ASSUME OpeningCashAssumption == OpeningCash \in Nat

VARIABLES
    cash,     \* SUM(cash_movements.amount)
    txn       \* the open transaction of each request

vars == <<docVars, cash, txn>>

Method == {"cash", "transfer"}

Idle == [op |-> "idle"]

Txn ==
    {Idle}
    \cup [op : {"post", "cancel"}, purchase : Purchase]
    \cup [op : {"pay"}, purchase : Purchase, amount : Amount, method : Method]
    \cup [op : {"return"}, purchase : Purchase, ret : Return, qty : Asked]
    \cup [op : {"repay"}, purchase : Purchase, ret : Return,
          amount : Amount, method : Method]
    \cup [op : {"cancelReturn"}, ret : Return]
    \cup [op : {"sort", "unsort"}, line : Unsorted, qty : 1 .. MaxAsked]

(* Mutation: a repayment that reads the purchase without FOR UPDATE. *)
LocksPurchaseExceptRepay == {"post", "cancel", "return", "pay"}

LocksPurchase == {"post", "cancel", "pay", "return", "repay"}

PurchaseIsFree(p) ==
    \A r \in Request : txn[r].op \in LocksPurchase => txn[r].purchase # p

ReturnIsFree(x) ==
    \A r \in Request : txn[r].op \in {"return", "cancelReturn"} => txn[r].ret # x

(* The pending batches a transaction holds. *)
BatchesOf(t) ==
    IF t.op \in {"sort", "unsort"} THEN {t.line}
    ELSE IF t.op = "cancel" THEN LinesOf(t.purchase) \cap Unsorted
    ELSE IF t.op = "return" THEN {l \in Unsorted : t.qty[l] > 0}
    ELSE {}

BatchesAreFree(ls) == \A r \in Request : BatchesOf(txn[r]) \cap ls = {}

CashEffect(m, amount) == IF m = "cash" THEN amount ELSE 0

Start(r, t) ==
    /\ txn[r] = Idle
    /\ BatchesAreFree(BatchesOf(t))
    /\ txn' = [txn EXCEPT ![r] = t]
    /\ UNCHANGED <<docVars, cash>>

Finish(r) == txn' = [txn EXCEPT ![r] = Idle]

-----------------------------------------------------------------------------

BeginPost(r, p) ==
    /\ PurchaseIsFree(p)
    /\ CanPost(p)
    /\ Freight[p] > 0 => cash >= Freight[p]
    /\ Start(r, [op |-> "post", purchase |-> p])

CommitPost(r) ==
    /\ txn[r].op = "post"
    /\ PostWrites(txn[r].purchase)
    /\ cash' = cash - Freight[txn[r].purchase]
    /\ Finish(r)

BeginPay(r, p, a, m) ==
    /\ PurchaseIsFree(p)
    /\ CanPay(p, a)
    /\ m = "cash" => cash >= a
    /\ Start(r, [op |-> "pay", purchase |-> p, amount |-> a, method |-> m])

CommitPay(r) ==
    /\ txn[r].op = "pay"
    /\ PayWrites(txn[r].purchase, txn[r].amount)
    /\ cash' = cash - CashEffect(txn[r].method, txn[r].amount)
    /\ Finish(r)

BeginCancel(r, p) ==
    /\ PurchaseIsFree(p)
    /\ CanCancel(p)
    /\ Start(r, [op |-> "cancel", purchase |-> p])

CommitCancel(r) ==
    /\ txn[r].op = "cancel"
    /\ CancelWrites(txn[r].purchase)
    /\ UNCHANGED cash
    /\ Finish(r)

BeginReturn(r, p, x, q) ==
    /\ PurchaseIsFree(p)
    /\ ReturnIsFree(x)
    /\ CanReturn(p, x, q)
    /\ Start(r, [op |-> "return", purchase |-> p, ret |-> x, qty |-> q])

CommitReturn(r) ==
    /\ txn[r].op = "return"
    /\ ReturnWrites(txn[r].purchase, txn[r].ret, txn[r].qty)
    /\ UNCHANGED cash
    /\ Finish(r)

(* The cash guard looks at the balance although the money comes in. *)
BeginRepay(r, p, x, a, m) ==
    /\ PurchaseIsFree(p)
    /\ CanRepay(p, x, a)
    /\ m = "cash" => cash >= a
    /\ Start(r, [op |-> "repay", purchase |-> p, ret |-> x,
                 amount |-> a, method |-> m])

CommitRepay(r) ==
    /\ txn[r].op = "repay"
    /\ RepayWrites(txn[r].purchase, txn[r].ret, txn[r].amount)
    /\ cash' = cash + CashEffect(txn[r].method, txn[r].amount)
    /\ Finish(r)

BeginCancelReturn(r, x) ==
    /\ ReturnIsFree(x)
    /\ CanCancelReturn(x)
    /\ Start(r, [op |-> "cancelReturn", ret |-> x])

(* The movements back into a batch wait for its lock (the trigger takes it), *)
(* the recovery of the lifecycle for the lock of the purchase.               *)
CommitCancelReturn(r) ==
    /\ txn[r].op = "cancelReturn"
    /\ PurchaseIsFree(retPurchase[txn[r].ret])
    /\ BatchesAreFree({l \in Unsorted : retQty[txn[r].ret][l] > 0})
    /\ CancelReturnWrites(txn[r].ret)
    /\ UNCHANGED cash
    /\ Finish(r)

BeginSort(r, l, n) ==
    /\ CanSort(l, n)
    /\ Start(r, [op |-> "sort", line |-> l, qty |-> n])

CommitSort(r) ==
    /\ txn[r].op = "sort"
    /\ SortWrites(txn[r].line, txn[r].qty)
    /\ UNCHANGED cash
    /\ Finish(r)

BeginUnsort(r, l, n) ==
    /\ CanUnsort(l, n)
    /\ Start(r, [op |-> "unsort", line |-> l, qty |-> n])

CommitUnsort(r) ==
    /\ txn[r].op = "unsort"
    /\ UnsortWrites(txn[r].line, txn[r].qty)
    /\ UNCHANGED cash
    /\ Finish(r)

(* An error, a lost connection or a crash of the process before the commit, *)
(* or the end PostgreSQL puts to one side of a deadlock.                     *)
Rollback(r) ==
    /\ txn[r] # Idle
    /\ Finish(r)
    /\ UNCHANGED <<docVars, cash>>

-----------------------------------------------------------------------------

Init ==
    /\ DocInit
    /\ cash = OpeningCash
    /\ txn = [r \in Request |-> Idle]

Begin(r) ==
    \/ \E p \in Purchase : BeginPost(r, p) \/ BeginCancel(r, p)
    \/ \E p \in Purchase, a \in Amount, m \in Method : BeginPay(r, p, a, m)
    \/ \E p \in Purchase, x \in Return, q \in Asked : BeginReturn(r, p, x, q)
    \/ \E p \in Purchase, x \in Return, a \in Amount, m \in Method :
            BeginRepay(r, p, x, a, m)
    \/ \E x \in Return : BeginCancelReturn(r, x)
    \/ \E l \in Unsorted, n \in 1 .. MaxAsked : BeginSort(r, l, n) \/ BeginUnsort(r, l, n)

Commit(r) ==
    \/ CommitPost(r) \/ CommitPay(r) \/ CommitCancel(r) \/ CommitReturn(r)
    \/ CommitRepay(r) \/ CommitCancelReturn(r) \/ CommitSort(r) \/ CommitUnsort(r)

Next == \E r \in Request : Begin(r) \/ Commit(r) \/ Rollback(r)

Spec == Init /\ [][Next]_vars

-----------------------------------------------------------------------------

TypeOK ==
    /\ DocTypeOK
    /\ cash \in Int
    /\ txn \in [Request -> Txn]

(* What a transaction decided on is still true when it commits: the locks   *)
(* it took protect everything it read about the document.                   *)
InFlight(r) ==
    LET t == txn[r] IN
        /\ t.op = "post" => CanPost(t.purchase)
        /\ t.op = "pay" => CanPay(t.purchase, t.amount)
        /\ t.op = "cancel" => CanCancel(t.purchase)
        /\ t.op = "return" => CanReturn(t.purchase, t.ret, t.qty)
        /\ t.op = "repay" => CanRepay(t.purchase, t.ret, t.amount)
        /\ t.op = "cancelReturn" => CanCancelReturn(t.ret)
        /\ t.op = "sort" => CanSort(t.line, t.qty)
        /\ t.op = "unsort" => CanUnsort(t.line, t.qty)

DecisionsStayValid == \A r \in Request : InFlight(r)

(* INV-03: goods the supplier got back are not taken out a second time, so  *)
(* the purchase ledger alone never makes the stock of a line negative.      *)
StockNonNegative == \A l \in Line \ Unsorted : balance[l] >= 0

=============================================================================
