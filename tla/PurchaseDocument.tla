------------------------- MODULE PurchaseDocument -------------------------
(***************************************************************************)
(* The purchase document of the POS backend, one request at a time: what   *)
(* each request of PurchaseService and SupplierRepaymentService requires   *)
(* of the committed rows (the Can... operators) and what it writes (the    *)
(* ...Writes operators).  PurchaseSpec runs the requests one after the     *)
(* other; module Purchases runs them as interleaved transactions and is    *)
(* shown to implement it.                                                  *)
(*                                                                         *)
(* A classified line is received into the stock of its product, an         *)
(* unsorted line into a pending batch that sorting later empties; the      *)
(* sums below stand for the movements of either ledger.                    *)
(***************************************************************************)
EXTENDS Integers, FiniteSets, Functions, Cents

CONSTANTS
    Purchase,    \* ids of the rows of "purchases"
    Line,        \* ids of the rows of "purchase_lines"
    Return,      \* ids a row of "purchase_returns" may get
    NoPurchase,  \* the purchase of a return that does not exist yet
    PurchaseOf,  \* purchase_lines.purchase_id
    Unsorted,    \* lines with receipt_type 'unsorted'
    Quantity,    \* purchase_lines.quantity
    LineTotal,   \* purchase_lines.line_total, shipping and costs included
    Named,       \* lines a client may name in a return request on a purchase
    Amount,      \* amounts a client may pay or collect
    MaxAsked     \* bound on the quantity one request returns or sorts of a line

ASSUME NoPurchaseAssumption == NoPurchase \notin Purchase
ASSUME PurchaseOfAssumption == PurchaseOf \in [Line -> Purchase]
ASSUME UnsortedAssumption == Unsorted \subseteq Line
ASSUME QuantityAssumption == Quantity \in [Line -> Nat \ {0}]
ASSUME LineTotalAssumption == LineTotal \in [Line -> Nat]
ASSUME NamedAssumption == Named \in [Purchase -> SUBSET Line]
ASSUME AmountAssumption == Amount \subseteq Nat \ {0}
ASSUME MaxAskedAssumption == MaxAsked \in Nat
ASSUME FiniteAssumption == IsFiniteSet(Line) /\ IsFiniteSet(Return)

VARIABLES
    status,       \* purchases.lifecycle_status
    paid,         \* sum of purchase_payments.amount
    retState,     \* purchase_returns.lifecycle_status, "none" before the insert
    retPurchase,  \* purchase_returns.purchase_id
    retQty,       \* purchase_return_lines.quantity of a return, per line
    owed,         \* supplier_repayments.amount of the return, 0 without a row
    received,     \* supplier_repayments.received_amount of the return
    receipt,      \* quantity put in by the 'purchase_receipt' of a line
    balance,      \* sum of all the movements of a line, in its ledger
    sorted,       \* net quantity sorting took out of the batch of a line
    sortedOnce    \* lines whose batch has a row in "sorting_events"

docVars == <<status, paid, retState, retPurchase, retQty, owed, received,
             receipt, balance, sorted, sortedOnce>>

Status == {"draft", "posted", "completed", "partially_returned",
           "returned", "cancelled"}
(* Mutation: a cancelled purchase may be cancelled again. *)
CancellableAgain == {"draft", "posted", "completed", "partially_returned",
                     "returned", "cancelled"}
Cancellable == {"draft", "posted", "completed", "partially_returned", "returned"}
Returnable == {"posted", "completed", "partially_returned"}

LinesOf(p) == {l \in Line : PurchaseOf[l] = p}

(* The transitions trg_purchase_lifecycle_terminal accepts. *)
Transition ==
    [draft |-> {"posted", "cancelled"},
     posted |-> {"completed", "partially_returned", "returned", "cancelled"},
     completed |-> {"partially_returned", "cancelled", "posted"},
     partially_returned |-> {"returned", "cancelled", "posted", "completed"},
     returned |-> {"cancelled", "partially_returned", "completed", "posted"},
     cancelled |-> {}]

MayBecome(from, to) == from = to \/ to \in Transition[from]

(* _purchase_total: line_total holds the shipping and the costs already. *)
Total(p) == SumFunction([l \in LinesOf(p) |-> LineTotal[l]])

(* sum_returned_qty_for_line: the posted returns only. *)
Returned(l) ==
    SumFunction([x \in Return |-> IF retState[x] = "posted" THEN retQty[x][l] ELSE 0])

(* line_value of n units of a line: line_total / quantity * n, in cents.  An *)
(* exact half that the 28 digits of the quotient miss may go the other way. *)
LineValue(l, n) == HalfEven(n * LineTotal[l], Quantity[l])

(* total_value_returned of a return, and its sum over the posted ones. *)
ValueOf(q) == SumFunction([l \in Line |-> LineValue(l, q[l])])

ActiveReturn(x, p) == retState[x] = "posted" /\ retPurchase[x] = p

ReturnedValue(p) ==
    SumFunction([x \in Return |-> IF ActiveReturn(x, p) THEN ValueOf(retQty[x]) ELSE 0])

-----------------------------------------------------------------------------
(* POST /purchases/{id}/post *)

CanPost(p) == status[p] = "draft" /\ LinesOf(p) # {}

PostWrites(p) ==
    /\ receipt' = [l \in Line |->
                    IF l \in LinesOf(p) THEN receipt[l] + Quantity[l] ELSE receipt[l]]
    /\ balance' = [l \in Line |->
                    IF l \in LinesOf(p) THEN balance[l] + Quantity[l] ELSE balance[l]]
    /\ status' = [status EXCEPT ![p] = "posted"]
    /\ UNCHANGED <<paid, retState, retPurchase, retQty, owed, received,
                   sorted, sortedOnce>>

(* POST /purchases/{id}/payments *)

Settles(p, a) == paid[p] + a >= Total(p)

CanPay(p, a) ==
    /\ status[p] \notin {"draft", "cancelled"}
    /\ paid[p] + a + ReturnedValue(p) <= Total(p)
    /\ Settles(p, a) => MayBecome(status[p], "completed")

PayWrites(p, a) ==
    /\ paid' = [paid EXCEPT ![p] = @ + a]
    /\ status' = [status EXCEPT ![p] = IF Settles(p, a) THEN "completed" ELSE @]
    /\ UNCHANGED <<retState, retPurchase, retQty, owed, received,
                   receipt, balance, sorted, sortedOnce>>

(* POST /purchases/{id}/cancel *)

(* A batch may only be reversed while no sorting or return touched it. *)
Untouched(l) == l \notin sortedOnce /\ balance[l] = Quantity[l]

CanCancel(p) ==
    /\ status[p] \in Cancellable
    /\ status[p] # "draft" => \A l \in LinesOf(p) \cap Unsorted : Untouched(l)

CancelWrites(p) ==
    /\ balance' = [l \in Line |->
                    IF l \in LinesOf(p) THEN balance[l] - receipt[l] ELSE balance[l]]
    /\ status' = [status EXCEPT ![p] = "cancelled"]
    /\ UNCHANGED <<paid, retState, retPurchase, retQty, owed, received,
                   receipt, sorted, sortedOnce>>

(* POST /purchases/{id}/returns *)

FullyReturned(p, q) == \A l \in LinesOf(p) : Returned(l) + q[l] >= Quantity[l]

AfterReturn(p, q) ==
    IF FullyReturned(p, q) THEN "returned" ELSE "partially_returned"

(* Mutation: the quantity still in the pending batch is not looked at. *)
CanReturnSorted(p, x, q) ==
    /\ status[p] \in Returnable
    /\ retState[x] = "none"
    /\ ValueOf(q) > 0
    /\ \A l \in Line : q[l] > 0 =>
        l \in Named[p] /\ Returned(l) + q[l] <= Quantity[l]
    /\ MayBecome(status[p], AfterReturn(p, q))

CanReturn(p, x, q) ==
    /\ status[p] \in Returnable
    /\ retState[x] = "none"
    /\ ValueOf(q) > 0
    /\ \A l \in Line : q[l] > 0 =>
        /\ l \in Named[p]
        /\ Returned(l) + q[l] <= Quantity[l]
        /\ l \in Unsorted => receipt[l] > 0 /\ q[l] <= balance[l]
    /\ MayBecome(status[p], AfterReturn(p, q))

(* Mutation: the whole value is owed, whatever was still to pay. *)
FullCredit(p, q) == ValueOf(q)

(* What the supplier owes: the part of the value that is no longer payable. *)
Credit(p, q) ==
    LET payable == Total(p) - paid[p]
    IN  IF ValueOf(q) > payable THEN ValueOf(q) - payable ELSE 0

ReturnWrites(p, x, q) ==
    /\ retState' = [retState EXCEPT ![x] = "posted"]
    /\ retPurchase' = [retPurchase EXCEPT ![x] = p]
    /\ retQty' = [retQty EXCEPT ![x] = q]
    /\ owed' = [owed EXCEPT ![x] = Credit(p, q)]
    /\ balance' = [l \in Line |-> balance[l] - q[l]]
    /\ status' = [status EXCEPT ![p] = AfterReturn(p, q)]
    /\ UNCHANGED <<paid, received, receipt, sorted, sortedOnce>>

(* POST /purchase-returns/{id}/cancel *)

(* Voiding the obligation sets amount to 0, which ck_srep_amount_pos refuses. *)
VoidAccepted(x) == owed[x] = 0

CanCancelReturn(x) ==
    /\ retState[x] = "posted"
    /\ received[x] = 0
    /\ VoidAccepted(x)

(* _recover_parent_purchase_lifecycle, once the return is cancelled; active  *)
(* is sum_active_returned_qty_for_purchase.                                  *)
Recovered(p, active) ==
    IF active >= SumFunctionOnSet(Quantity, LinesOf(p)) THEN "returned"
    ELSE IF active > 0 THEN "partially_returned"
    ELSE IF paid[p] > 0 /\ paid[p] >= Total(p) THEN "completed"
    ELSE "posted"

ActiveWithout(p, x) ==
    SumFunction([y \in Return |->
        IF ActiveReturn(y, p) /\ y # x THEN SumFunction(retQty[y]) ELSE 0])

(* Mutation: the status of the purchase is left as the return made it. *)
StatusKept(x) == status

StatusWithout(x) ==
    LET p == retPurchase[x]
    IN  [status EXCEPT ![p] =
            IF @ = "cancelled" THEN @ ELSE Recovered(p, ActiveWithout(p, x))]

CancelReturnWrites(x) ==
    /\ balance' = [l \in Line |-> balance[l] + retQty[x][l]]
    /\ retState' = [retState EXCEPT ![x] = "cancelled"]
    /\ status' = StatusWithout(x)
    /\ UNCHANGED <<paid, retPurchase, retQty, owed, received,
                   receipt, sorted, sortedOnce>>

(* POST /supplier-repayments, naming the return or not *)

IsObligation(x, p) == retPurchase[x] = p /\ owed[x] > 0

(* supplier_repayment_totals: amount minus received_amount. *)
Receivable(p) ==
    SumFunction([x \in Return |-> IF IsObligation(x, p) THEN owed[x] - received[x] ELSE 0])

CanRepay(p, x, a) ==
    /\ IsObligation(x, p)
    /\ a <= Receivable(p)
    /\ received[x] + a <= owed[x]

RepayWrites(p, x, a) ==
    /\ received' = [received EXCEPT ![x] = @ + a]
    /\ UNCHANGED <<status, paid, retState, retPurchase, retQty, owed,
                   receipt, balance, sorted, sortedOnce>>

(* POST /sorting-events/{id}/post and /reverse, as far as the batch sees them *)

CanSort(l, n) == l \in Unsorted /\ n > 0 /\ n <= balance[l]

SortWrites(l, n) ==
    /\ sorted' = [sorted EXCEPT ![l] = @ + n]
    /\ sortedOnce' = sortedOnce \cup {l}
    /\ balance' = [balance EXCEPT ![l] = @ - n]
    /\ UNCHANGED <<status, paid, retState, retPurchase, retQty, owed, received,
                   receipt>>

CanUnsort(l, n) == n > 0 /\ n <= sorted[l]

UnsortWrites(l, n) ==
    /\ sorted' = [sorted EXCEPT ![l] = @ - n]
    /\ balance' = [balance EXCEPT ![l] = @ + n]
    /\ UNCHANGED <<status, paid, retState, retPurchase, retQty, owed, received,
                   receipt, sortedOnce>>

-----------------------------------------------------------------------------

NoQuantity == [l \in Line |-> 0]

(* The quantities a return request may ask back of the lines. *)
Asked == [Line -> 0 .. MaxAsked]

DocInit ==
    /\ status = [p \in Purchase |-> "draft"]
    /\ paid = [p \in Purchase |-> 0]
    /\ retState = [x \in Return |-> "none"]
    /\ retPurchase = [x \in Return |-> NoPurchase]
    /\ retQty = [x \in Return |-> NoQuantity]
    /\ owed = [x \in Return |-> 0]
    /\ received = [x \in Return |-> 0]
    /\ receipt = NoQuantity
    /\ balance = NoQuantity
    /\ sorted = NoQuantity
    /\ sortedOnce = {}

DocPost(p) == CanPost(p) /\ PostWrites(p)
DocPay(p, a) == CanPay(p, a) /\ PayWrites(p, a)
DocCancel(p) == CanCancel(p) /\ CancelWrites(p)
DocReturn(p, x, q) == CanReturn(p, x, q) /\ ReturnWrites(p, x, q)
DocCancelReturn(x) == CanCancelReturn(x) /\ CancelReturnWrites(x)
DocRepay(p, x, a) == CanRepay(p, x, a) /\ RepayWrites(p, x, a)
DocSort(l, n) == CanSort(l, n) /\ SortWrites(l, n)
DocUnsort(l, n) == CanUnsort(l, n) /\ UnsortWrites(l, n)

DocNext ==
    \/ \E p \in Purchase : DocPost(p) \/ DocCancel(p)
    \/ \E p \in Purchase, a \in Amount : DocPay(p, a)
    \/ \E p \in Purchase, x \in Return, q \in Asked : DocReturn(p, x, q)
    \/ \E x \in Return : DocCancelReturn(x)
    \/ \E p \in Purchase, x \in Return, a \in Amount : DocRepay(p, x, a)
    \/ \E l \in Line, n \in 1 .. MaxAsked : DocSort(l, n) \/ DocUnsort(l, n)

PurchaseSpec == DocInit /\ [][DocNext]_docVars

-----------------------------------------------------------------------------

(* The types of the committed rows. *)
DocTypeOK ==
    /\ status \in [Purchase -> Status]
    /\ paid \in [Purchase -> Nat]
    /\ retState \in [Return -> {"none", "posted", "cancelled"}]
    /\ retPurchase \in [Return -> Purchase \cup {NoPurchase}]
    /\ retQty \in [Return -> [Line -> Nat]]
    /\ owed \in [Return -> Nat]
    /\ received \in [Return -> Nat]
    /\ receipt \in [Line -> Nat]
    /\ balance \in [Line -> Int]
    /\ sorted \in [Line -> Nat]
    /\ sortedOnce \subseteq Line

(* A line is received once, in full, when its purchase is posted.           *)
ReceivedOnce ==
    \A l \in Line :
        /\ receipt[l] \in {0, Quantity[l]}
        /\ status[PurchaseOf[l]] = "draft" => receipt[l] = 0
        /\ status[PurchaseOf[l]] \in Status \ {"draft", "cancelled"}
              => receipt[l] = Quantity[l]

(* The ledger of a line agrees with its documents: what was received, none  *)
(* of it any more once the purchase is cancelled, less what the posted      *)
(* returns and sorting took (BR-PURCHASE-006 and -007).                     *)
LedgerAgrees ==
    /\ ReceivedOnce
    /\ \A l \in Line :
          balance[l] = (IF status[PurchaseOf[l]] = "cancelled" THEN 0 ELSE receipt[l])
                          - Returned(l) - sorted[l]

(* The balance of a pending batch never goes below zero, whichever of       *)
(* sorting, returns and cancellations touched it.                           *)
BatchNeverOverdrawn == \A l \in Unsorted : balance[l] >= 0

(* The lifecycle recovered after a cancelled return says what the posted    *)
(* returns and the payments say: "returned" that everything went back,      *)
(* "partially_returned" that something did, "completed" that nothing did    *)
(* and everything is paid (create_return, _recover_parent_purchase_lifecycle). *)
ActiveOf(p) ==
    SumFunction([x \in Return |-> IF ActiveReturn(x, p) THEN SumFunction(retQty[x]) ELSE 0])

LifecycleTellsReturns ==
    \A p \in Purchase :
        /\ status[p] = "returned"
              <=> ActiveOf(p) > 0 /\ status[p] # "cancelled"
                  /\ \A l \in LinesOf(p) : Returned(l) = Quantity[l]
        /\ status[p] \in {"draft", "posted", "completed"} => ActiveOf(p) = 0
        /\ status[p] = "partially_returned" => ActiveOf(p) > 0
        /\ status[p] = "completed" => paid[p] = Total(p)
        /\ status[p] = "posted" => paid[p] < Total(p) \/ paid[p] = 0

Owed(p) == SumFunction([x \in Return |-> IF retPurchase[x] = p THEN owed[x] ELSE 0])

(* The lines the posted returns of a purchase name, each as often as one    *)
(* does; the value of each was rounded by half a cent at most.              *)
LinesReturned(p) ==
    SumFunction([x \in Return |->
        IF ActiveReturn(x, p)
        THEN SumFunction([l \in Line |-> IF retQty[x][l] > 0 THEN 1 ELSE 0])
        ELSE 0])

(* Money: a purchase is never overpaid, no return collects more than it is  *)
(* owed, and the returns of a purchase together are not owed more than was  *)
(* paid for it, but for half a cent of each line they name, which rounding  *)
(* may have added (add_payment, create_return, create_repayment).           *)
CollectedBounded == \A x \in Return : received[x] <= owed[x]

MoneyBounded ==
    /\ CollectedBounded
    /\ \A p \in Purchase :
          /\ paid[p] <= Total(p)
          /\ 2 * (Owed(p) - paid[p]) <= LinesReturned(p)

(* API-Architecture-V1.0.md:831: a repayment is "amount <= (sum of payments *)
(* - sum of repayments already received)".  The code bounds it by what the   *)
(* returns are owed, and each partial return of a line may be worth half a  *)
(* cent too much.                                                           *)
OwedWithinPaid == \A p \in Purchase : Owed(p) <= paid[p]

(* Phase-E decision 2: a return whose credit was not collected can still be *)
(* cancelled (cancel_return, reverse_unreceived_srec_for_return).           *)
UncollectedIsCancellable ==
    \A x \in Return : retState[x] = "posted" /\ received[x] = 0 => CanCancelReturn(x)

(* No payment on a cancelled purchase, and "cancelled" is final.            *)
CancelIsFinal ==
    [][/\ \A p \in Purchase : status[p] = "cancelled" =>
             status'[p] = "cancelled" /\ paid'[p] = paid[p]
       /\ \A x \in Return : retState[x] = "cancelled" => retState'[x] = "cancelled"
      ]_docVars

=============================================================================
