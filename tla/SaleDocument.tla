--------------------------- MODULE SaleDocument ---------------------------
(***************************************************************************)
(* The sale document of the POS backend, one request at a time: what each  *)
(* request of SaleService and RefundService requires of the committed rows *)
(* (the Can... operators) and what it writes to them (the ...Writes        *)
(* operators).  DocSpec runs the requests one after the other; module      *)
(* Sales runs them as interleaved database transactions and is shown to    *)
(* implement DocSpec.                                                      *)
(*                                                                         *)
(* Rows that are only ever appended (payments, refunds, return lines,      *)
(* stock movements) are represented by the sums the code reads with        *)
(* SELECT SUM(...), kept per document, line and kind of movement.          *)
(***************************************************************************)
EXTENDS Integers, FiniteSets, Functions

CONSTANTS
    Sale,        \* ids of the rows of "sales"
    Line,        \* ids of the rows of "sale_lines"
    Return,      \* ids a row of "sales_returns" may get
    NoSale,      \* the sale of a return that does not exist yet
    SaleOf,      \* sale_lines.sale_id
    LineNumber,  \* sale_lines.line_number
    Quantity,    \* sale_lines.quantity
    UnitCost,    \* sale_lines.unit_cost_snapshot, taken when the line is posted
    Total,       \* sales.total_amount
    PageSize,    \* rows a call of list_lines returns when per_page is not given
    Named,       \* lines a client may name in a return request on a sale
    Amount,      \* amounts a client may pay or ask back
    MaxAsked     \* bound on the quantity a return request asks of one line

ASSUME FiniteAssumption == IsFiniteSet(Sale) /\ IsFiniteSet(Line) /\ IsFiniteSet(Return)
ASSUME NoSaleAssumption == NoSale \notin Sale
ASSUME SaleOfAssumption == SaleOf \in [Line -> Sale]
ASSUME LineNumberAssumption == LineNumber \in [Line -> Nat]
ASSUME QuantityAssumption == Quantity \in [Line -> Nat \ {0}]
ASSUME UnitCostAssumption == UnitCost \in [Line -> Nat \ {0}]
ASSUME TotalAssumption == Total \in [Sale -> Nat]
ASSUME PageSizeAssumption == PageSize \in Nat
ASSUME NamedAssumption == Named \in [Sale -> SUBSET Line]
ASSUME AmountAssumption == Amount \subseteq Nat \ {0}
ASSUME MaxAskedAssumption == MaxAsked \in Nat

VARIABLES
    status,      \* sales.lifecycle_status
    paid,        \* sum of sale_payments.amount
    refunded,    \* sum of refunds.amount
    retState,    \* sales_returns.lifecycle_status, "none" before the insert
    retSale,     \* sales_returns.sale_id
    retQty,      \* sales_return_lines.quantity of a return, per sale line
    issue,       \* quantity taken by the 'sale' movement of a line
    reversal,    \* quantity put back by the 'sale_reversal' movements of a line
    restock,     \* quantity put back by the 'sales_return' movements of a return
    unrestock    \* quantity taken by its 'sales_return_reversal' movements

docVars == <<status, paid, refunded, retState, retSale, retQty,
             issue, reversal, restock, unrestock>>

Status == {"draft", "posted", "completed", "partially_returned",
           "returned", "cancelled"}
(* Mutation: a cancelled sale counts as cancellable (the set in the code       *)
(* does list it; an earlier check makes that harmless).                       *)
CancellableAgain == {"posted", "completed", "partially_returned", "returned",
                     "cancelled"}
Cancellable == {"posted", "completed", "partially_returned", "returned"}
Returnable == {"posted", "completed", "partially_returned"}

LinesOf(s) == {l \in Line : SaleOf[l] = s}

(* SELECT ... ORDER BY line_number LIMIT per_page: the first page only. *)
Listed(s) ==
    {l \in LinesOf(s) :
        Cardinality({k \in LinesOf(s) : LineNumber[k] < LineNumber[l]}) < PageSize}

(* The transitions trg_sale_lifecycle_terminal accepts. *)
Transition ==
    [draft |-> {"posted", "cancelled"},
     posted |-> {"completed", "partially_returned", "returned", "cancelled"},
     completed |-> {"partially_returned", "cancelled"},
     partially_returned |-> {"returned", "cancelled"},
     returned |-> {"cancelled"},
     cancelled |-> {}]

MayBecome(from, to) == from = to \/ to \in Transition[from]

(* SUM(sales_return_lines.quantity) of a line, over every return. *)
Returned(l) == SumFunction([x \in Return |-> retQty[x][l]])

(* Mutation: the query selects the returns of the wrong state. *)
HasCancelledReturn(s) == \E x \in Return : retSale[x] = s /\ retState[x] = "cancelled"

(* Quantity of a line moved by returns and by their cancellations. *)
Restocked(l) == SumFunction([x \in Return |-> restock[x][l]])
Unrestocked(l) == SumFunction([x \in Return |-> unrestock[x][l]])

(* sum_active_returned_qty_for_sale(s) > 0; return lines have quantity > 0. *)
HasActiveReturn(s) == \E x \in Return : retSale[x] = s /\ retState[x] = "posted"

-----------------------------------------------------------------------------
(* POST /sales/{id}/post *)

CanPost(s) == status[s] = "draft" /\ LinesOf(s) # {}

PostWrites(s) ==
    /\ issue' = [l \in Line |->
                    IF l \in Listed(s) THEN issue[l] + Quantity[l] ELSE issue[l]]
    /\ status' = [status EXCEPT ![s] =
                    IF paid[s] >= Total[s] THEN "completed" ELSE "posted"]
    /\ UNCHANGED <<paid, refunded, retState, retSale, retQty,
                   reversal, restock, unrestock>>

(* POST /sales/{id}/payments *)

Settles(s, a) == paid[s] + a >= Total[s]

(* Mutation: no payment bound. *)
CanPayUnbounded(s, a) ==
    /\ status[s] # "draft"
    /\ Settles(s, a) => MayBecome(status[s], "completed")

CanPay(s, a) ==
    /\ status[s] # "draft"
    /\ paid[s] + a <= Total[s]
    /\ Settles(s, a) => MayBecome(status[s], "completed")

PayWrites(s, a) ==
    /\ paid' = [paid EXCEPT ![s] = @ + a]
    /\ status' = [status EXCEPT ![s] = IF Settles(s, a) THEN "completed" ELSE @]
    /\ UNCHANGED <<refunded, retState, retSale, retQty,
                   issue, reversal, restock, unrestock>>

(* POST /refunds *)

CanRefund(s, a) == refunded[s] + a <= paid[s]

RefundWrites(s, a) ==
    /\ refunded' = [refunded EXCEPT ![s] = @ + a]
    /\ UNCHANGED <<status, paid, retState, retSale, retQty,
                   issue, reversal, restock, unrestock>>

(* POST /sales/{id}/cancel *)

(* Only a cancellation out of "posted" stores reversal_of_movement_id, so   *)
(* only there can trg_stock_movements_reversal_unique reject it.            *)
CanCancel(s) ==
    /\ status[s] \in Cancellable
    /\ ~HasActiveReturn(s)
    /\ status[s] = "posted" => \A l \in Listed(s) : reversal[l] = 0

CancelWrites(s) ==
    /\ reversal' = [l \in Line |->
                        IF l \in Listed(s) THEN reversal[l] + issue[l]
                                           ELSE reversal[l]]
    /\ status' = [status EXCEPT ![s] = "cancelled"]
    /\ UNCHANGED <<paid, refunded, retState, retSale, retQty,
                   issue, restock, unrestock>>

(* POST /sales/{id}/returns *)

(* q gives the quantity asked back of each line; a line never issued has no *)
(* cost snapshot and its return line fails ck_srl_unit_cost_pos.            *)
CanReturn(s, x, q) ==
    /\ status[s] \in Returnable
    /\ retState[x] = "none"
    /\ \E l \in Line : q[l] > 0
    /\ \A l \in Line : q[l] > 0 =>
        /\ l \in Named[s]
        /\ issue[l] > 0
        /\ Returned(l) + q[l] <= Quantity[l]

FullyReturned(s, q) ==
    SumFunction([l \in LinesOf(s) |-> Returned(l) + q[l]])
        >= SumFunctionOnSet(Quantity, LinesOf(s))

ReturnWrites(s, x, q) ==
    /\ retState' = [retState EXCEPT ![x] = "posted"]
    /\ retSale' = [retSale EXCEPT ![x] = s]
    /\ retQty' = [retQty EXCEPT ![x] = q]
    /\ restock' = [restock EXCEPT ![x] = [l \in Line |-> restock[x][l] + q[l]]]
    /\ status' = [status EXCEPT ![s] =
                    IF FullyReturned(s, q) THEN "returned" ELSE "partially_returned"]
    /\ UNCHANGED <<paid, refunded, issue, reversal, unrestock>>

(* POST /sales-returns/{id}/cancel *)

CanCancelReturn(x) ==
    /\ retState[x] = "posted"
    /\ \A l \in Line : retQty[x][l] > 0 => unrestock[x][l] = 0

CancelReturnWrites(x) ==
    /\ unrestock' = [unrestock EXCEPT ![x] =
                        [l \in Line |-> unrestock[x][l] + restock[x][l]]]
    /\ retState' = [retState EXCEPT ![x] = "cancelled"]
    /\ UNCHANGED <<status, paid, refunded, retSale, retQty,
                   issue, reversal, restock>>

-----------------------------------------------------------------------------

NoQuantity == [l \in Line |-> 0]

(* The quantities a return request may ask back of the lines. *)
Asked == [Line -> 0 .. MaxAsked]

DocInit ==
    /\ status = [s \in Sale |-> "draft"]
    /\ paid = [s \in Sale |-> 0]
    /\ refunded = [s \in Sale |-> 0]
    /\ retState = [x \in Return |-> "none"]
    /\ retSale = [x \in Return |-> NoSale]
    /\ retQty = [x \in Return |-> NoQuantity]
    /\ issue = NoQuantity
    /\ reversal = NoQuantity
    /\ restock = [x \in Return |-> NoQuantity]
    /\ unrestock = [x \in Return |-> NoQuantity]

DocPost(s) == CanPost(s) /\ PostWrites(s)
DocPay(s, a) == CanPay(s, a) /\ PayWrites(s, a)
DocRefund(s, a) == CanRefund(s, a) /\ RefundWrites(s, a)
DocCancel(s) == CanCancel(s) /\ CancelWrites(s)
DocReturn(s, x, q) == CanReturn(s, x, q) /\ ReturnWrites(s, x, q)
DocCancelReturn(x) == CanCancelReturn(x) /\ CancelReturnWrites(x)

DocNext ==
    \/ \E s \in Sale : DocPost(s) \/ DocCancel(s)
    \/ \E s \in Sale, a \in Amount : DocPay(s, a) \/ DocRefund(s, a)
    \/ \E s \in Sale, x \in Return, q \in Asked : DocReturn(s, x, q)
    \/ \E x \in Return : DocCancelReturn(x)

DocSpec == DocInit /\ [][DocNext]_docVars

-----------------------------------------------------------------------------

(* The types of the committed rows. *)
DocTypeOK ==
    /\ status \in [Sale -> Status]
    /\ paid \in [Sale -> Nat]
    /\ refunded \in [Sale -> Nat]
    /\ retState \in [Return -> {"none", "posted", "cancelled"}]
    /\ retSale \in [Return -> Sale \cup {NoSale}]
    /\ retQty \in [Return -> [Line -> Nat]]
    /\ issue \in [Line -> Nat]
    /\ reversal \in [Line -> Nat]
    /\ restock \in [Return -> [Line -> Nat]]
    /\ unrestock \in [Return -> [Line -> Nat]]

(* BR-PAYMENT-004 and INV-04: a sale never takes more than its total, and   *)
(* refunds never exceed what was paid (add_payment, create_refund).         *)
MoneyBounded == \A s \in Sale : refunded[s] <= paid[s] /\ paid[s] <= Total[s]

(* A sale is auto-completed exactly when its payments reach its total       *)
(* (post_sale and add_payment both decide it).                              *)
CompletedMeansPaid ==
    \A s \in Sale :
        /\ status[s] = "completed" => paid[s] = Total[s]
        /\ status[s] = "posted" => paid[s] < Total[s]

(* The sale and sale_reversal movements of a line follow from the status of *)
(* its sale: taken once when the sale is posted, put back once, in full,    *)
(* when it is cancelled (INV-05), whatever happened in between.             *)
SaleMovements ==
    \A l \in Line :
        /\ issue[l] = IF l \in Listed(SaleOf[l]) /\ status[SaleOf[l]] # "draft"
                      THEN Quantity[l] ELSE 0
        /\ reversal[l] = IF status[SaleOf[l]] = "cancelled" THEN issue[l] ELSE 0

(* The movements of a return follow from its state: put back once, and      *)
(* taken again once if the return is cancelled.                             *)
ReturnMovements ==
    \A x \in Return :
        /\ retState[x] = "none" <=> retSale[x] = NoSale
        /\ restock[x] = retQty[x]
        /\ unrestock[x] = IF retState[x] = "cancelled" THEN restock[x] ELSE NoQuantity

(* A cancelled sale has no active return left, and none is created later:   *)
(* the goods of a cancelled sale are back in stock exactly once.            *)
CancelledHasNoReturn ==
    \A x \in Return : retState[x] = "posted" => status[retSale[x]] # "cancelled"

(* BR-SALE-009: return lines never exceed the quantity sold.                *)
ReturnsBounded == \A l \in Line : Returned(l) <= Quantity[l]

(* Goods never re-enter stock more often than they left it, whichever       *)
(* combination of returns, return cancellations and cancellations ran.      *)
NeverOverRestocked ==
    \A l \in Line :
        reversal[l] + Restocked(l) <= issue[l] + Unrestocked(l)

(* Every line of a posted sale has its 'sale' movement.                     *)
EveryLineIssued ==
    \A l \in Line : status[SaleOf[l]] # "draft" => issue[l] = Quantity[l]

(* "returned" means that every unit of the sale is in an active return.     *)
ActiveReturned(l) ==
    SumFunction([x \in {y \in Return : retState[y] = "posted"} |-> retQty[x][l]])

ReturnedMeansAllBack ==
    \A l \in Line : status[SaleOf[l]] = "returned" => ActiveReturned(l) = Quantity[l]

(* What create_return stores as returned_unit_cost, and the total_cost of   *)
(* the movement it inserts from it.                                         *)
ReturnedUnitCost(x, l) == UnitCost[l] * retQty[x][l]
RestockCost(x, l) == restock[x][l] * ReturnedUnitCost(x, l)

(* BR-COST-005: returned goods re-enter stock at their original line cost.  *)
RestockedAtOriginalCost ==
    \A x \in Return, l \in Line : RestockCost(x, l) = restock[x][l] * UnitCost[l]

(* INV-05 and API section 7.6: no payment on a cancelled sale.              *)
NoPaymentAfterCancel ==
    [][\A s \in Sale : paid'[s] # paid[s] => status[s] # "cancelled"]_docVars

(* INV-05: "cancelled" is terminal, for a sale and for a return.            *)
CancelIsFinal ==
    [][/\ \A s \in Sale : status[s] = "cancelled" => status'[s] = "cancelled"
       /\ \A x \in Return : retState[x] = "cancelled" => retState'[x] = "cancelled"
      ]_docVars

=============================================================================
