-------------------------- MODULE PurchaseReports --------------------------
(***************************************************************************)
(* What the reports and the dashboard say of the purchases: every figure   *)
(* is computed from the committed rows of module Purchases.  "w" is a      *)
(* window of module Periods and "C" the set of the window it is compared   *)
(* with, if any.  The filters on supplier, status, user and text choose    *)
(* among the rows and are left out; what is dated by the clock of a        *)
(* request (posting, payment, cancellation) is summed over all time.       *)
(***************************************************************************)
EXTENDS Purchases, Periods

CONSTANTS
    PurchaseDate,      \* purchases.purchase_date
    PurchaseRank,      \* position of a purchase's id among the purchases
    ReturnDate,        \* purchase_returns.return_date
    RepaymentDate,     \* supplier_repayments.repayment_date
    ReturnRank,        \* position of a return's id; obligations follow it
    OperatingCost      \* non-capitalizable costs allocated to a line, per unit

ASSUME DateAssumption ==
    /\ PurchaseDate \in [Purchase -> Nat]
    /\ ReturnDate \in [Return -> Nat]
    /\ RepaymentDate \in [Return -> Nat]
ASSUME RankAssumption ==
    PurchaseRank \in [Purchase -> Nat] /\ ReturnRank \in [Return -> Nat]
ASSUME CostAssumption == OperatingCost \in [Line -> Nat]

SumOver(S, F(_)) == SumFunction([x \in S |-> F(x)])

(* lifecycle_status <> 'cancelled' AND posted_at IS NOT NULL *)
Reported(p) == status[p] \notin {"draft", "cancelled"}

PurchasesIn(w) == {p \in Purchase : Reported(p) /\ Within(PurchaseDate[p], w)}

-----------------------------------------------------------------------------
(* GET /reports/purchases; the client names the page and the order *)

Ascending(p, o) == PurchaseRank[p] < PurchaseRank[o]
Latest(p, o) ==
    \/ PurchaseDate[p] > PurchaseDate[o]
    \/ PurchaseDate[p] = PurchaseDate[o] /\ Ascending(p, o)

(* An unknown order falls back to the id. *)
Ordered(sort, p, o) == IF sort = "-purchase_date" THEN Latest(p, o) ELSE Ascending(p, o)

PurchasesListed(w, sort, page, size) ==
    PageOf(PurchasesIn(w), LAMBDA p, o : Ordered(sort, p, o), page, size)

PurchasesCount(w) == Cardinality(PurchasesIn(w))

(* The join with the lines drops a purchase without lines. *)
PurchasesAggregates(w) ==
    [purchase_count |-> Cardinality({p \in PurchasesIn(w) : LinesOf(p) # {}}),
     total_amount   |-> SumOver(PurchasesIn(w), Total)]

PurchasesReport(w, C, sort, page, size) ==
    [data |-> PurchasesListed(w, sort, page, size),
     total |-> PurchasesCount(w),
     total_pages |-> TotalPages(PurchasesCount(w), size),
     comparison |-> {Comparison(PurchasesAggregates(w), PurchasesAggregates(c)) : c \in C}]

purchases_report(q, sort, page, size) ==
    PurchasesReport(Window(q), Compared(q), sort, page, size)

(* GET /dashboard repeats the aggregate. *)
TotalPurchases(w) ==
    [total_purchases |-> SumOver(PurchasesIn(w), Total),
     purchase_count  |-> Cardinality({p \in PurchasesIn(w) : LinesOf(p) # {}})]

-----------------------------------------------------------------------------
(* GET /reports/purchase-returns: every return of the window *)

ReturnsIn(w) == {x \in Return : retState[x] # "none" /\ Within(ReturnDate[x], w)}

ReturnBefore(x, y) ==
    \/ ReturnDate[x] > ReturnDate[y]
    \/ ReturnDate[x] = ReturnDate[y] /\ ReturnRank[x] < ReturnRank[y]

PurchaseReturnsListed(w, page, size) == PageOf(ReturnsIn(w), ReturnBefore, page, size)

PurchaseReturnsAggregates(w) ==
    [return_count |-> Cardinality(ReturnsIn(w)),
     total_amount |-> SumOver(ReturnsIn(w), LAMBDA x : ValueOf(retQty[x]))]

PurchaseReturnsReport(w, C) ==
    [data |-> PurchaseReturnsListed(w, 1, DefaultSize),
     total |-> Cardinality(ReturnsIn(w)),
     comparison |->
        {Comparison(PurchaseReturnsAggregates(w), PurchaseReturnsAggregates(c)) : c \in C}]

purchase_returns_report(q) == PurchaseReturnsReport(Window(q), Compared(q))

-----------------------------------------------------------------------------
(* GET /reports/payables *)

(* The allocated shipping is part of the lines; the query adds it once more. *)
Invoiced(p) == Total(p) + Freight[p]

OpenPayable(p) == AtLeastZero(Invoiced(p) - paid[p])

PayablesListed(w, page, size) ==
    {p \in PageOf(PurchasesIn(w), Latest, page, size) : OpenPayable(p) > 0}

PayablesCount(w) == Cardinality({p \in PurchasesIn(w) : OpenPayable(p) > 0})

(* payable_count counts the settled purchases too. *)
PayablesAggregates(w) ==
    [payable_count |-> Cardinality(PurchasesIn(w)),
     total_open    |-> SumOver(PurchasesIn(w), OpenPayable)]

PayablesReport(w, C) ==
    [data |-> PayablesListed(w, 1, DefaultSize),
     total |-> PayablesCount(w),
     comparison |-> {Comparison(PayablesAggregates(w), PayablesAggregates(c)) : c \in C}]

payables_report(q) == PayablesReport(Window(q), Compared(q))

(* _payment_state: what the purchase itself says is outstanding. *)
Outstanding(p) == AtLeastZero(Total(p) - paid[p] - ReturnedValue(p))

-----------------------------------------------------------------------------
(* GET /reports/supplier-receivables and /reports/supplier-repayments: the  *)
(* obligations of the window, one row per return that left one              *)

ObligationsIn(w) == {x \in Return : owed[x] > 0 /\ Within(RepaymentDate[x], w)}

ObligationBefore(x, y) ==
    \/ RepaymentDate[x] > RepaymentDate[y]
    \/ RepaymentDate[x] = RepaymentDate[y] /\ ReturnRank[x] < ReturnRank[y]

OpenReceivable(x) == AtLeastZero(owed[x] - received[x])

SupplierReceivablesListed(w, page, size) ==
    {x \in PageOf(ObligationsIn(w), ObligationBefore, page, size) : OpenReceivable(x) > 0}

SupplierReceivablesCount(w) == Cardinality({x \in ObligationsIn(w) : OpenReceivable(x) > 0})

SupplierReceivablesAggregates(w) ==
    [supplier_receivable_count |-> Cardinality(ObligationsIn(w)),
     total_open                |-> SumOver(ObligationsIn(w), OpenReceivable)]

SupplierReceivablesReport(w, C) ==
    [data |-> SupplierReceivablesListed(w, 1, DefaultSize),
     total |-> SupplierReceivablesCount(w),
     comparison |-> {Comparison(SupplierReceivablesAggregates(w),
                                SupplierReceivablesAggregates(c)) : c \in C}]

supplier_receivables_report(q) == SupplierReceivablesReport(Window(q), Compared(q))

SupplierRepaymentsListed(w, page, size) ==
    PageOf(ObligationsIn(w), ObligationBefore, page, size)

SupplierRepaymentsAggregates(w) ==
    [repayment_count |-> Cardinality(ObligationsIn(w)),
     total_received  |-> SumOver(ObligationsIn(w), LAMBDA x : received[x])]

SupplierRepaymentsReport(w, C) ==
    [data |-> SupplierRepaymentsListed(w, 1, DefaultSize),
     total |-> Cardinality(ObligationsIn(w)),
     comparison |-> {Comparison(SupplierRepaymentsAggregates(w),
                                SupplierRepaymentsAggregates(c)) : c \in C}]

supplier_repayments_report(q) == SupplierRepaymentsReport(Window(q), Compared(q))

-----------------------------------------------------------------------------
(* The operating expenses that the profit and loss takes from a purchase:   *)
(* its non-capitalizable costs, less those of a cancelled purchase, less    *)
(* the share of what posted returns sent back.                              *)

CostsOf(p) == SumOver(LinesOf(p), LAMBDA l : OperatingCost[l] * Quantity[l])

(* Mutation: the returns of a cancelled purchase are taken off too. *)
CostsReturnedAlways(p) == SumOver(LinesOf(p), LAMBDA l : OperatingCost[l] * Returned(l))

CostsReturned(p) ==
    IF status[p] = "cancelled" THEN 0
    ELSE SumOver(LinesOf(p), LAMBDA l : OperatingCost[l] * Returned(l))

(* purchase_costs.posted_at is set when the purchase is posted, and stays. *)
WasPosted(p) == \E l \in LinesOf(p) : receipt[l] > 0

PurchaseCostExpense(p) ==
    IF ~WasPosted(p) THEN 0
    ELSE CostsOf(p) - (IF status[p] = "cancelled" THEN CostsOf(p) ELSE 0) - CostsReturned(p)

-----------------------------------------------------------------------------

(* The costs the profit and loss charges are those of the goods that are    *)
(* still here, in stock or sorted, by the ledger of the lines: neither a    *)
(* cancelled return nor a cancelled purchase leaves any behind.             *)
ExpenseFollowsGoods ==
    \A p \in Purchase :
        PurchaseCostExpense(p) =
            IF status[p] = "cancelled" THEN 0
            ELSE SumOver(LinesOf(p), LAMBDA l : OperatingCost[l] * (balance[l] + sorted[l]))

(* services/purchases.py:189, "adding shipping.amount again would           *)
(* double-count the shipping", and sales_repo.py, Payables: "Purchase       *)
(* returns on an *unpaid* purchase reduce AP".                              *)
PayableIsOutstanding ==
    \A p \in Purchase : Reported(p) => OpenPayable(p) = Outstanding(p)

=============================================================================
