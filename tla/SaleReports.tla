---------------------------- MODULE SaleReports ----------------------------
(***************************************************************************)
(* What the reports, the dashboard and the customer summary say of the     *)
(* sales: every figure is computed from the committed rows of module       *)
(* Sales at the moment the report is asked for.  "w" is a window of module *)
(* Periods and "C" the set of the window it is compared with, if any.      *)
(* Averages and the number of refunds, which are rows the model sums up,   *)
(* are left out.                                                           *)
(***************************************************************************)
EXTENDS Sales, Periods

CONSTANTS
    SaleDate,     \* sales.sale_date
    ReturnDate,   \* sales_returns.return_date
    UnitPrice,    \* sale_lines.unit_price
    SaleRank,     \* position of a sale's id among the sales
    ReturnRank    \* position of a return's id among the returns

ASSUME SaleDateAssumption == SaleDate \in [Sale -> Nat]
ASSUME ReturnDateAssumption == ReturnDate \in [Return -> Nat]
ASSUME UnitPriceAssumption == UnitPrice \in [Line -> Nat]
ASSUME RankAssumption == SaleRank \in [Sale -> Nat] /\ ReturnRank \in [Return -> Nat]

SumOver(S, F(_)) == SumFunction([x \in S |-> F(x)])

(* lifecycle_status <> 'cancelled' AND posted_at IS NOT NULL *)
Reported(s) == status[s] \notin {"draft", "cancelled"}

SalesIn(w) == {s \in Sale : Reported(s) /\ Within(SaleDate[s], w)}

(* total_selling_price_returned and total_cost_returned of a return. *)
SellingPrice(x) == SumOver(Line, LAMBDA l : retQty[x][l] * UnitPrice[l])
CostBack(x) == SumOver(Line, LAMBDA l : retQty[x][l] * UnitCost[l])

(* The posted returns of a sale, whatever their own date. *)
PostedReturns(s) == {x \in Return : retSale[x] = s /\ retState[x] = "posted"}
SellingReturned(s) == SumOver(PostedReturns(s), SellingPrice)
CostReturned(s) == SumOver(PostedReturns(s), CostBack)

(* SUM(cogs_total_snapshot), which posting takes of the lines it lists. *)
CogsTotal(s) == SumOver(LinesOf(s), LAMBDA l : issue[l] * UnitCost[l])

-----------------------------------------------------------------------------
(* GET /reports/sales *)

NetRevenue(s) == AtLeastZero(Total[s] - SellingReturned(s))
NetCogs(s) == AtLeastZero(CogsTotal(s) - CostReturned(s))

SalesAggregates(w) ==
    [revenue      |-> SumOver(SalesIn(w), NetRevenue),
     cogs         |-> SumOver(SalesIn(w), NetCogs),
     gross_profit |-> SumOver(SalesIn(w), LAMBDA s : NetRevenue(s) - NetCogs(s)),
     sales_count  |-> Cardinality(SalesIn(w))]

SalesReport(w, C) ==
    [data |-> SalesAggregates(w),
     comparison |-> {Comparison(SalesAggregates(w), SalesAggregates(c)) : c \in C}]

sales_report(q) == SalesReport(Window(q), Compared(q))

(* GET /reports/profit-and-loss; the figures that are not about sales are   *)
(* those of modules CashReports and PurchaseReports: "other" gives them for *)
(* a window as [income, expenses].                                          *)

(* Mutation: the returns of the window are those made in it. *)
ReturnsOfWindow(w) == {x \in Return : retState[x] = "posted" /\ Within(ReturnDate[x], w)}

PnlReturns(w) == UNION {PostedReturns(s) : s \in SalesIn(w)}

PnlAggregates(w, other) ==
    LET revenue == SumFunctionOnSet(Total, SalesIn(w))
                      - SumOver(PnlReturns(w), SellingPrice)
        cogs == SumOver(SalesIn(w), CogsTotal) - SumOver(PnlReturns(w), CostBack)
        gross == AtLeastZero(revenue - cogs)
    IN  [revenue            |-> AtLeastZero(revenue),
         cogs               |-> AtLeastZero(cogs),
         gross_profit       |-> gross,
         other_income       |-> other[w].income,
         operating_expenses |-> other[w].expenses,
         net_profit         |-> gross + other[w].income - other[w].expenses]

ProfitAndLossReport(w, C, other) ==
    [data |-> PnlAggregates(w, other),
     comparison |-> {Comparison(PnlAggregates(w, other),
                                PnlAggregates(c, other)) : c \in C}]

profit_and_loss_report(q, other) ==
    ProfitAndLossReport(Window(q), Compared(q), other)

-----------------------------------------------------------------------------
(* GET /reports/sales-returns: every return of the window, cancelled or not *)

ReturnsIn(w) == {x \in Return : retState[x] # "none" /\ Within(ReturnDate[x], w)}

ReturnBefore(x, y) ==
    \/ ReturnDate[x] > ReturnDate[y]
    \/ ReturnDate[x] = ReturnDate[y] /\ ReturnRank[x] < ReturnRank[y]

SalesReturnsListed(w, page, size) == PageOf(ReturnsIn(w), ReturnBefore, page, size)

SalesReturnsAggregates(w) ==
    [return_count |-> Cardinality(ReturnsIn(w)),
     total_amount |-> SumOver(ReturnsIn(w), SellingPrice)]

SalesReturnsReport(w, C) ==
    [data |-> SalesReturnsListed(w, 1, DefaultSize),
     total |-> Cardinality(ReturnsIn(w)),
     comparison |-> {Comparison(SalesReturnsAggregates(w), SalesReturnsAggregates(c)) : c \in C}]

sales_returns_report(q) == SalesReturnsReport(Window(q), Compared(q))

-----------------------------------------------------------------------------
(* GET /reports/receivables and /reports/customer-refund-liabilities.  Both *)
(* take a page of the sales first and then drop those that are settled.     *)

SaleBefore(s, o) ==
    \/ SaleDate[s] > SaleDate[o]
    \/ SaleDate[s] = SaleDate[o] /\ SaleRank[s] < SaleRank[o]

OpenBalance(s) == AtLeastZero(Total[s] - paid[s])
OpenLiability(s) == AtLeastZero(paid[s] - refunded[s])

ReceivablesListed(w, page, size) ==
    {s \in PageOf(SalesIn(w), SaleBefore, page, size) : OpenBalance(s) > 0}

ReceivablesCount(w) == Cardinality({s \in SalesIn(w) : OpenBalance(s) > 0})

(* receivable_count counts the settled sales too. *)
ReceivablesAggregates(w) ==
    [receivable_count |-> Cardinality(SalesIn(w)),
     total_open       |-> SumOver(SalesIn(w), OpenBalance)]

ReceivablesReport(w, C) ==
    [data |-> ReceivablesListed(w, 1, DefaultSize),
     total |-> ReceivablesCount(w),
     comparison |-> {Comparison(ReceivablesAggregates(w), ReceivablesAggregates(c)) : c \in C}]

receivables_report(q) == ReceivablesReport(Window(q), Compared(q))

LiabilitiesListed(w, page, size) ==
    {s \in PageOf(SalesIn(w), SaleBefore, page, size) : OpenLiability(s) > 0}

LiabilitiesCount(w) == Cardinality({s \in SalesIn(w) : OpenLiability(s) > 0})

LiabilitiesAggregates(w) ==
    [crl_count  |-> Cardinality(SalesIn(w)),
     total_open |-> SumOver(SalesIn(w), OpenLiability)]

LiabilitiesReport(w, C) ==
    [data |-> LiabilitiesListed(w, 1, DefaultSize),
     total |-> LiabilitiesCount(w),
     comparison |-> {Comparison(LiabilitiesAggregates(w), LiabilitiesAggregates(c)) : c \in C}]

customer_refund_liabilities_report(q) == LiabilitiesReport(Window(q), Compared(q))

-----------------------------------------------------------------------------
(* GET /contacts/{id}/summary, customers being sets of sales *)

ReportedOf(D) == {s \in D : Reported(s)}

CustomerSummary(D) ==
    [total_sales |-> SumOver(ReportedOf(D), LAMBDA s : Total[s] - SellingReturned(s)),
     sales_count |-> Cardinality(ReportedOf(D)),
     receivable  |-> SumOver(ReportedOf(D),
                             LAMBDA s : AtLeastZero(Total[s] - paid[s] - SellingReturned(s)))]

(* GET /dashboard *)

TotalSales(w) ==
    [total_sales |-> SumOver(SalesIn(w), NetRevenue),
     sales_count |-> Cardinality(SalesIn(w))]

(* The buckets of the chart are days for a short window, weeks for a long one. *)
Bucket(w) == IF w.to - w.from <= 31 * TicksPerDay THEN "today" ELSE "this_week"

SalesTrend(w, bucket) ==
    LET buckets == {Around(bucket, SaleDate[s]).from : s \in SalesIn(w)}
        salesOf(b) == {s \in SalesIn(w) : Around(bucket, SaleDate[s]).from = b}
    IN  [b \in buckets |-> [revenue     |-> SumOver(salesOf(b), NetRevenue),
                            sales_count |-> Cardinality(salesOf(b))]]

(* What the lines of a product sold for; returns are not taken off. *)
BestSellers(w) ==
    LET sold(p) == {l \in Line : ProductOf[l] = p /\ SaleOf[l] \in SalesIn(w)}
    IN  [p \in {o \in Product : sold(o) # {}} |->
            [quantity |-> SumFunctionOnSet(Quantity, sold(p)),
             revenue  |-> SumOver(sold(p), LAMBDA l : Quantity[l] * UnitPrice[l])]]

CashOnHand == cash

(* The figures of the dashboard that are about sales; those about purchases, *)
(* expense categories and stock are in the other report modules.            *)

SaleKpis(w, other) ==
    [total_sales |-> TotalSales(w).total_sales,
     net_profit  |-> PnlAggregates(w, other).net_profit]

get_dashboard(w, C, other) ==
    [kpis |-> SaleKpis(w, other),
     cash_on_hand |-> CashOnHand,
     sales_trend |-> SalesTrend(w, Bucket(w)),
     best_sellers |-> BestSellers(w),
     comparison |-> {Comparison(SaleKpis(w, other),
                                SaleKpis(c, other)) : c \in C}]

-----------------------------------------------------------------------------

(* The windows a report asked for at some time of the horizon covers. *)
WindowsOf == [alias \in Alias |-> {Around(alias, t) : t \in Horizon}]

AllTime == [from |-> 0, to |-> Max(Horizon)]

ByPeriod(alias, t) ==
    [period |-> alias, from |-> {}, to |-> {}, compareAlias |-> alias,
     comparePair |-> {}, now |-> t]

(* No request is being served.  A report reads committed rows only, and    *)
(* every open transaction may still roll back: what holds of the rows when  *)
(* none is open holds of them at any time.                                  *)
Quiet == \A r \in Request : txn[r] = Idle

(* Day by day, week by week and year by year, the sales reports add up to   *)
(* the whole history: no sale falls between two windows or into both,       *)
(* whatever was returned or cancelled since.                                *)
PeriodsAddUp ==
    Quiet => \A alias \in {"today", "this_week", "this_year"} :
        SumOver(WindowsOf[alias], LAMBDA w : SalesAggregates(w).revenue)
            = SalesAggregates(AllTime).revenue

(* Sales whose header carries no discount, shipping or tax.                 *)
Undiscounted(s) == Total[s] = SumOver(LinesOf(s), LAMBDA l : Quantity[l] * UnitPrice[l])

CustomWindows == {[from |-> SaleDate[s], to |-> SaleDate[o]] : s \in Sale, o \in Sale}

(* No money but that of the sales. *)
NoOther == [w \in CustomWindows |-> [income |-> 0, expenses |-> 0]]

(* The sales report nets and bounds each sale, the profit and loss the      *)
(* window as a whole, the dashboard its buckets: for sales without a        *)
(* discount they state the same revenue and the same cost of goods.         *)
ReportsAgree ==
    Quiet => \A w \in CustomWindows :
        (\A s \in SalesIn(w) : Undiscounted(s)) =>
            LET sales == SalesAggregates(w)
                pnl == PnlAggregates(w, NoOther)
                trend == SalesTrend(w, Bucket(w))
            IN  /\ pnl.revenue = sales.revenue
                /\ pnl.cogs = sales.cogs
                /\ SumOver(DOMAIN trend, LAMBDA b : trend[b].revenue) = sales.revenue
                /\ SumOver(DOMAIN trend, LAMBDA b : trend[b].sales_count) = sales.sales_count

(* app/reports/period.py:76, "Last day of the month": months add up too.    *)
MonthsAddUp ==
    SumOver(WindowsOf["this_month"], LAMBDA w : SalesAggregates(w).revenue)
        = SalesAggregates(AllTime).revenue

(* app/reports/period.py, resolve_compare_to: "The comparison window ends   *)
(* exactly one microsecond before primary_from".                            *)
ComparisonEndsBefore ==
    \A t \in Horizon, alias \in Alias :
        LET q == ByPeriod(alias, t)
        IN  \A c \in Compared(q) : c.to = Window(q).from - 1

(* app/reports/sales_repo.py, F.4: Revenue, COGS and Gross of the profit    *)
(* and loss "reuses the D-8 derivation" of the sales report.                *)
SameGrossProfit ==
    \A w \in CustomWindows :
        PnlAggregates(w, NoOther).gross_profit = SalesAggregates(w).gross_profit

(* app/reports/sales_repo.py, F.4: "Returns are posted-only; cancelled      *)
(* returns are excluded from every aggregate".                              *)
CancelledReturnsExcluded ==
    SalesReturnsAggregates(AllTime).total_amount =
        SumOver({x \in ReturnsIn(AllTime) : retState[x] = "posted"}, SellingPrice)

(* app/reports/sales_repo.py, Receivables: "only sales with open_balance >  *)
(* 0 are surfaced", the first page holding as many of them as fit.          *)
OpenOnesFirst ==
    ReceivablesCount(AllTime) > 0 => ReceivablesListed(AllTime, 1, 1) # {}

(* app/reports/sales_repo.py, Receivables: "Sales returns on an *unpaid*    *)
(* sale reduce AR", as they do in the customer summary.                     *)
OneReceivable ==
    \A D \in SUBSET Sale :
        CustomerSummary(D).receivable = SumOver(ReportedOf(D), OpenBalance)

(* app/reports/sales_repo.py, Customer Refund Liabilities: "CRL is created  *)
(* when a paid sale is cancelled or returned".                              *)
LiabilityNeedsReturn ==
    \A s \in LiabilitiesListed(AllTime, 1, DefaultSize) : PostedReturns(s) # {}

=============================================================================
