------------------------- MODULE ProductionReports -------------------------
(***************************************************************************)
(* What the reports and the dashboard say of production and of the stock,  *)
(* computed from the rows of module Production.  "w" is a window of module *)
(* Periods and "C" the set of the window it is compared with, if any.  The *)
(* value of the inventory, an average over every movement, is left out.    *)
(***************************************************************************)
EXTENDS Production, Periods

CONSTANTS
    RunDate,      \* production_runs.run_date
    RunRank,      \* position of a run's id among the runs
    Active,       \* products with is_active
    Threshold,    \* products.low_stock_threshold, of those that have one
    ProductRank   \* position of a product's id among the products

ASSUME RunDateAssumption == RunDate \in [Run -> Nat]
ASSUME RunRankAssumption == RunRank \in [Run -> Nat]
ASSUME ActiveAssumption == Active \subseteq Product
ASSUME ThresholdAssumption ==
    /\ DOMAIN Threshold \subseteq Product
    /\ \A p \in DOMAIN Threshold : Threshold[p] \in Nat
ASSUME ProductRankAssumption == ProductRank \in [Product -> Nat]

SumOver(S, F(_)) == SumFunction([x \in S |-> F(x)])

-----------------------------------------------------------------------------
(* GET /reports/production: every run is listed, drafts are not summed *)

RunsIn(w) == {r \in Run : status[r] # "none" /\ Within(RunDate[r], w)}

RunBefore(r, o) ==
    \/ RunDate[r] > RunDate[o]
    \/ RunDate[r] = RunDate[o] /\ RunRank[r] < RunRank[o]

ProductionListed(w, page, size) == PageOf(RunsIn(w), RunBefore, page, size)

Settled(r) == status[r] \in {"posted", "completed", "cancelled"}

RunCost(r) == header[r].raw + header[r].overhead

ProductionAggregates(w) ==
    LET runs == {r \in RunsIn(w) : Settled(r)}
    IN  [run_count |-> Cardinality(runs), total_amount |-> SumOver(runs, RunCost)]

ProductionReport(w, C) ==
    [data |-> ProductionListed(w, 1, DefaultSize),
     total |-> Cardinality(RunsIn(w)),
     comparison |-> {Comparison(ProductionAggregates(w), ProductionAggregates(c)) : c \in C}]

production_report(q) == ProductionReport(Window(q), Compared(q))

-----------------------------------------------------------------------------
(* The stock of the products: GET /reports/inventory, a snapshot whatever   *)
(* the window, GET /inventory, GET /inventory/low-stock and                 *)
(* GET /inventory/products/{id}                                             *)

(* At or below the threshold, which a product need not have. *)
IsLow(p) == p \in Active /\ p \in DOMAIN Threshold /\ Stock(p) <= Threshold[p]
IsOut(p) == p \in Active /\ Stock(p) <= 0

(* filter[stock_status]: a product that is out is not low. *)
HasStatus(p, stockStatus) ==
    CASE stockStatus = "any" -> TRUE
      [] stockStatus = "out" -> IsOut(p)
      [] stockStatus = "low" -> IsLow(p) /\ ~IsOut(p)
      [] stockStatus = "in"  -> p \in Active /\ ~IsLow(p) /\ ~IsOut(p)

InventoryReport ==
    [products_count     |-> Cardinality(Product),
     low_stock_count    |-> Cardinality({p \in Product : IsLow(p)}),
     out_of_stock_count |-> Cardinality({p \in Product : IsOut(p)})]

(* A filter is [among, isActive, stockStatus]: the products that the search, *)
(* the category and the dates leave, and at most one value of is_active.    *)
Matching(f) ==
    {p \in f.among : (\A b \in f.isActive : (p \in Active) = b) /\ HasStatus(p, f.stockStatus)}

(* The orders by value and by date are left out; ties go by id. *)
SortKey(sort, p) ==
    CASE sort = "on_hand_quantity" -> Stock(p)
      [] sort = "low_stock" -> IF HasStatus(p, "low") THEN 1 ELSE 0
      [] OTHER -> 0

InventoryBefore(sort, p, o) ==
    \/ SortKey(sort, p) < SortKey(sort, o)
    \/ SortKey(sort, p) = SortKey(sort, o) /\ ProductRank[p] < ProductRank[o]

(* A row says that a product is low also when it is out. *)
Summary(p) == [product_id |-> p, on_hand_quantity |-> Stock(p), low_stock |-> IsLow(p)]

InventorySummaryStats(f) ==
    [total_units        |-> SumOver(Matching(f) \cap Active, Stock),
     low_stock_count    |-> Cardinality({p \in Matching(f) : HasStatus(p, "low")}),
     out_of_stock_count |-> Cardinality({p \in Matching(f) : IsOut(p)})]

RowsOfPage(products, sort, page, size) ==
    {Summary(p) : p \in PageOf(products, LAMBDA a, b : InventoryBefore(sort, a, b), page, size)}

list_inventory(f, sort, page, size) ==
    [data |-> RowsOfPage(Matching(f), sort, page, size),
     total |-> Cardinality(Matching(f)),
     total_pages |-> TotalPages(Cardinality(Matching(f)), size),
     summary |-> InventorySummaryStats(f)]

list_low_stock(among, sort, page, size) ==
    [data |-> RowsOfPage({p \in among : IsLow(p)}, sort, page, size),
     total |-> Cardinality({p \in among : IsLow(p)}),
     total_pages |-> TotalPages(Cardinality({p \in among : IsLow(p)}), size)]

get_product_stock(p) == Summary(p)

-----------------------------------------------------------------------------

AllTime == [from |-> 0, to |-> Max(Horizon)]

(* app/reports/sales_repo.py, F.2: drafts are not summed "because their     *)
(* costs may still be moving; posted/completed/cancelled are the historical *)
(* facts": what the production report once summed stays as it was, and no   *)
(* run leaves the sum.                                                      *)
SettledCostsStand ==
    [][\A r \in Run : Settled(r) => Settled(r)' /\ RunCost(r)' = RunCost(r)]_runVars

(* app/inventory/repo.py, get_inventory_summary_stats: "stock_status        *)
(* semantics in the summary match the row-level definitions": the summary   *)
(* counts the rows that say they are low.                                   *)
SummaryCountsRows ==
    LET all == [among |-> Product, isActive |-> {}, stockStatus |-> "any"]
        answer == list_inventory(all, "id", 1, Cardinality(Product))
    IN  answer.summary.low_stock_count = Cardinality({r \in answer.data : r.low_stock})

(* app/reports/sales_repo.py, F.2: "only posted runs are financially        *)
(* settled": the report sums no run whose movements were undone.            *)
CancelledRunsExcluded ==
    ProductionAggregates(AllTime).total_amount =
        SumOver({r \in RunsIn(AllTime) : status[r] = "posted"}, RunCost)

=============================================================================
