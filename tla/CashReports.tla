---------------------------- MODULE CashReports ----------------------------
(***************************************************************************)
(* What the reports and the dashboard say of the manual entries and of the *)
(* cash journal: every figure is computed from the committed rows of       *)
(* module CashJournal.  "w" is a window of module Periods and "C" the set  *)
(* of the window it is compared with, if any.  Cash movements are dated by *)
(* the clock of their request, so the cash flow is that of all time.       *)
(***************************************************************************)
EXTENDS CashJournal, Periods, Functions

CONSTANTS
    EntryDate,          \* manual_finance_entries.entry_date
    EntryRank,          \* position of an entry's id among the entries
    CapitalInjection    \* income categories that are owner's equity

ASSUME EntryDateAssumption == EntryDate \in [Entry -> Nat]
ASSUME EntryRankAssumption == EntryRank \in [Entry -> Nat]
ASSUME FiniteAssumption == IsFiniteSet(Entry)
ASSUME CapitalAssumption == CapitalInjection \subseteq Income

SumOver(S, F(_)) == SumFunction([x \in S |-> F(x)])

TypeOf(e) == IF of[e] \in Income THEN "income" ELSE "expense"

AmountOf(e) == IF booked[e] < 0 THEN - booked[e] ELSE booked[e]

-----------------------------------------------------------------------------
(* GET /reports/manual-income and /reports/manual-expense: every entry is   *)
(* listed, only the posted ones are summed                                  *)

EntriesIn(type, w) ==
    {e \in Entry : state[e] # "none" /\ TypeOf(e) = type /\ Within(EntryDate[e], w)}

(* Mutation: a cancelled entry is summed like any other. *)
AllEntriesIn(type, w) == EntriesIn(type, w)

PostedIn(type, w) == {e \in EntriesIn(type, w) : state[e] = "posted"}

EntryBefore(e, o) ==
    \/ EntryDate[e] > EntryDate[o]
    \/ EntryDate[e] = EntryDate[o] /\ EntryRank[e] < EntryRank[o]

ManualListed(type, w, page, size) == PageOf(EntriesIn(type, w), EntryBefore, page, size)

ManualAggregates(type, w) ==
    [entry_count  |-> Cardinality(PostedIn(type, w)),
     total_amount |-> SumOver(PostedIn(type, w), AmountOf)]

ManualReport(type, w, C) ==
    [data |-> ManualListed(type, w, 1, DefaultSize),
     total |-> Cardinality(EntriesIn(type, w)),
     comparison |-> {Comparison(ManualAggregates(type, w), ManualAggregates(type, c)) : c \in C}]

manual_income_report(q) == ManualReport("income", Window(q), Compared(q))
manual_expense_report(q) == ManualReport("expense", Window(q), Compared(q))

(* What the profit and loss takes from the entries: money the owner puts in *)
(* is no income of the business.                                            *)
OtherIncome(w) ==
    SumOver({e \in PostedIn("income", w) : of[e] \notin CapitalInjection}, AmountOf)
ManualExpense(w) == SumOver(PostedIn("expense", w), AmountOf)

(* GET /dashboard, expense_breakdown: categories that are no longer active  *)
(* are left out.                                                            *)
ExpenseBreakdown(w) ==
    [c \in {k \in Expense : category[k] = "active" /\ \E e \in PostedIn("expense", w) : of[e] = k} |->
        SumOver({e \in PostedIn("expense", w) : of[e] = c}, AmountOf)]

-----------------------------------------------------------------------------
(* GET /reports/cash-flow, as far as the movements of the entries go *)

(* The amounts of the movements of an entry that came in, and that went out. *)
CameIn(e) ==
    AmountOf(e) * (IF booked[e] > 0 THEN movements[e].same ELSE movements[e].opposite)
WentOut(e) ==
    AmountOf(e) * (IF booked[e] > 0 THEN movements[e].opposite ELSE movements[e].same)
NetOf(e) == CameIn(e) - WentOut(e)

CashFlowAggregates ==
    [movement_count |-> SumOver(Entry, LAMBDA e : movements[e].same + movements[e].opposite),
     cash_in        |-> SumOver(Entry, CameIn),
     cash_out       |-> - SumOver(Entry, WentOut),
     net            |-> SumOver(Entry, NetOf)]

CashFlowReport(previous) ==
    [total |-> CashFlowAggregates.movement_count,
     comparison |-> {Comparison(CashFlowAggregates, p) : p \in previous}]

-----------------------------------------------------------------------------

Ever == [from |-> 0, to |-> Max(Horizon)]

(* The manual reports, which leave cancelled entries out because "a         *)
(* cancellation creates a reversing cash_movement", and the cash flow,      *)
(* which has every movement, come to the same net figure, unless two        *)
(* cancellations of an entry met.                                           *)
ManualNetIsCashNet ==
    overlap = {} =>
        /\ ManualAggregates("income", Ever).total_amount
              - ManualAggregates("expense", Ever).total_amount = CashFlowAggregates.net
        /\ CashFlowAggregates.cash_in + CashFlowAggregates.cash_out = CashFlowAggregates.net

(* The breakdown of the dashboard adds up to the expenses of the profit and *)
(* loss beside it: both are the posted expense entries of the period        *)
(* (app/reports/dashboard_repo.py, MS-10).                                  *)
BreakdownAddsUp ==
    SumFunction(ExpenseBreakdown(Ever)) = ManualExpense(Ever)

=============================================================================
