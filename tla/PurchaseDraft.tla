---------------------------- MODULE PurchaseDraft ----------------------------
(***************************************************************************)
(* The draft of a purchase: its lines, the freight spread over them in     *)
(* proportion to their value, the further costs spread by value, by weight *)
(* or by hand, and the posting that receives the lines at their landed     *)
(* cost.  Amounts are in cents.                                            *)
(*                                                                         *)
(* The requests are transactions at READ COMMITTED.  An edit of a line or  *)
(* of the freight reads the status without a lock (BeginEdit), writes its  *)
(* own row and reads the freight and the lines to share it over (the       *)
(* Write... actions), and then updates the lines, shares out the costs as  *)
(* it finds them and commits (FinishEdit).  Another edit may commit        *)
(* between any two of these steps, unless one waits for a row the other    *)
(* has locked; two that wait for each other are a deadlock that PostgreSQL *)
(* ends by refusing one.  A change of the costs holds the row of the       *)
(* purchase from its first read, but not the lines: it too reads and       *)
(* writes in two steps.  post_purchase and delete_draft hold the row of    *)
(* the purchase and are one step.  All lines are classified ones; the two  *)
(* kinds of receipt meet in module Purchases.                              *)
(***************************************************************************)
EXTENDS Requests, Integers, FiniteSets, Functions, FiniteSetsExt, Cents

CONSTANTS
    Line,        \* ids the sequence of "purchase_lines" may give
    Cost,        \* ids of "purchase_costs"
    Subtotal,    \* values of line_subtotal
    Mass,        \* masses of a line in base units; 0 for a unit without mass
    Freight,     \* amounts of shipping
    Amount,      \* amounts of a further cost
    NoShipping,  \* there is no row in "purchase_shipping"
    NoLineId     \* the line of an edit that names none

ASSUME CentsAssumption ==
    Subtotal \subseteq Nat /\ Mass \subseteq Nat /\ Freight \subseteq Nat /\ Amount \subseteq Nat
ASSUME FiniteAssumption == IsFiniteSet(Line) /\ IsFiniteSet(Cost)
ASSUME NoShippingAssumption == NoShipping \notin Nat
ASSUME NoLineIdAssumption == NoLineId \notin Line

VARIABLES
    status,      \* lifecycle_status; "none" before create_draft, "gone" when deleted
    etag,        \* parity of purchases.updated_at, of which the ETag is made
    line,        \* purchase_lines
    given,       \* ids of lines the sequence has given
    shipping,    \* purchase_shipping.amount
    cost,        \* purchase_costs with their purchase_cost_allocations
    received,    \* total_cost of the purchase_receipt movement of a line
    editing,     \* the transaction of each request
    settled      \* history: the last edit to commit found the set of lines,
                 \* whether they have a value, and the freight as it had read them

draftVars == <<status, etag, line, given, shipping, cost, received, editing, settled>>

NoShares == [l \in Line |-> 0]

NewLine(n, s, m) ==
    [live |-> TRUE, number |-> n, subtotal |-> s, mass |-> m, freight |-> 0,
     capitalizable |-> 0, operating |-> 0, total |-> s]
NoLine ==
    [live |-> FALSE, number |-> 0, subtotal |-> 0, mass |-> 0, freight |-> 0,
     capitalizable |-> 0, operating |-> 0, total |-> 0]

NoCost == [live |-> FALSE, amount |-> 0, method |-> "manual",
           capitalizable |-> FALSE, share |-> NoShares]
NoCosts == [c \in Cost |-> NoCost]

(* A request without a transaction.  "written" says that the transaction    *)
(* holds what it wrote; seen, goods, freight and costs are what it computed *)
(* from its reads: the lines, the sum of their values, the share of each in *)
(* the freight, and the costs with their allocations.                       *)
NoEdit == [op |-> "none", written |-> FALSE, number |-> 0, line |-> NoLineId,
           subtotal |-> 0, mass |-> 0, shipping |-> NoShipping, seen |-> {},
           goods |-> 0, freight |-> NoShares, costs |-> NoCosts]

LineEdits == {"add", "update", "delete", "shipping"}

Methods == {"line_value", "weight", "manual"}

Rows(ln) == {l \in Line : ln[l].live}
Costs(co) == {c \in Cost : co[c].live}

(* ORDER BY line_number *)
LastRow(ln) == CHOOSE l \in Rows(ln) : \A k \in Rows(ln) : ln[k].number <= ln[l].number

NextNumber(ln) == 1 + Max({0} \cup {ln[l].number : l \in Rows(ln)})

(* delete_line numbers the lines that remain from 1. *)
Renumbered(ln) ==
    [l \in Line |->
        IF ln[l].live
        THEN [ln[l] EXCEPT !.number = Cardinality({k \in Rows(ln) : ln[k].number <= ln[l].number})]
        ELSE NoLine]

(* Sums over the rows of a purchase; absent rows are worth nothing. *)
Subtotals(ln) == SumFunction([l \in Line |-> ln[l].subtotal])
Masses(ln) == SumFunction([l \in Line |-> ln[l].mass])
Shares(s) == SumFunction(s)

Value(sh) == IF sh = NoShipping THEN 0 ELSE sh

-----------------------------------------------------------------------------
(* Shares of an amount: quantize(0.01) rounds half to even, ROUND_DOWN cuts. *)

(* Every line but the last gets its rounded share, the last what remains. *)
Spread(ln, amount, share) ==
    [l \in Line |->
        CASE l \notin Rows(ln)                -> 0
          [] l \in Rows(ln) \ {LastRow(ln)}  -> share[l]
          [] OTHER -> amount - SumFunction([k \in Line |->
                                  IF k \in Rows(ln) \ {l} THEN share[k] ELSE 0])]

(* Mutation: each line keeps its own rounded share. *)
RoundedShares(ln, amount) ==
    [l \in Line |-> IF l \notin Rows(ln) \/ Subtotals(ln) = 0 THEN 0
                    ELSE HalfEven(amount * ln[l].subtotal, Subtotals(ln))]

FreightShares(ln, amount) ==
    IF Subtotals(ln) = 0 THEN NoShares
    ELSE Spread(ln, amount,
                [l \in Line |-> HalfEven(amount * ln[l].subtotal, Subtotals(ln))])

(* ck_purchase_lines_alloc_ship_nonneg *)
FreightFits(ln, sh) == \A l \in Line : FreightShares(ln, Value(sh))[l] >= 0

(* allocate_purchase_cost: the weights of a method, and when it refuses. *)
Allocatable(ln, c) ==
    IF Rows(ln) = {} THEN c.amount = 0
    ELSE CASE c.method = "manual"     -> Shares(c.share) = c.amount
           [] c.method = "line_value" -> Subtotals(ln) > 0
           [] c.method = "weight"     -> \A l \in Rows(ln) : ln[l].mass > 0

Allocated(ln, c) ==
    IF c.method = "manual" \/ Rows(ln) = {} THEN c.share
    ELSE Spread(ln, c.amount,
                [l \in Line |-> IF c.method = "line_value"
                                THEN (c.amount * ln[l].subtotal) \div Subtotals(ln)
                                ELSE (c.amount * ln[l].mass) \div Masses(ln)])

Carried(co, l, capitalizable) ==
    SumFunction([c \in Cost |->
        IF co[c].live /\ co[c].capitalizable = capitalizable THEN co[c].share[l] ELSE 0])

(* Mutation: the allocations of the costs stay what they were. *)
StaleAllocations(ln, co) == co

Reallocated(ln, co) ==
    [c \in Cost |-> IF co[c].live THEN [co[c] EXCEPT !.share = Allocated(ln, co[c])] ELSE co[c]]

WithShares(ln, freight, co) ==
    [l \in Line |->
        IF ~ln[l].live THEN NoLine
        ELSE LET cap == Carried(co, l, TRUE)
                 op  == Carried(co, l, FALSE)
             IN  [ln[l] EXCEPT !.freight = freight[l], !.capitalizable = cap, !.operating = op,
                               !.total = ln[l].subtotal + freight[l] + cap + op]]

(* _recompute_purchase_cost_allocations on the lines ln, of which each has  *)
(* its share of the freight.                                                *)
AllAllocatable(ln, co) == \A c \in Costs(co) : Allocatable(ln, co[c])

RecomputeCosts(ln, freight, co) ==
    /\ AllAllocatable(ln, co)
    /\ cost' = Reallocated(ln, co)
    /\ line' = WithShares(ln, freight, Reallocated(ln, co))

-----------------------------------------------------------------------------
(* Locks *)

(* The committed lines a transaction holds: a deletion numbers all of them. *)
LinesHeld(r) ==
    IF ~editing[r].written THEN {}
    ELSE CASE editing[r].op = "update" -> {editing[r].line}
           [] editing[r].op = "delete" -> Rows(line)
           [] OTHER -> {}

Others(r) == Request \ {r}

LinesFree(r) == \A o \in Others(r) : LinesHeld(o) = {}

(* An inserted row holds the row of the purchase it refers to, in the mode  *)
(* that only SELECT ... FOR UPDATE waits for.                               *)
RefersToPurchase(r) ==
    /\ editing[r].written
    /\ editing[r].op = "add" \/ (editing[r].op = "shipping" /\ shipping = NoShipping)

ChangesCosts(r) == editing[r].op = "cost"

NoCostChange == \A r \in Request : ~ChangesCosts(r)

(* SELECT ... FROM purchases ... FOR UPDATE *)
PurchaseFree == NoCostChange /\ \A r \in Request : ~RefersToPurchase(r)

-----------------------------------------------------------------------------

DraftInit ==
    /\ status = "none"
    /\ etag = 0
    /\ line = [l \in Line |-> NoLine]
    /\ given = {}
    /\ shipping = NoShipping
    /\ cost = NoCosts
    /\ received = NoShares
    /\ editing = [r \in Request |-> NoEdit]
    /\ settled = TRUE

(* POST /purchases, with its lines and perhaps its freight *)
CreateDraft(L, n, s, m, sh) ==
    /\ status = "none"
    /\ {n[l] : l \in L} = 1 .. Cardinality(L)
    /\ LET ln == [l \in Line |-> IF l \in L THEN NewLine(n[l], s[l], m[l]) ELSE NoLine]
       IN  IF sh = NoShipping
           THEN line' = ln /\ UNCHANGED cost
           ELSE /\ FreightFits(ln, sh)
                /\ RecomputeCosts(ln, FreightShares(ln, Value(sh)), cost)
    /\ given' = L
    /\ shipping' = sh
    /\ status' = "draft"
    /\ settled' = TRUE
    /\ UNCHANGED <<etag, received, editing>>

(* The status and the ETag are read without a lock. *)
BeginEdit(r, op) ==
    /\ status = "draft"
    /\ editing[r].op = "none"
    /\ editing' = [editing EXCEPT ![r].op = op]
    /\ UNCHANGED <<status, etag, line, given, shipping, cost, received, settled>>

(* next_line_number *)
NumberLine(r) ==
    /\ editing[r].op = "add" /\ editing[r].number = 0
    /\ editing' = [editing EXCEPT ![r].number = NextNumber(line)]
    /\ UNCHANGED <<status, etag, line, given, shipping, cost, received, settled>>

(* The lines as the transaction e sees them, its own row included. *)
WithOwn(e) ==
    CASE e.op = "add"    -> [line EXCEPT ![e.line] = NewLine(e.number, e.subtotal, e.mass)]
      [] e.op = "update" -> [line EXCEPT ![e.line].subtotal = e.subtotal, ![e.line].mass = e.mass]
      [] e.op = "delete" -> Renumbered([line EXCEPT ![e.line] = NoLine])
      [] OTHER -> line

(* The own row is written, and _recompute_shipping_allocation reads the     *)
(* freight, the sum of the lines and the lines.  Once posted_at is set, a   *)
(* trigger refuses to write the allocation of a cost; an edit that began    *)
(* to write before the post may have been in time.                          *)
WritesAndReads(r, e) ==
    /\ editing[r].op = e.op /\ ~editing[r].written
    /\ status # "gone"
    /\ status = "posted" => Costs(cost) = {}
    /\ editing' = [editing EXCEPT ![r] =
          [e EXCEPT !.written = TRUE,
                    !.seen    = Rows(WithOwn(e)),
                    !.goods   = Subtotals(WithOwn(e)),
                    !.freight = FreightShares(WithOwn(e), Value(e.shipping))]]
    /\ UNCHANGED <<status, etag, line, shipping, cost, received, settled>>

(* uq_purchase_lines_purchase_num: two inserts wait for each other's end,   *)
(* and a second row with the number is refused.                             *)
NumberIsFree(r, n) ==
    /\ \A l \in Rows(line) : line[l].number # n
    /\ \A o \in Others(r) : RefersToPurchase(o) => editing[o].number # n

WriteAdded(r, l, s, m) ==
    /\ editing[r].number > 0
    /\ NoCostChange
    /\ NumberIsFree(r, editing[r].number)
    /\ l \in Line \ given
    /\ given' = given \cup {l}
    /\ WritesAndReads(r, [editing[r] EXCEPT !.op = "add", !.line = l, !.subtotal = s, !.mass = m,
                                            !.shipping = shipping])

WriteUpdated(r, l, s, m) ==
    /\ l \in Rows(line)
    /\ \A o \in Others(r) : l \notin LinesHeld(o)
    /\ WritesAndReads(r, [NoEdit EXCEPT !.op = "update", !.line = l, !.subtotal = s, !.mass = m,
                                        !.shipping = shipping])
    /\ UNCHANGED given

AssignedByHand(l) ==
    \E c \in Costs(cost) : cost[c].method = "manual" /\ cost[c].share[l] > 0

(* The allocations of the line go with it; those that a change of the costs *)
(* writes, of which each refers to a line, are waited for.                  *)
WriteDeleted(r, l) ==
    /\ l \in Rows(line)
    /\ ~AssignedByHand(l)
    /\ LinesFree(r)
    /\ NoCostChange
    /\ WritesAndReads(r, [NoEdit EXCEPT !.op = "delete", !.line = l, !.shipping = shipping])
    /\ UNCHANGED given

(* POST and PATCH /purchases/{id}/shipping: one row, inserted or updated *)
WriteShipping(r, amount) ==
    /\ \A o \in Others(r) : ~(editing[o].op = "shipping" /\ editing[o].written)
    /\ shipping = NoShipping => NoCostChange
    /\ WritesAndReads(r, [NoEdit EXCEPT !.op = "shipping", !.shipping = amount])
    /\ UNCHANGED given

(* The freight of the lines that were read and still exist is updated, the  *)
(* costs are shared out over the lines as they are now, and the edit        *)
(* commits.  Every line is written, and every allocation of a cost.         *)
FinishEdit(r) ==
    LET e  == editing[r]
        ln == WithOwn(e)
        freight == [l \in Line |-> IF l \in e.seen THEN e.freight[l] ELSE ln[l].freight]
        co == IF e.op = "delete"
              THEN [c \in Cost |-> [cost[c] EXCEPT !.share[e.line] = 0]] ELSE cost
    IN  /\ e.written /\ e.op \in LineEdits
        /\ LinesFree(r)
        /\ NoCostChange \/ Costs(cost) = {}
        /\ \A l \in Rows(ln) : freight[l] >= 0
        /\ RecomputeCosts(ln, freight, co)
        /\ shipping' = IF e.op = "shipping" THEN e.shipping ELSE shipping
        /\ settled' = /\ e.seen = Rows(line')
                      /\ e.shipping = shipping'
                      /\ e.goods > 0 <=> Subtotals(line') > 0
        /\ editing' = [editing EXCEPT ![r] = NoEdit]
        /\ UNCHANGED <<status, etag, given, received>>

(* PATCH /purchases/{id}: the only edit that writes the row of the purchase *)
UpdateHeader(r) ==
    /\ editing[r].op = "header"
    /\ status # "gone"
    /\ NoCostChange
    /\ etag' = 1 - etag
    /\ editing' = [editing EXCEPT ![r] = NoEdit]
    /\ UNCHANGED <<status, line, given, shipping, cost, received, settled>>

(* A check after BeginEdit, a deadlock or a failed statement ends the       *)
(* transaction.                                                             *)
Refused(r) ==
    /\ editing[r].op # "none"
    /\ editing' = [editing EXCEPT ![r] = NoEdit]
    /\ UNCHANGED <<status, etag, line, given, shipping, cost, received, settled>>

(* A change of the costs takes the row of the purchase, reads the lines and *)
(* writes the allocations of every cost; each refers to a line.             *)
ChangeCosts(r, co) ==
    /\ status = "draft"
    /\ editing[r].op = "none"
    /\ PurchaseFree
    /\ \A o \in Request : ~(editing[o].op = "delete" /\ editing[o].written)
    /\ AllAllocatable(line, co)
    /\ editing' = [editing EXCEPT ![r] =
          [NoEdit EXCEPT !.op = "cost", !.written = TRUE, !.costs = Reallocated(line, co)]]
    /\ UNCHANGED <<status, etag, line, given, shipping, cost, received, settled>>

(* POST /purchases/{id}/costs *)
AddCost(r, c, amount, method, capitalizable, share) ==
    /\ ~cost[c].live
    /\ IF method = "manual" THEN Shares(share) = amount /\ Rows(line) # {}
                            ELSE share = NoShares
    /\ \A l \in Line \ Rows(line) : share[l] = 0
    /\ ChangeCosts(r, [cost EXCEPT ![c] = [live |-> TRUE, amount |-> amount, method |-> method,
                                           capitalizable |-> capitalizable, share |-> share]])

(* DELETE /purchases/{id}/costs/{cost_id} *)
DeleteCost(r, c) ==
    /\ cost[c].live
    /\ ChangeCosts(r, [cost EXCEPT ![c] = NoCost])

(* The costs of the lines are updated, their freight is left as it is. *)
FinishCosts(r) ==
    LET e == editing[r]
    IN  /\ e.op = "cost"
        /\ LinesFree(r)
        /\ cost' = e.costs
        /\ line' = WithShares(line, [l \in Line |-> line[l].freight], e.costs)
        /\ etag' = 1 - etag
        /\ editing' = [editing EXCEPT ![r] = NoEdit]
        /\ UNCHANGED <<status, given, shipping, received, settled>>

(* Mutation: the movement carries the line total, operating costs included. *)
LineTotal(l) == line[l].total

(* Goods, freight and capitalizable costs; operating costs stay outside. *)
LandedCost(l) == line[l].subtotal + line[l].freight + line[l].capitalizable

(* POST /purchases/{id}/post; ck_sm_total_cost_nonzero refuses a movement   *)
(* without value.                                                           *)
Post ==
    /\ status = "draft"
    /\ PurchaseFree
    /\ Rows(line) # {}
    /\ \A l \in Rows(line) : LandedCost(l) > 0
    /\ received' = [l \in Line |-> IF line[l].live THEN LandedCost(l) ELSE 0]
    /\ status' = "posted"
    /\ etag' = 1 - etag
    /\ UNCHANGED <<line, given, shipping, cost, editing, settled>>

(* DELETE /purchases/{id}: lines and costs go with it, once no transaction  *)
(* holds one; an allocation restricts the deletion of its line.             *)
DeleteDraft ==
    /\ status = "draft"
    /\ \A r \in Request : ~editing[r].written
    /\ Costs(cost) = {} \/ Rows(line) = {}
    /\ status' = "gone"
    /\ line' = [l \in Line |-> NoLine]
    /\ cost' = NoCosts
    /\ shipping' = NoShipping
    /\ settled' = TRUE
    /\ UNCHANGED <<etag, given, received, editing>>

DraftNext ==
    \/ \E L \in SUBSET Line, n \in [Line -> 0 .. Cardinality(Line)],
          s \in [Line -> Subtotal], m \in [Line -> Mass], sh \in Freight \cup {NoShipping} :
             CreateDraft(L, n, s, m, sh)
    \/ \E r \in Request, op \in LineEdits \cup {"header"} : BeginEdit(r, op)
    \/ \E r \in Request, l \in Line, s \in Subtotal, m \in Mass :
          WriteAdded(r, l, s, m) \/ WriteUpdated(r, l, s, m)
    \/ \E r \in Request, l \in Line : WriteDeleted(r, l)
    \/ \E r \in Request, amount \in Freight : WriteShipping(r, amount)
    \/ \E r \in Request : NumberLine(r) \/ FinishEdit(r) \/ UpdateHeader(r) \/ Refused(r)
    \/ \E r \in Request, c \in Cost, amount \in Amount, method \in Methods,
          capitalizable \in BOOLEAN : \E share \in [Line -> 0 .. amount] :
             AddCost(r, c, amount, method, capitalizable, share)
    \/ \E r \in Request, c \in Cost : DeleteCost(r, c)
    \/ \E r \in Request : FinishCosts(r)
    \/ Post
    \/ DeleteDraft

DraftSpec == DraftInit /\ [][DraftNext]_draftVars

-----------------------------------------------------------------------------

LineRow ==
    [live : BOOLEAN, number : Nat, subtotal : Nat, mass : Nat, freight : Nat,
     capitalizable : Nat, operating : Nat, total : Nat]
CostRow ==
    [live : BOOLEAN, amount : Nat, method : Methods, capitalizable : BOOLEAN,
     share : [Line -> Nat]]
Transaction ==
    [op : LineEdits \cup {"none", "header", "cost"}, written : BOOLEAN, number : Nat,
     line : Line \cup {NoLineId}, subtotal : Nat, mass : Nat, shipping : Nat \cup {NoShipping},
     seen : SUBSET Line, goods : Nat, freight : [Line -> Int], costs : [Cost -> CostRow]]

DraftTypeOK ==
    /\ status \in {"none", "draft", "posted", "gone"}
    /\ etag \in {0, 1}
    /\ line \in [Line -> LineRow]
    /\ given \subseteq Line
    /\ shipping \in Nat \cup {NoShipping}
    /\ cost \in [Cost -> CostRow]
    /\ received \in [Line -> Nat]
    /\ editing \in [Request -> Transaction]
    /\ settled \in BOOLEAN

(* What the lines should bear of the freight: all of it, once they have any *)
(* value.                                                                   *)
FreightDue == IF Subtotals(line) > 0 THEN Value(shipping) ELSE 0

FreightBorne == SumFunction([l \in Line |-> line[l].freight])

(* No cent of the freight is lost or invented by rounding, whatever lines   *)
(* were added, changed or deleted since; and an edit during which no other  *)
(* one changed what it shares out, or over what, repairs what overlapping   *)
(* edits left (_recompute_shipping_allocation).                             *)
FreightAllocated == settled => FreightBorne = FreightDue

(* "Pro-rata by subtotal share; cents floor/round on the last line": the    *)
(* shares of the lines are the freight.                                     *)
FreightAlwaysAllocated == FreightBorne = FreightDue

(* Every further cost is on the lines in full, and on existing ones only.   *)
CostsAllocated ==
    \A c \in Costs(cost) :
        /\ Shares(cost[c].share) = cost[c].amount
        /\ \A l \in Line \ Rows(line) : cost[c].share[l] = 0

(* The stored total of the lines is goods, freight and every further cost.  *)
TotalsAgree ==
    SumFunction([l \in Line |-> line[l].total])
        = Subtotals(line) + FreightBorne + SumFunction([c \in Cost |-> cost[c].amount])

CapitalizableCosts ==
    SumFunction([c \in Cost |-> IF cost[c].capitalizable THEN cost[c].amount ELSE 0])

(* What a post takes into stock is worth the goods, the freight and the     *)
(* capitalizable costs of the purchase, to the cent (BR-PURCHASE-005); when *)
(* overlapping edits left the shares of the freight wrong, the shares.      *)
ReceivedAtLandedCost ==
    [][status = "draft" /\ status' = "posted" =>
          SumFunction(received') = Subtotals(line) + CapitalizableCosts
                                     + IF settled THEN FreightDue ELSE FreightBorne]_draftVars

(* BR-PURCHASE-005 without the exception. *)
ReceivedInFull ==
    [][status = "draft" /\ status' = "posted" =>
          SumFunction(received') = Subtotals(line) + CapitalizableCosts + FreightDue]_draftVars

(* "Bump the parent so ETag changes for the next caller": an edit of the    *)
(* lines or of the freight changes the ETag of the purchase.                *)
EtagRotates ==
    [][status = "draft" /\ status' = "draft" /\ <<line, shipping>>' # <<line, shipping>>
          => etag' # etag]_draftVars

(* ck_purchase_lines_alloc_ship_nonneg never meets a negative share: every  *)
(* freight can be spread over every set of lines.                           *)
SharesNonNegative ==
    \A f \in Freight : FreightFits(line, f)

=============================================================================
