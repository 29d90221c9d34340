----------------------------- MODULE Production -----------------------------
(***************************************************************************)
(* ProductionRunService: a run is drafted, its inputs, overhead and output *)
(* are edited, it is posted and may be cancelled.  Every operation locks   *)
(* the row of the run FOR UPDATE before it reads anything, and writes all  *)
(* its rows in that transaction, so it is one step here; the locks on the  *)
(* products are the subject of StockLedger.                                *)
(*                                                                         *)
(* Money is counted in cents, unit costs in hundredths of a cent           *)
(* (NUMERIC(15,4)), quantities in whole units.  Products and cost types    *)
(* stay active.                                                            *)
(***************************************************************************)
EXTENDS Integers, FiniteSets, Sequences, SequencesExt, Functions

CONSTANTS
    Run,            \* ids of production runs
    Product,        \* ids of products
    Producible,     \* products that may be the output of a run
    NegativeOK,     \* products that may go below zero (BR-STOCK-011)
    OnHand,         \* stock of the products without the runs
    Cash,           \* cash balance without the runs
    Quantity,       \* quantities a request may ask for
    Basis,          \* unit costs the valuation may yield for an input
    Amount,         \* amounts of an overhead line
    MaxLines        \* bound: lines of each kind on a run

ASSUME RunAssumption == IsFiniteSet(Run)
ASSUME ProducibleAssumption == Producible \subseteq Product
ASSUME NegativeOKAssumption == NegativeOK \subseteq Product
ASSUME OnHandAssumption == OnHand \in [Product -> Int]
ASSUME CashAssumption == Cash \in Nat
ASSUME QuantityAssumption == Quantity \subseteq Nat \ {0}
ASSUME BasisAssumption == Basis \subseteq Nat
ASSUME AmountAssumption == Amount \subseteq Nat \ {0}
ASSUME MaxLinesAssumption == MaxLines \in Nat \ {0}

VARIABLES
    status,     \* production_runs.lifecycle_status, "none" before the insert
    output,     \* its output_product_id and output_quantity
    header,     \* its total_raw_cost, total_overhead_cost, finished_unit_cost
    input,      \* production_inputs, in the order of their line numbers
    overhead,   \* production_cost_lines, likewise
    outputRow,  \* the row of production_outputs
    moved,      \* sum of the quantities of the movements of a run, per product
    value,      \* sum of their total_cost
    paid        \* cash movements of a run

runVars == <<status, output, header, input, overhead, outputRow, moved, value, paid>>

InputLine == [product : Product, qty : Quantity, unit : Basis]
CostLine == [amount : Amount, cash : BOOLEAN]

Lines(S) == UNION {[1 .. n -> S] : n \in 0 .. MaxLines}

NoMovement == [p \in Product |-> 0]
NoOutput == [product |-> "none", qty |-> 0]
NoHeader == [raw |-> 0, overhead |-> 0, finished |-> 0]
NoRow == [product |-> "none", qty |-> 0, unit |-> 0, total |-> 0]

-----------------------------------------------------------------------------
(* Costs.  The service does not round its Decimals (_q2 and _q4 return them *)
(* as they are), the columns do: to the nearest, halves up.                  *)

Rounded(a, b) == (2 * a + b) \div (2 * b)

LineCost(l) == Rounded(l.qty * l.unit, 100)

RawCost(s) == SumFunction([i \in DOMAIN s |-> LineCost(s[i])])
Overhead(c) == SumFunction([i \in DOMAIN c |-> c[i].amount])
CashOverhead(c) ==
    SumFunction([i \in DOMAIN c |-> IF c[i].cash THEN c[i].amount ELSE 0])

(* finished_unit_cost; a run without costs gets the smallest positive one.  *)
Finished(total, q) == IF total = 0 THEN 1 ELSE Rounded(100 * total, q)

(* finished_unit_cost * quantity, where the unit cost was not rounded. *)
OutputCost(total, q) == IF total = 0 THEN Rounded(q, 100) ELSE total

Header(s, c, q) ==
    [raw |-> RawCost(s), overhead |-> Overhead(c),
     finished |-> Finished(RawCost(s) + Overhead(c), q)]

Row(s, c, o) ==
    [product |-> o.product, qty |-> o.qty,
     unit |-> Finished(RawCost(s) + Overhead(c), o.qty),
     total |-> OutputCost(RawCost(s) + Overhead(c), o.qty)]

(* _recompute_and_persist_totals, with ck_prun_finished_unit_cost_pos *)
Recompute(r, s, c, o) ==
    /\ Header(s, c, o.qty).finished > 0
    /\ header' = [header EXCEPT ![r] = Header(s, c, o.qty)]
    /\ outputRow' = [outputRow EXCEPT ![r] = Row(s, c, o)]

-----------------------------------------------------------------------------
(* Drafts *)

(* Mutation: the product of an input is not compared with the other inputs. *)
MayUseAgain(s, o, i, p) == p # o.product

(* A product that can be on line i: not the output, and on no other line. *)
MayUse(s, o, i, p) == p # o.product /\ \A j \in DOMAIN s : j # i => s[j].product # p

CreateDraft(r, o, s, c) ==
    /\ status[r] = "none"
    /\ o.product \in Producible
    /\ s # <<>>
    /\ \A i \in DOMAIN s : MayUse(s, o, i, s[i].product)
    /\ status' = [status EXCEPT ![r] = "draft"]
    /\ output' = [output EXCEPT ![r] = o]
    /\ input' = [input EXCEPT ![r] = s]
    /\ overhead' = [overhead EXCEPT ![r] = c]
    /\ Recompute(r, s, c, o)
    /\ UNCHANGED <<moved, value, paid>>

(* A new output is checked for producibility only. *)
UpdateDraft(r, o) ==
    /\ status[r] = "draft"
    /\ o.product # output[r].product => o.product \in Producible
    /\ output' = [output EXCEPT ![r] = o]
    /\ Recompute(r, input[r], overhead[r], o)
    /\ UNCHANGED <<status, input, overhead, moved, value, paid>>

(* Mutation: an edit does not look at the status of the run. *)
SetInputsAnyTime(r, s) ==
    /\ status[r] # "none"
    /\ input' = [input EXCEPT ![r] = s]
    /\ Recompute(r, s, overhead[r], output[r])
    /\ UNCHANGED <<status, output, overhead, moved, value, paid>>

SetInputs(r, s) ==
    /\ status[r] = "draft"
    /\ input' = [input EXCEPT ![r] = s]
    /\ Recompute(r, s, overhead[r], output[r])
    /\ UNCHANGED <<status, output, overhead, moved, value, paid>>

AddInput(r, l) ==
    /\ Len(input[r]) < MaxLines
    /\ MayUse(input[r], output[r], 0, l.product)
    /\ SetInputs(r, Append(input[r], l))

UpdateInput(r, i, l) ==
    /\ MayUse(input[r], output[r], i, l.product)
    /\ SetInputs(r, [input[r] EXCEPT ![i] = l])

(* The lines after it are renumbered. *)
DeleteInput(r, i) == SetInputs(r, RemoveAt(input[r], i))

SetOverhead(r, c) ==
    /\ status[r] = "draft"
    /\ overhead' = [overhead EXCEPT ![r] = c]
    /\ Recompute(r, input[r], c, output[r])
    /\ UNCHANGED <<status, output, input, moved, value, paid>>

AddCostLine(r, c) ==
    Len(overhead[r]) < MaxLines /\ SetOverhead(r, Append(overhead[r], c))
UpdateCostLine(r, i, c) == SetOverhead(r, [overhead[r] EXCEPT ![i] = c])

DeleteCostLine(r, i) == SetOverhead(r, RemoveAt(overhead[r], i))

-----------------------------------------------------------------------------
(* Posting and cancellation *)

Stock(p) == OnHand[p] + SumFunction([r \in Run |-> moved[r][p]])
Balance == Cash - SumFunction(paid)

(* The stock is compared with the first line of each product. *)
Suffices(s, i) ==
    LET p == s[i].product
    IN  (\A j \in 1 .. i - 1 : s[j].product # p) /\ p \notin NegativeOK
            => Stock(p) >= s[i].qty

(* Besides the checks of the service: ck_prun_finished_unit_cost_pos, and   *)
(* ck_sm_total_cost_nonzero for the movements.                               *)
CanPost(r) ==
    LET total == RawCost(input[r]) + Overhead(overhead[r])
    IN  /\ status[r] = "draft"
        /\ input[r] # <<>>
        /\ output[r].product \in Producible
        /\ total > 0 /\ Finished(total, output[r].qty) > 0
        /\ \A i \in DOMAIN input[r] : Suffices(input[r], i) /\ LineCost(input[r][i]) > 0
        /\ CashOverhead(overhead[r]) > 0 => Balance >= CashOverhead(overhead[r])

Consumed(s, p) ==
    SumFunction([i \in DOMAIN s |-> IF s[i].product = p THEN s[i].qty ELSE 0])

Post(r) ==
    LET s == input[r]
        o == output[r]
        total == RawCost(s) + Overhead(overhead[r])
    IN  /\ CanPost(r)
        /\ moved' = [moved EXCEPT ![r] =
              [p \in Product |-> (IF p = o.product THEN o.qty ELSE 0) - Consumed(s, p)]]
        /\ value' = [value EXCEPT ![r] = OutputCost(total, o.qty) - RawCost(s)]
        /\ paid' = [paid EXCEPT ![r] = CashOverhead(overhead[r])]
        /\ header' = [header EXCEPT ![r] = Header(s, overhead[r], o.qty)]
        /\ status' = [status EXCEPT ![r] = "posted"]
        /\ UNCHANGED <<output, input, overhead, outputRow>>

(* Mutation: the movement of the output is not reversed. *)
InputsOnly(r) == [p \in Product |-> IF p = output[r].product THEN moved[r][p] ELSE 0]

(* What is left of the movements of a run when each has its reversal. *)
AfterReversal(r) == NoMovement

(* The cash paid for overhead is not returned. *)
Cancel(r) ==
    /\ status[r] = "posted"
    /\ status' = [status EXCEPT ![r] = "cancelled"]
    /\ moved' = [moved EXCEPT ![r] = AfterReversal(r)]
    /\ value' = [value EXCEPT ![r] = 0]
    /\ UNCHANGED <<output, header, input, overhead, outputRow, paid>>

-----------------------------------------------------------------------------

RunInit ==
    /\ status = [r \in Run |-> "none"]
    /\ output = [r \in Run |-> NoOutput]
    /\ header = [r \in Run |-> NoHeader]
    /\ input = [r \in Run |-> <<>>]
    /\ overhead = [r \in Run |-> <<>>]
    /\ outputRow = [r \in Run |-> NoRow]
    /\ moved = [r \in Run |-> NoMovement]
    /\ value = [r \in Run |-> 0]
    /\ paid = [r \in Run |-> 0]

OutputChoice == [product : Product, qty : Quantity]

Edit(r) ==
    \/ \E o \in OutputChoice : UpdateDraft(r, o)
    \/ \E l \in InputLine : AddInput(r, l)
    \/ \E i \in DOMAIN input[r], l \in InputLine : UpdateInput(r, i, l)
    \/ \E i \in DOMAIN input[r] : DeleteInput(r, i)
    \/ \E c \in CostLine : AddCostLine(r, c)
    \/ \E i \in DOMAIN overhead[r], c \in CostLine : UpdateCostLine(r, i, c)
    \/ \E i \in DOMAIN overhead[r] : DeleteCostLine(r, i)

RunNext ==
    \E r \in Run :
        \/ \E o \in OutputChoice, s \in Lines(InputLine), c \in Lines(CostLine) :
              CreateDraft(r, o, s, c)
        \/ Edit(r) \/ Post(r) \/ Cancel(r)

RunSpec == RunInit /\ [][RunNext]_runVars

-----------------------------------------------------------------------------

RunTypeOK ==
    /\ status \in [Run -> {"none", "draft", "posted", "cancelled"}]
    /\ \A r \in Run : status[r] # "none" => output[r] \in OutputChoice
    /\ input \in [Run -> Lines(InputLine)]
    /\ overhead \in [Run -> Lines(CostLine)]
    /\ moved \in [Run -> [Product -> Int]]
    /\ value \in [Run -> Int]
    /\ paid \in [Run -> Nat]

(* The header and the row of the output say what the lines say, after any   *)
(* sequence of edits, of a draft, a posted and a cancelled run.              *)
TotalsAgree ==
    \A r \in Run : status[r] # "none" =>
        /\ header[r] = Header(input[r], overhead[r], output[r].qty)
        /\ outputRow[r] = Row(input[r], overhead[r], output[r])

(* The ledgers follow the run: nothing for a draft; for a posted run the    *)
(* output is worth exactly what the inputs were worth and the overhead cost *)
(* (BR-PROD cost rules); after a cancellation no stock, no value, and the   *)
(* cash paid for overhead still gone.                                        *)
LedgerFollowsRun ==
    \A r \in Run :
        /\ status[r] \in {"none", "draft"} => paid[r] = 0
        /\ status[r] # "posted" => moved[r] = NoMovement /\ value[r] = 0
        /\ status[r] = "posted" => value[r] = header[r].overhead
        /\ status[r] \in {"posted", "cancelled"} => paid[r] = CashOverhead(overhead[r])

(* A post takes no product below zero, although it compares the stock with  *)
(* one line of each product (post, "on-hand already captured").              *)
PostNeverOverdraws ==
    [][\A r \in Run : status[r] = "draft" /\ status'[r] = "posted" =>
          \A p \in Product \ NegativeOK : Stock(p)' < Stock(p) => Stock(p)' >= 0
      ]_runVars

(* "An input product cannot equal the output product" (create_draft, add_input). *)
NoCircularFlow ==
    \A r \in Run : status[r] = "posted" =>
        \A i \in DOMAIN input[r] : input[r][i].product # output[r].product

=============================================================================
