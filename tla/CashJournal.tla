----------------------------- MODULE CashJournal -----------------------------
(***************************************************************************)
(* Manual income and expense entries beside the other movements of cash.   *)
(* An entry and its movement are written in one transaction; a             *)
(* cancellation reads the entry and its movement without a lock, inserts   *)
(* the opposite movement, and updates the entry by its id alone.  Three    *)
(* statements of each transaction are told apart: its first reads, the     *)
(* insert of its movement, its commit.                                     *)
(*                                                                         *)
(* "overlap" and "raced" are history variables: they remember where two    *)
(* transactions met, which is where the code makes no promise.             *)
(***************************************************************************)
EXTENDS Requests, Integers, FiniteSets

CONSTANTS
    Entry,        \* ids of "manual_finance_entries"
    Income,       \* financial categories with entry_type "income"
    Expense,      \* financial categories with entry_type "expense"
    Method,       \* payment methods
    Amount,       \* amounts a client may ask for
    Nothing       \* no entry, category or method

Category == Income \cup Expense

(* Bound: what the other modules bring into the drawer, net. *)
CONSTANT MaxCash

ASSUME CategoryAssumption == Income \cap Expense = {}
ASSUME AmountAssumption == Amount \subseteq Nat \ {0}
ASSUME MaxCashAssumption == MaxCash \in Nat
ASSUME MethodAssumption == Method \cap Category = {}
ASSUME NothingAssumption == Nothing \notin Entry \cup Category \cup Method

VARIABLES
    cash,       \* SUM(cash_movements.amount) of the committed rows
    state,      \* lifecycle_status of an entry, "none" before it exists
    booked,     \* the amount of an entry, positive for an income
    of,         \* its category
    by,         \* its payment method
    movements,  \* number of its movements, [same |-> with its sign, opposite |-> with the other]
    category,   \* "active", "inactive" or "deleted"
    method,     \* "active", "inactive" or "deleted"
    txn,        \* the transaction of each request
    overlap,    \* entries two cancellations of which were open at once
    raced       \* two payments out of the drawer were open at once

vars == <<cash, state, booked, of, by, movements, category, method, txn, overlap, raced>>

books == <<cash, state, booked, of, by, movements>>
history == <<overlap, raced>>

NoTxn == [pc |-> "idle", op |-> "none", entry |-> Nothing, category |-> Nothing,
          method |-> Nothing, amount |-> 0]

Idle(r) == txn' = [txn EXCEPT ![r] = NoTxn]

Signed(c, a) == IF c \in Income THEN a ELSE - a

(* trg_cash_movements_balance_check: the committed rows and the new one. *)
Covers(v) == cash + v >= 0

(* Movements out of the drawer that are inserted and not committed. *)
OpenOutflow(r) ==
    \E o \in Request \ {r} : txn[o].pc = "inserted" /\ txn[o].amount < 0

Remember(r, v) == raced' = (raced \/ (v < 0 /\ OpenOutflow(r)))

-----------------------------------------------------------------------------
(* POST /manual-entries *)

(* The category and the method are active, an expense is covered. *)
StartCreate(r, e, c, m, a) ==
    /\ txn[r].pc = "idle"
    /\ state[e] = "none"
    /\ \A o \in Request : txn[o].entry # e
    /\ category[c] = "active"
    /\ method[m] = "active"
    /\ c \in Expense => cash >= a
    /\ txn' = [txn EXCEPT ![r] = [pc |-> "started", op |-> "create", entry |-> e,
                                  category |-> c, method |-> m, amount |-> Signed(c, a)]]
    /\ UNCHANGED <<books, category, method, history>>

(* insert_manual_entry and its movement; the foreign keys share their rows. *)
InsertEntry(r) ==
    /\ txn[r].pc = "started" /\ txn[r].op = "create"
    /\ category[txn[r].category] # "deleted"
    /\ method[txn[r].method] # "deleted"
    /\ Covers(txn[r].amount)
    /\ Remember(r, txn[r].amount)
    /\ txn' = [txn EXCEPT ![r].pc = "inserted"]
    /\ UNCHANGED <<books, category, method, overlap>>

CommitCreate(r) ==
    LET t == txn[r]
    IN  /\ t.pc = "inserted" /\ t.op = "create"
        /\ cash' = cash + t.amount
        /\ state' = [state EXCEPT ![t.entry] = "posted"]
        /\ booked' = [booked EXCEPT ![t.entry] = t.amount]
        /\ of' = [of EXCEPT ![t.entry] = t.category]
        /\ by' = [by EXCEPT ![t.entry] = t.method]
        /\ movements' = [movements EXCEPT ![t.entry].same = 1]
        /\ Idle(r)
        /\ UNCHANGED <<category, method, history>>

-----------------------------------------------------------------------------
(* POST /manual-entries/{id}/cancel *)

(* Mutation: an entry may be cancelled whatever its status. *)
AnyCancellable(e) == state[e] # "none"

Cancellable(e) == state[e] = "posted"

StartCancel(r, e) ==
    /\ txn[r].pc = "idle"
    /\ Cancellable(e)
    /\ overlap' = IF \E o \in Request : txn[o].entry = e THEN overlap \cup {e} ELSE overlap
    /\ txn' = [txn EXCEPT ![r] = [NoTxn EXCEPT !.pc = "started", !.op = "cancel", !.entry = e]]
    /\ UNCHANGED <<books, category, method, raced>>

(* The movement to reverse is any of the entry's: the query names neither   *)
(* its trigger nor an order.                                                *)
Reversal(e) ==
    {v \in {booked[e], - booked[e]} :
        \/ v = - booked[e] /\ movements[e].same > 0
        \/ v = booked[e] /\ movements[e].opposite > 0}

InsertReversal(r, v) ==
    /\ txn[r].pc = "started" /\ txn[r].op = "cancel"
    /\ v \in Reversal(txn[r].entry)
    /\ method[by[txn[r].entry]] # "deleted"
    /\ Covers(v)
    /\ Remember(r, v)
    /\ txn' = [txn EXCEPT ![r].pc = "inserted", ![r].amount = v]
    /\ UNCHANGED <<books, category, method, overlap>>

WithReversal(e, v) ==
    IF v = booked[e] THEN [movements[e] EXCEPT !.same = @ + 1]
                     ELSE [movements[e] EXCEPT !.opposite = @ + 1]

(* update_manual_entry_cancel has no condition on the status. *)
CommitCancel(r) ==
    LET t == txn[r]
    IN  /\ t.pc = "inserted" /\ t.op = "cancel"
        /\ cash' = cash + t.amount
        /\ state' = [state EXCEPT ![t.entry] = "cancelled"]
        /\ movements' = [movements EXCEPT ![t.entry] = WithReversal(t.entry, t.amount)]
        /\ Idle(r)
        /\ UNCHANGED <<booked, of, by, category, method, history>>

(* A check fails, the balance trigger raises, or the process dies. *)
Rollback(r) ==
    /\ txn[r].pc # "idle"
    /\ Idle(r)
    /\ UNCHANGED <<books, category, method, history>>

-----------------------------------------------------------------------------
(* Sales, purchases, refunds and production move cash too. *)

OtherCash(v) ==
    /\ Covers(v)
    /\ cash + v <= MaxCash
    /\ cash' = cash + v
    /\ raced' = (raced \/ (v < 0 /\ \E o \in Request :
                                txn[o].pc = "inserted" /\ txn[o].amount < 0))
    /\ UNCHANGED <<state, booked, of, by, movements, category, method, txn, overlap>>

-----------------------------------------------------------------------------
(* Financial categories and payment methods. *)

(* PATCH, deactivate *)
SetCategory(c, s) ==
    /\ category[c] # "deleted"
    /\ category' = [category EXCEPT ![c] = s]
    /\ UNCHANGED <<books, method, txn, history>>

SetMethod(m, s) ==
    /\ method[m] # "deleted"
    /\ method' = [method EXCEPT ![m] = s]
    /\ UNCHANGED <<books, category, txn, history>>

(* Mutation: a row may be deleted while a transaction that uses it is open. *)
UsedByCommitted(x) == \E e \in Entry : of[e] = x \/ by[e] = x

(* The foreign keys of the entries and of their movements: a deletion is    *)
(* refused for a committed row and waits for an uncommitted one.            *)
Used(x) ==
    \/ \E e \in Entry : of[e] = x \/ by[e] = x
    \/ \E r \in Request :
          /\ txn[r].pc = "inserted"
          /\ txn[r].category = x \/ txn[r].method = x

(* DELETE, only while nothing refers to the row *)
DeleteCategory(c) ==
    /\ category[c] # "deleted"
    /\ ~Used(c)
    /\ category' = [category EXCEPT ![c] = "deleted"]
    /\ UNCHANGED <<books, method, txn, history>>

DeleteMethod(m) ==
    /\ method[m] # "deleted"
    /\ ~Used(m)
    /\ method' = [method EXCEPT ![m] = "deleted"]
    /\ UNCHANGED <<books, category, txn, history>>

-----------------------------------------------------------------------------

Init ==
    /\ cash = 0
    /\ state = [e \in Entry |-> "none"]
    /\ booked = [e \in Entry |-> 0]
    /\ of = [e \in Entry |-> Nothing]
    /\ by = [e \in Entry |-> Nothing]
    /\ movements = [e \in Entry |-> [same |-> 0, opposite |-> 0]]
    /\ category = [c \in Category |-> "active"]
    /\ method = [m \in Method |-> "active"]
    /\ txn = [r \in Request |-> NoTxn]
    /\ overlap = {}
    /\ raced = FALSE

Next ==
    \/ \E r \in Request, e \in Entry, c \in Category, m \in Method, a \in Amount :
          StartCreate(r, e, c, m, a)
    \/ \E r \in Request, e \in Entry :
          StartCancel(r, e) \/ \E v \in {booked[e], - booked[e]} : InsertReversal(r, v)
    \/ \E r \in Request : InsertEntry(r) \/ CommitCreate(r) \/ CommitCancel(r) \/ Rollback(r)
    \/ \E a \in Amount : OtherCash(a) \/ OtherCash(- a)
    \/ \E c \in Category : DeleteCategory(c) \/ \E s \in {"active", "inactive"} : SetCategory(c, s)
    \/ \E m \in Method : DeleteMethod(m) \/ \E s \in {"active", "inactive"} : SetMethod(m, s)

Spec == Init /\ [][Next]_vars

-----------------------------------------------------------------------------

Txn ==
    [pc : {"idle", "started", "inserted"}, op : {"none", "create", "cancel"},
     entry : Entry \cup {Nothing}, category : Category \cup {Nothing},
     method : Method \cup {Nothing}, amount : Int]

TypeOK ==
    /\ cash \in Int
    /\ state \in [Entry -> {"none", "posted", "cancelled"}]
    /\ booked \in [Entry -> Int]
    /\ of \in [Entry -> Category \cup {Nothing}]
    /\ by \in [Entry -> Method \cup {Nothing}]
    /\ movements \in [Entry -> [same : Nat, opposite : Nat]]
    /\ category \in [Category -> {"active", "inactive", "deleted"}]
    /\ method \in [Method -> {"active", "inactive", "deleted"}]
    /\ txn \in [Request -> Txn]
    /\ overlap \subseteq Entry
    /\ raced \in BOOLEAN

(* An entry is in the drawer while it is posted, and has left it once it is *)
(* cancelled, unless two cancellations of it met: asking again, in whatever *)
(* order, with other entries and other movements in between, is harmless.   *)
CancelledOnce ==
    \A e \in Entry \ overlap :
        movements[e] = [same     |-> IF state[e] = "none" THEN 0 ELSE 1,
                        opposite |-> IF state[e] = "cancelled" THEN 1 ELSE 0]

(* INV-03, as far as the balance trigger can keep it: the drawer is never   *)
(* below zero unless two payments out of it were open at the same time.     *)
CashCovered == ~raced => cash >= 0

(* An entry keeps its category and its method: neither a deletion that      *)
(* raced its creation nor a later one takes them away.                      *)
ReferencesKept ==
    \A e \in Entry : state[e] # "none" =>
        category[of[e]] # "deleted" /\ method[by[e]] # "deleted"

(* INV-05: "Cancellation creates a reversing cash_movement (opposite        *)
(* direction, same amount)": one, whoever else cancels the entry.           *)
ReversedOnce ==
    \A e \in Entry : state[e] = "cancelled" => movements[e].same = movements[e].opposite

(* INV-03: cash >= 0. *)
CashNonNegative == cash >= 0

=============================================================================
