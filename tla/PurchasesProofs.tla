-------------------------- MODULE PurchasesProofs --------------------------
(***************************************************************************)
(* What TLAPS proves of the purchases, for any number of purchases, lines, *)
(* returns and requests: first of the sequential document, whose sums over *)
(* lines and returns module SumTheorems reasons about, then that           *)
(* interleaved requests implement it, and so have all its invariants.      *)
(***************************************************************************)
EXTENDS PurchaseReports, SumTheorems

-----------------------------------------------------------------------------
(* The sequential document *)

(* A return belongs to a purchase from its insert on, and lines, credit and *)
(* collection of a return that was not created yet are empty.               *)
ReturnRows ==
    \A x \in Return :
        /\ retState[x] = "none" <=> retPurchase[x] = NoPurchase
        /\ retState[x] = "none" =>
              retQty[x] = NoQuantity /\ owed[x] = 0 /\ received[x] = 0

(* Only a purchase that was posted has returns. *)
NoDraftReturned ==
    \A x \in Return : retState[x] # "none" => status[retPurchase[x]] # "draft"

(* Inductive: a batch is only reversed while it is untouched, that is full, *)
(* so its balance needs the receipts to follow the status of the purchase.  *)
DocInv ==
    /\ DocTypeOK
    /\ ReceivedOnce
    /\ ReturnRows
    /\ NoDraftReturned
    /\ CollectedBounded
    /\ BatchNeverOverdrawn

USE NoPurchaseAssumption, PurchaseOfAssumption, UnsortedAssumption,
    QuantityAssumption, LineTotalAssumption, AmountAssumption, MaxAskedAssumption

(* Products and sums of the naturals a request or a row holds. *)
LEMMA NatTimes == \A a, b \in Nat : a * b \in Nat
  OBVIOUS

LEMMA FiniteLines ==
  /\ IsFiniteSet(Line)
  /\ IsFiniteSet(Return)
  /\ \A p \in Purchase : IsFiniteSet(LinesOf(p)) /\ LinesOf(p) \subseteq Line
  <1>1. IsFiniteSet(Line) /\ IsFiniteSet(Return)
    BY FiniteAssumption
  <1>2. \A p \in Purchase : LinesOf(p) \subseteq Line
    BY DEF LinesOf
  <1> QED
    BY <1>1, <1>2, FS_Subset

(* The quotient and the remainder of the rounding. *)
LEMMA DivMod ==
  ASSUME NEW a \in Nat, NEW b \in Nat \ {0}
  PROVE  /\ a \div b \in Nat /\ a % b \in 0 .. (b - 1)
         /\ a = b * (a \div b) + (a % b)
  <1>1. a \div b \in Int /\ a \div b >= 0
    OBVIOUS
  <1>2. a % b \in 0 .. (b - 1)
    OBVIOUS
  <1>3. a = b * (a \div b) + (a % b)
    OBVIOUS
  <1> QED
    BY <1>1, <1>2, <1>3

(* Rounding is off by half a cent at most. *)
LEMMA HalfEvenClose ==
  ASSUME NEW a \in Nat, NEW b \in Nat \ {0}
  PROVE  /\ HalfEven(a, b) \in Nat
         /\ 2 * (b * HalfEven(a, b)) <= 2 * a + b
  <1> DEFINE d == a \div b
             r == a % b
  <1>1. d \in Nat /\ r \in 0 .. (b - 1) /\ a = b * d + r
    BY DivMod
  <1>2. /\ HalfEven(a, b) = d \/ HalfEven(a, b) = d + 1
        /\ HalfEven(a, b) = d + 1 => 2 * r >= b
    BY <1>1 DEF HalfEven
  <1> HIDE DEF d, r
  <1>3. b * d \in Nat /\ b * (d + 1) = b * d + b
    BY <1>1
  <1> QED
    BY <1>1, <1>2, <1>3

LEMMA HalfEvenZero ==
  ASSUME NEW b \in Nat \ {0}
  PROVE  HalfEven(0, b) = 0
  <1>1. 0 \div b = 0 /\ 0 % b = 0
    OBVIOUS
  <1> QED
    BY <1>1 DEF HalfEven

(* The value of some units of a line is a natural: none for no units, and   *)
(* half a cent more than their part of the line at most.                    *)
LEMMA LineValueClose ==
  ASSUME NEW l \in Line, NEW n \in Nat
  PROVE  /\ LineValue(l, n) \in Nat
         /\ n = 0 => LineValue(l, n) = 0
         /\ 2 * (Quantity[l] * LineValue(l, n)) <= 2 * (n * LineTotal[l]) + Quantity[l]
  <1>1. LineTotal[l] \in Nat /\ Quantity[l] \in Nat \ {0} /\ n * LineTotal[l] \in Nat
    BY NatTimes
  <1>2. n = 0 => n * LineTotal[l] = 0
    BY <1>1
  <1> QED
    BY <1>1, <1>2, HalfEvenClose, HalfEvenZero DEF LineValue

(* The value of what a return names, and of a purchase, is a natural. *)
LEMMA ValueNat ==
  ASSUME NEW q \in [Line -> Nat]
  PROVE  ValueOf(q) \in Nat
  <1> DEFINE f == [l \in Line |-> LineValue(l, q[l])]
  <1>1. f \in [Line -> Nat]
    BY LineValueClose
  <1>2. ValueOf(q) = SumFunction(f)
    BY DEF ValueOf
  <1> HIDE DEF f
  <1> QED
    BY <1>1, <1>2, FiniteLines, SumFunNat

LEMMA TotalNat ==
  ASSUME NEW p \in Purchase
  PROVE  Total(p) \in Nat
  <1> DEFINE f == [l \in LinesOf(p) |-> LineTotal[l]]
  <1>1. f \in [LinesOf(p) -> Nat]
    BY FiniteLines
  <1>2. Total(p) = SumFunction(f)
    BY DEF Total
  <1> HIDE DEF f
  <1> QED
    BY <1>1, <1>2, FiniteLines, SumFunNat

(* What the posted returns took of a line is a natural, no less than what   *)
(* any of them took.                                                        *)
LEMMA ReturnedNat ==
  ASSUME DocTypeOK, NEW l \in Line
  PROVE  /\ Returned(l) \in Nat
         /\ \A x \in Return : retState[x] = "posted" => retQty[x][l] <= Returned(l)
  <1> DEFINE f == [x \in Return |-> IF retState[x] = "posted" THEN retQty[x][l] ELSE 0]
  <1>1. f \in [Return -> Nat]
    BY DEF DocTypeOK
  <1>2. \A x \in Return : retState[x] = "posted" => f[x] = retQty[x][l]
    OBVIOUS
  <1>3. Returned(l) = SumFunction(f)
    BY DEF Returned
  <1> HIDE DEF f
  <1> QED
    BY <1>1, <1>2, <1>3, FiniteLines, SumFunNat

(* Sums over the same rows are equal. *)
LEMMA ReturnedKept ==
  ASSUME NEW l \in Line,
         \A x \in Return :
            (IF retState'[x] = "posted" THEN retQty'[x][l] ELSE 0)
                = (IF retState[x] = "posted" THEN retQty[x][l] ELSE 0)
  PROVE  Returned(l)' = Returned(l)
  <1>1. [x \in Return |-> IF retState'[x] = "posted" THEN retQty'[x][l] ELSE 0]
            = [x \in Return |-> IF retState[x] = "posted" THEN retQty[x][l] ELSE 0]
    OBVIOUS
  <1> QED
    BY <1>1 DEF Returned

LEMMA ReturnedValueKept ==
  ASSUME NEW p \in Purchase,
         \A x \in Return :
            /\ (retState'[x] = "posted" /\ retPurchase'[x] = p)
                  <=> (retState[x] = "posted" /\ retPurchase[x] = p)
            /\ retState[x] = "posted" /\ retPurchase[x] = p => retQty'[x] = retQty[x]
  PROVE  ReturnedValue(p)' = ReturnedValue(p)
  <1>1. [x \in Return |-> IF retState'[x] = "posted" /\ retPurchase'[x] = p
                          THEN ValueOf(retQty'[x]) ELSE 0]
            = [x \in Return |-> IF retState[x] = "posted" /\ retPurchase[x] = p
                                THEN ValueOf(retQty[x]) ELSE 0]
    OBVIOUS
  <1> QED
    BY <1>1 DEF ReturnedValue, ActiveReturn

LEMMA ReceivableKept ==
  ASSUME NEW p \in Purchase,
         \A x \in Return :
            /\ (retPurchase'[x] = p /\ owed'[x] > 0) <=> (retPurchase[x] = p /\ owed[x] > 0)
            /\ retPurchase[x] = p /\ owed[x] > 0 =>
                  owed'[x] = owed[x] /\ received'[x] = received[x]
  PROVE  Receivable(p)' = Receivable(p)
  <1>1. [x \in Return |-> IF retPurchase'[x] = p /\ owed'[x] > 0
                          THEN owed'[x] - received'[x] ELSE 0]
            = [x \in Return |-> IF retPurchase[x] = p /\ owed[x] > 0
                                THEN owed[x] - received[x] ELSE 0]
    OBVIOUS
  <1> QED
    BY <1>1 DEF Receivable, IsObligation

(* The tables start empty and every purchase starts as a draft. *)
LEMMA InitDocInv == DocInit => DocInv
  <1> SUFFICES ASSUME DocInit PROVE DocInv
    OBVIOUS
  <1>1. DocTypeOK
    BY DEF DocInit, DocTypeOK, Status, NoQuantity
  <1>2. ReceivedOnce /\ BatchNeverOverdrawn
    BY DEF DocInit, ReceivedOnce, BatchNeverOverdrawn, NoQuantity
  <1>3. ReturnRows /\ NoDraftReturned /\ CollectedBounded
    BY DEF DocInit, ReturnRows, NoDraftReturned, CollectedBounded
  <1> QED
    BY <1>1, <1>2, <1>3 DEF DocInv

(* post_purchase *)
LEMMA PostKeepsDocInv ==
  ASSUME NEW p \in Purchase, DocInv, DocPost(p)
  PROVE  DocInv'
  <1> USE DEF DocPost, CanPost, PostWrites
  <1>1. DocTypeOK'
    BY DEF DocInv, DocTypeOK, Status
  <1>2. ReceivedOnce'
    BY DEF DocInv, DocTypeOK, ReceivedOnce, LinesOf, Status
  <1>3. ReturnRows' /\ NoDraftReturned' /\ CollectedBounded'
    BY DEF DocInv, DocTypeOK, ReturnRows, NoDraftReturned, CollectedBounded
  <1>4. BatchNeverOverdrawn'
    BY DEF DocInv, DocTypeOK, BatchNeverOverdrawn
  <1> QED
    BY <1>1, <1>2, <1>3, <1>4 DEF DocInv

(* add_payment *)
LEMMA PayKeepsDocInv ==
  ASSUME NEW p \in Purchase, NEW a \in Amount, DocInv, DocPay(p, a)
  PROVE  DocInv'
  <1> USE DEF DocPay, CanPay, PayWrites
  <1>1. DocTypeOK'
    BY DEF DocInv, DocTypeOK, Status
  <1>2. ReceivedOnce'
    <2>1. status[p] \in Status \ {"draft", "cancelled"}
      BY DEF DocInv, DocTypeOK
    <2>2. status'[p] \in Status \ {"draft", "cancelled"}
      BY <2>1 DEF DocInv, DocTypeOK, Status
    <2>3. \A t \in Purchase : t # p => status'[t] = status[t]
      BY DEF DocInv, DocTypeOK
    <2> QED
      BY <2>1, <2>2, <2>3 DEF DocInv, ReceivedOnce
  <1>3. ReturnRows' /\ CollectedBounded' /\ BatchNeverOverdrawn'
    BY DEF DocInv, ReturnRows, CollectedBounded, BatchNeverOverdrawn
  <1>4. NoDraftReturned'
    BY DEF DocInv, DocTypeOK, ReturnRows, NoDraftReturned
  <1> QED
    BY <1>1, <1>2, <1>3, <1>4 DEF DocInv

(* cancel_purchase *)
LEMMA CancelKeepsDocInv ==
  ASSUME NEW p \in Purchase, DocInv, DocCancel(p)
  PROVE  DocInv'
  <1>1. DocTypeOK'
    BY DEF DocCancel, CanCancel, CancelWrites, DocInv, DocTypeOK, Status
  <1>2. ReceivedOnce'
    BY DEF DocCancel, CanCancel, CancelWrites, DocInv, DocTypeOK, ReceivedOnce, Status
  <1>3. ReturnRows' /\ NoDraftReturned' /\ CollectedBounded'
    BY DEF DocCancel, CanCancel, CancelWrites, DocInv, DocTypeOK, ReturnRows,
           NoDraftReturned, CollectedBounded
  <1>4. BatchNeverOverdrawn'
    <2> SUFFICES ASSUME NEW l \in Unsorted PROVE balance'[l] >= 0
      BY DEF BatchNeverOverdrawn
    <2>1. /\ balance'[l] = IF l \in LinesOf(p) THEN balance[l] - receipt[l] ELSE balance[l]
          /\ status[p] # "draft" /\ l \in LinesOf(p) => balance[l] = Quantity[l]
      BY UnsortedAssumption DEF DocCancel, CanCancel, CancelWrites, Untouched
    <2>2. /\ balance[l] \in Int /\ balance[l] >= 0
          /\ Quantity[l] \in Nat
          /\ receipt[l] \in {0, Quantity[l]}
          /\ status[p] = "draft" /\ l \in LinesOf(p) => receipt[l] = 0
      BY UnsortedAssumption, QuantityAssumption
         DEF DocInv, DocTypeOK, ReceivedOnce, BatchNeverOverdrawn, LinesOf
    <2> QED
      BY <2>1, <2>2
  <1> QED
    BY <1>1, <1>2, <1>3, <1>4 DEF DocInv

(* create_return *)
LEMMA ReturnKeepsDocInv ==
  ASSUME NEW p \in Purchase, NEW x \in Return, NEW q \in Asked,
         DocInv, DocReturn(p, x, q)
  PROVE  DocInv'
  <1>1. /\ status[p] \in Returnable
        /\ retState[x] = "none"
        /\ \A l \in Unsorted : q[l] > 0 => q[l] <= balance[l]
        /\ AfterReturn(p, q) \in {"returned", "partially_returned"}
    BY DEF DocReturn, CanReturn, AfterReturn
  <1>2. /\ retState' = [retState EXCEPT ![x] = "posted"]
        /\ retPurchase' = [retPurchase EXCEPT ![x] = p]
        /\ retQty' = [retQty EXCEPT ![x] = q]
        /\ owed' = [owed EXCEPT ![x] = Credit(p, q)]
        /\ balance' = [l \in Line |-> balance[l] - q[l]]
        /\ status' = [status EXCEPT ![p] = AfterReturn(p, q)]
        /\ UNCHANGED <<paid, received, receipt, sorted, sortedOnce>>
    BY DEF DocReturn, ReturnWrites
  <1>3. q \in [Line -> Nat] /\ q \in [Line -> 0 .. MaxAsked]
    BY DEF Asked
  <1>4. Credit(p, q) \in Nat
    BY <1>3, ValueNat, TotalNat DEF Credit, DocInv, DocTypeOK
  <1>5. DocTypeOK'
    <2>1. status' \in [Purchase -> Status]
      BY <1>1, <1>2 DEF DocInv, DocTypeOK, Status
    <2>2. balance' \in [Line -> Int]
      BY <1>2, <1>3 DEF DocInv, DocTypeOK
    <2> QED
      BY <1>2, <1>3, <1>4, <2>1, <2>2 DEF DocInv, DocTypeOK
  <1>6. ReceivedOnce'
    <2>1. status'[p] \in Status \ {"draft", "cancelled"}
      BY <1>1, <1>2 DEF DocInv, DocTypeOK, Status
    <2>2. \A t \in Purchase : t # p => status'[t] = status[t]
      BY <1>2 DEF DocInv, DocTypeOK
    <2>3. status[p] \in Status \ {"draft", "cancelled"}
      BY <1>1 DEF Returnable, Status
    <2> QED
      BY <1>2, <2>1, <2>2, <2>3 DEF DocInv, ReceivedOnce
  <1>7. ReturnRows'
    BY <1>2 DEF DocInv, DocTypeOK, ReturnRows
  <1>8. CollectedBounded'
    BY <1>1, <1>2, <1>4 DEF DocInv, DocTypeOK, ReturnRows, CollectedBounded
  <1>9. BatchNeverOverdrawn'
    BY <1>1, <1>2, <1>3 DEF DocInv, DocTypeOK, BatchNeverOverdrawn
  <1>10. NoDraftReturned'
    BY <1>1, <1>2 DEF DocInv, DocTypeOK, ReturnRows, NoDraftReturned
  <1> QED
    BY <1>5, <1>6, <1>7, <1>8, <1>9, <1>10 DEF DocInv

(* What the cancellation of a return does to the status of its purchase. *)
LEMMA RecoveredStatus ==
  ASSUME NEW x \in Return, DocInv, DocCancelReturn(x)
  PROVE  /\ retPurchase[x] \in Purchase
         /\ \A t \in Purchase : t # retPurchase[x] => status'[t] = status[t]
         /\ status' \in [Purchase -> Status]
         /\ LET p == retPurchase[x]
            IN  IF status[p] = "cancelled" THEN status'[p] = "cancelled"
                ELSE status'[p] \in Status \ {"draft", "cancelled"}
  <1> DEFINE p == retPurchase[x]
             to == Recovered(p, ActiveWithout(p, x))
  <1>1. p \in Purchase
    BY DEF DocInv, DocTypeOK, ReturnRows, DocCancelReturn, CanCancelReturn
  <1>2. to \in Status \ {"draft", "cancelled"}
    BY DEF Recovered, Status
  <1>3. status' = [status EXCEPT ![p] = IF @ = "cancelled" THEN @ ELSE to]
    BY DEF DocCancelReturn, CancelReturnWrites, StatusWithout
  <1> QED
    BY <1>1, <1>2, <1>3 DEF DocInv, DocTypeOK, Status

(* cancel_return *)
LEMMA CancelReturnKeepsDocInv ==
  ASSUME NEW x \in Return, DocInv, DocCancelReturn(x)
  PROVE  DocInv'
  <1>1. /\ retState[x] = "posted"
        /\ balance' = [l \in Line |-> balance[l] + retQty[x][l]]
        /\ retState' = [retState EXCEPT ![x] = "cancelled"]
        /\ UNCHANGED <<paid, retPurchase, retQty, owed, received,
                       receipt, sorted, sortedOnce>>
    BY DEF DocCancelReturn, CanCancelReturn, CancelReturnWrites
  <1>2. DocTypeOK'
    <2>1. balance' \in [Line -> Int] /\ retState' \in [Return -> {"none", "posted", "cancelled"}]
      BY <1>1 DEF DocInv, DocTypeOK
    <2>2. status' \in [Purchase -> Status]
      BY RecoveredStatus
    <2> QED
      BY <1>1, <2>1, <2>2 DEF DocInv, DocTypeOK
  <1>3. ReceivedOnce'
    <2> DEFINE p == retPurchase[x]
    <2>1. p \in Purchase /\ status[p] \in Status \ {"draft"}
      BY <1>1, RecoveredStatus DEF DocInv, DocTypeOK, NoDraftReturned
    <2>2. IF status[p] = "cancelled" THEN status'[p] = "cancelled"
          ELSE status'[p] \in Status \ {"draft", "cancelled"}
      BY RecoveredStatus
    <2>3. \A t \in Purchase : t # p => status'[t] = status[t]
      BY RecoveredStatus
    <2> QED
      BY <1>1, <2>1, <2>2, <2>3 DEF DocInv, ReceivedOnce
  <1>4. ReturnRows' /\ NoDraftReturned' /\ CollectedBounded'
    <2>1. ReturnRows' /\ CollectedBounded'
      BY <1>1 DEF DocInv, DocTypeOK, ReturnRows, CollectedBounded
    <2>2. \A t \in Purchase : status[t] # "draft" => status'[t] # "draft"
      BY RecoveredStatus DEF Status
    <2>3. NoDraftReturned'
      BY <1>1, <2>2 DEF DocInv, DocTypeOK, ReturnRows, NoDraftReturned
    <2> QED
      BY <2>1, <2>3
  <1>5. BatchNeverOverdrawn'
    BY <1>1 DEF DocInv, DocTypeOK, BatchNeverOverdrawn
  <1> QED
    BY <1>2, <1>3, <1>4, <1>5 DEF DocInv

(* create_repayment *)
LEMMA RepayKeepsDocInv ==
  ASSUME NEW p \in Purchase, NEW x \in Return, NEW a \in Amount,
         DocInv, DocRepay(p, x, a)
  PROVE  DocInv'
  <1> USE DEF DocRepay, CanRepay, RepayWrites, IsObligation
  <1>1. DocTypeOK'
    BY DEF DocInv, DocTypeOK
  <1>2. CollectedBounded' /\ ReturnRows'
    BY DEF DocInv, DocTypeOK, CollectedBounded, ReturnRows
  <1>3. ReceivedOnce' /\ NoDraftReturned' /\ BatchNeverOverdrawn'
    BY DEF DocInv, ReceivedOnce, NoDraftReturned, BatchNeverOverdrawn
  <1> QED
    BY <1>1, <1>2, <1>3 DEF DocInv

(* SortingService.post *)
LEMMA SortKeepsDocInv ==
  ASSUME NEW l \in Line, NEW n \in 1 .. MaxAsked, DocInv, DocSort(l, n)
  PROVE  DocInv'
  <1> USE DEF DocSort, CanSort, SortWrites
  <1>1. DocTypeOK'
    BY DEF DocInv, DocTypeOK
  <1>2. ReceivedOnce' /\ ReturnRows' /\ NoDraftReturned' /\ CollectedBounded'
    BY DEF DocInv, ReceivedOnce, ReturnRows, NoDraftReturned, CollectedBounded
  <1>3. BatchNeverOverdrawn'
    BY DEF DocInv, DocTypeOK, BatchNeverOverdrawn
  <1> QED
    BY <1>1, <1>2, <1>3 DEF DocInv

(* SortingService.reverse *)
LEMMA UnsortKeepsDocInv ==
  ASSUME NEW l \in Line, NEW n \in 1 .. MaxAsked, DocInv, DocUnsort(l, n)
  PROVE  DocInv'
  <1> USE DEF DocUnsort, CanUnsort, UnsortWrites
  <1>1. DocTypeOK'
    BY DEF DocInv, DocTypeOK
  <1>2. ReceivedOnce' /\ ReturnRows' /\ NoDraftReturned' /\ CollectedBounded'
    BY DEF DocInv, ReceivedOnce, ReturnRows, NoDraftReturned, CollectedBounded
  <1>3. BatchNeverOverdrawn'
    BY DEF DocInv, DocTypeOK, BatchNeverOverdrawn
  <1> QED
    BY <1>1, <1>2, <1>3 DEF DocInv

(* Every request preserves the invariant, and so does a step of no request. *)
LEMMA NextKeepsDocInv == DocInv /\ [DocNext]_docVars => DocInv'
  <1> SUFFICES ASSUME DocInv, [DocNext]_docVars PROVE DocInv'
    OBVIOUS
  <1>1. CASE UNCHANGED docVars
    BY <1>1 DEF docVars, DocInv, DocTypeOK, ReceivedOnce, ReturnRows, NoDraftReturned,
                CollectedBounded, BatchNeverOverdrawn
  <1>2. CASE DocNext
    BY <1>2, PostKeepsDocInv, PayKeepsDocInv, CancelKeepsDocInv, ReturnKeepsDocInv,
       CancelReturnKeepsDocInv, RepayKeepsDocInv, SortKeepsDocInv, UnsortKeepsDocInv
       DEF DocNext
  <1> QED
    BY <1>1, <1>2

(* Types, receipts, collections and batch balances of the sequential        *)
(* document: whatever requests are served, one after the other, they hold.  *)
THEOREM PurchaseInvariant == PurchaseSpec => []DocInv
  BY InitDocInv, NextKeepsDocInv, PTL DEF PurchaseSpec

(* A cancelled purchase takes no payment and never leaves that status, not  *)
(* even when one of its returns is cancelled later; a cancelled return      *)
(* stays cancelled (add_payment, _recover_parent_purchase_lifecycle).       *)
THEOREM PurchaseCancelIsFinal == PurchaseSpec => CancelIsFinal
  <1> DEFINE Final ==
        /\ \A p \in Purchase : status[p] = "cancelled" =>
              status'[p] = "cancelled" /\ paid'[p] = paid[p]
        /\ \A x \in Return : retState[x] = "cancelled" => retState'[x] = "cancelled"
  <1>1. DocInv /\ DocNext => Final
    <2> SUFFICES ASSUME DocInv, DocNext PROVE Final
      OBVIOUS
    <2> USE DEF DocInv, DocTypeOK
    <2>1. ASSUME NEW p \in Purchase, DocPost(p) PROVE Final
      BY <2>1 DEF DocPost, CanPost, PostWrites
    <2>2. ASSUME NEW p \in Purchase, DocCancel(p) PROVE Final
      BY <2>2 DEF DocCancel, CancelWrites
    <2>3. ASSUME NEW p \in Purchase, NEW a \in Amount, DocPay(p, a) PROVE Final
      BY <2>3 DEF DocPay, CanPay, PayWrites
    <2>4. ASSUME NEW p \in Purchase, NEW x \in Return, NEW q \in Asked, DocReturn(p, x, q)
          PROVE  Final
      BY <2>4 DEF DocReturn, CanReturn, ReturnWrites, Returnable
    <2>5. ASSUME NEW x \in Return, DocCancelReturn(x) PROVE Final
      <3>1. \A p \in Purchase : status[p] = "cancelled" => status'[p] = "cancelled"
        BY <2>5, RecoveredStatus
      <3> QED
        BY <2>5, <3>1 DEF DocCancelReturn, CanCancelReturn, CancelReturnWrites
    <2>6. ASSUME NEW p \in Purchase, NEW x \in Return, NEW a \in Amount, DocRepay(p, x, a)
          PROVE  Final
      BY <2>6 DEF DocRepay, RepayWrites
    <2>7. ASSUME NEW l \in Line, NEW n \in 1 .. MaxAsked, DocSort(l, n) \/ DocUnsort(l, n)
          PROVE  Final
      BY <2>7 DEF DocSort, SortWrites, DocUnsort, UnsortWrites
    <2> QED
      BY <2>1, <2>2, <2>3, <2>4, <2>5, <2>6, <2>7 DEF DocNext
  <1>2. DocInv /\ [DocNext]_docVars => [Final]_docVars
    BY <1>1
  <1> QED
    BY <1>2, PurchaseInvariant, PTL DEF PurchaseSpec, CancelIsFinal

-----------------------------------------------------------------------------
(* The ledger of the lines *)

(* What a new return takes, it takes of the quantities still bought. *)
LEMMA ReturnedAfterReturn ==
  ASSUME DocTypeOK, NEW p \in Purchase, NEW x \in Return, NEW q \in Asked,
         DocReturn(p, x, q), NEW l \in Line
  PROVE  Returned(l)' = Returned(l) + q[l]
  <1> DEFINE f == [y \in Return |-> IF retState[y] = "posted" THEN retQty[y][l] ELSE 0]
             g == [y \in Return |-> IF retState'[y] = "posted" THEN retQty'[y][l] ELSE 0]
  <1>1. /\ retState[x] = "none"
        /\ retState' = [retState EXCEPT ![x] = "posted"]
        /\ retQty' = [retQty EXCEPT ![x] = q]
        /\ q[l] \in Nat
    BY DEF DocReturn, CanReturn, ReturnWrites, Asked
  <1>2. f \in [Return -> Int] /\ g \in [Return -> Int]
    BY <1>1 DEF DocTypeOK
  <1>3. f[x] = 0 /\ g[x] = q[l] /\ \A y \in Return \ {x} : g[y] = f[y]
    BY <1>1 DEF DocTypeOK
  <1>4. Returned(l) = SumFunction(f) /\ Returned(l)' = SumFunction(g)
    BY DEF Returned
  <1>5. Returned(l) \in Nat
    BY ReturnedNat
  <1> HIDE DEF f, g
  <1>6. SumFunction(g) = SumFunction(f) - f[x] + g[x]
    BY <1>2, <1>3, FiniteLines, SumFunChange
  <1> QED
    BY <1>1, <1>3, <1>4, <1>5, <1>6

(* A cancelled return gives back what it took. *)
LEMMA ReturnedAfterCancel ==
  ASSUME DocTypeOK, NEW x \in Return, DocCancelReturn(x), NEW l \in Line
  PROVE  Returned(l)' = Returned(l) - retQty[x][l]
  <1> DEFINE f == [y \in Return |-> IF retState[y] = "posted" THEN retQty[y][l] ELSE 0]
             g == [y \in Return |-> IF retState'[y] = "posted" THEN retQty'[y][l] ELSE 0]
  <1>1. /\ retState[x] = "posted"
        /\ retState' = [retState EXCEPT ![x] = "cancelled"]
        /\ retQty' = retQty
    BY DEF DocCancelReturn, CanCancelReturn, CancelReturnWrites
  <1>2. f \in [Return -> Int] /\ g \in [Return -> Int]
    BY <1>1 DEF DocTypeOK
  <1>3. f[x] = retQty[x][l] /\ g[x] = 0 /\ \A y \in Return \ {x} : g[y] = f[y]
    BY <1>1 DEF DocTypeOK
  <1>4. Returned(l) = SumFunction(f) /\ Returned(l)' = SumFunction(g)
    BY DEF Returned
  <1>5. Returned(l) \in Nat /\ retQty[x][l] \in Nat
    BY ReturnedNat DEF DocTypeOK
  <1> HIDE DEF f, g
  <1>6. SumFunction(g) = SumFunction(f) - f[x] + g[x]
    BY <1>2, <1>3, FiniteLines, SumFunChange
  <1> QED
    BY <1>3, <1>4, <1>5, <1>6

(* No request but a return and its cancellation touches what was returned.  *)
LEMMA ReturnedUntouched ==
  ASSUME UNCHANGED <<retState, retQty>>, NEW l \in Line
  PROVE  Returned(l)' = Returned(l)
  BY ReturnedKept

(* No more of a line goes back than was bought, over all posted returns. *)
ReturnsBounded == \A l \in Line : Returned(l) <= Quantity[l]

(* The quantity the documents say is there of a line. *)
Documented(l) ==
  (IF status[PurchaseOf[l]] = "cancelled" THEN 0 ELSE receipt[l]) - Returned(l) - sorted[l]

BalanceDocumented == \A l \in Line : balance[l] = Documented(l)

(* Inductive: the ledger agrees with the documents, and returns are bounded. *)
LedgerInv ==
  /\ DocInv
  /\ ReturnsBounded
  /\ BalanceDocumented

(* The tables start empty. *)
LEMMA InitLedgerInv == DocInit => LedgerInv
  <1> SUFFICES ASSUME DocInit PROVE LedgerInv
    OBVIOUS
  <1>1. DocInv
    BY InitDocInv
  <1>2. \A l \in Line : Returned(l) = 0
    <2> SUFFICES ASSUME NEW l \in Line PROVE Returned(l) = 0
      OBVIOUS
    <2> DEFINE f == [y \in Return |-> IF retState[y] = "posted" THEN retQty[y][l] ELSE 0]
    <2>1. f \in [Return -> Int] /\ \A y \in Return : f[y] = 0
      BY DEF DocInit
    <2>2. Returned(l) = SumFunction(f)
      BY DEF Returned
    <2> HIDE DEF f
    <2> QED
      BY <2>1, <2>2, FiniteLines, SumFunZero
  <1>3. ReturnsBounded /\ BalanceDocumented
    BY <1>2 DEF ReturnsBounded, BalanceDocumented, Documented, DocInit, NoQuantity
  <1> QED
    BY <1>1, <1>3 DEF LedgerInv

(* What a step that leaves the returns alone has to show. *)
LEMMA LedgerOfReturnsUntouched ==
  ASSUME LedgerInv, UNCHANGED <<retState, retQty>>, DocInv',
         \A l \in Line :
            balance'[l] - balance[l] =
              (IF status'[PurchaseOf[l]] = "cancelled" THEN 0 ELSE receipt'[l]) - sorted'[l]
                - ((IF status[PurchaseOf[l]] = "cancelled" THEN 0 ELSE receipt[l]) - sorted[l])
  PROVE  LedgerInv'
  <1>1. \A l \in Line : Returned(l)' = Returned(l) /\ Returned(l) \in Nat
    BY ReturnedUntouched, ReturnedNat DEF LedgerInv, DocInv
  <1>2. ReturnsBounded'
    BY <1>1 DEF LedgerInv, ReturnsBounded
  <1>3. BalanceDocumented'
    <2> SUFFICES ASSUME NEW l \in Line PROVE balance'[l] = Documented(l)'
      BY DEF BalanceDocumented
    <2>1. balance[l] = Documented(l)
      BY DEF LedgerInv, BalanceDocumented
    <2>2. /\ balance[l] \in Int /\ balance'[l] \in Int
          /\ receipt[l] \in Int /\ receipt'[l] \in Int
          /\ sorted[l] \in Int /\ sorted'[l] \in Int
      BY DEF LedgerInv, DocInv, DocTypeOK
    <2> QED
      BY <1>1, <2>1, <2>2 DEF Documented
  <1> QED
    BY <1>2, <1>3 DEF LedgerInv

(* Every request keeps the ledger in agreement. *)
LEMMA NextKeepsLedgerInv == LedgerInv /\ [DocNext]_docVars => LedgerInv'
  <1> SUFFICES ASSUME LedgerInv, [DocNext]_docVars PROVE LedgerInv'
    OBVIOUS
  <1>1. DocInv /\ DocInv' /\ DocTypeOK /\ DocTypeOK'
    BY NextKeepsDocInv DEF LedgerInv, DocInv
  <1>2. CASE UNCHANGED docVars
    <2>1. \A l \in Line : receipt[l] \in Int /\ sorted[l] \in Int /\ balance[l] \in Int
      BY <1>1 DEF DocTypeOK
    <2> QED
      BY <1>1, <1>2, <2>1, LedgerOfReturnsUntouched DEF docVars
  <1>3. ASSUME NEW p \in Purchase, DocPost(p) PROVE LedgerInv'
    <2>1. /\ status[p] = "draft" /\ status' = [status EXCEPT ![p] = "posted"]
          /\ UNCHANGED <<retState, retQty, sorted>>
          /\ \A l \in Line : IF PurchaseOf[l] = p
                             THEN /\ receipt'[l] = receipt[l] + Quantity[l]
                                  /\ balance'[l] = balance[l] + Quantity[l]
                             ELSE receipt'[l] = receipt[l] /\ balance'[l] = balance[l]
      BY <1>3 DEF DocPost, CanPost, PostWrites, LinesOf
    <2>2. \A l \in Line : /\ receipt[l] \in Int /\ sorted[l] \in Int /\ balance[l] \in Int
                          /\ Quantity[l] \in Int
      BY <1>1 DEF DocTypeOK
    <2>3. \A l \in Line : status'[PurchaseOf[l]]
                            = IF PurchaseOf[l] = p THEN "posted" ELSE status[PurchaseOf[l]]
      BY <1>1, <2>1 DEF DocTypeOK
    <2> QED
      BY <1>1, <2>1, <2>2, <2>3, LedgerOfReturnsUntouched
  <1>4. ASSUME NEW p \in Purchase, DocCancel(p) PROVE LedgerInv'
    <2>1. /\ status[p] \in Cancellable /\ status' = [status EXCEPT ![p] = "cancelled"]
          /\ UNCHANGED <<retState, retQty, receipt, sorted>>
          /\ \A l \in Line : balance'[l] = IF PurchaseOf[l] = p
                                           THEN balance[l] - receipt[l] ELSE balance[l]
      BY <1>4 DEF DocCancel, CanCancel, CancelWrites, LinesOf
    <2>2. \A l \in Line : receipt[l] \in Int /\ sorted[l] \in Int /\ balance[l] \in Int
      BY <1>1 DEF DocTypeOK
    <2>3. \A l \in Line : status'[PurchaseOf[l]]
                            = IF PurchaseOf[l] = p THEN "cancelled" ELSE status[PurchaseOf[l]]
      BY <1>1, <2>1 DEF DocTypeOK
    <2>4. status[p] # "cancelled"
      BY <2>1 DEF Cancellable
    <2> QED
      BY <1>1, <2>1, <2>2, <2>3, <2>4, LedgerOfReturnsUntouched
  <1>5. ASSUME NEW p \in Purchase, NEW a \in Amount, DocPay(p, a) PROVE LedgerInv'
    <2>1. /\ status[p] # "cancelled"
          /\ \A t \in Purchase : status'[t] = "cancelled" <=> status[t] = "cancelled"
          /\ UNCHANGED <<retState, retQty, receipt, sorted, balance>>
      BY <1>1, <1>5 DEF DocPay, CanPay, PayWrites, DocTypeOK
    <2>2. \A l \in Line : receipt[l] \in Int /\ sorted[l] \in Int /\ balance[l] \in Int
      BY <1>1 DEF DocTypeOK
    <2>3. \A l \in Line : status'[PurchaseOf[l]] = "cancelled"
                            <=> status[PurchaseOf[l]] = "cancelled"
      BY <2>1
    <2> QED
      BY <1>1, <2>1, <2>2, <2>3, LedgerOfReturnsUntouched
  <1>6. ASSUME NEW p \in Purchase, NEW x \in Return, NEW q \in Asked, DocReturn(p, x, q)
        PROVE  LedgerInv'
    <2>1. \A l \in Line : /\ Returned(l)' = Returned(l) + q[l]
                          /\ Returned(l) \in Nat /\ q[l] \in Nat /\ Quantity[l] \in Nat
      BY <1>1, <1>6, ReturnedAfterReturn, ReturnedNat DEF Asked
    <2>2. ReturnsBounded'
      <3>1. \A l \in Line : q[l] > 0 => Returned(l) + q[l] <= Quantity[l]
        BY <1>6 DEF DocReturn, CanReturn
      <3> QED
        BY <2>1, <3>1 DEF LedgerInv, ReturnsBounded
    <2>3. BalanceDocumented'
      <3>1. /\ \A t \in Purchase : status'[t] = "cancelled" <=> status[t] = "cancelled"
            /\ UNCHANGED <<receipt, sorted>>
            /\ \A l \in Line : balance'[l] = balance[l] - q[l]
        BY <1>1, <1>6 DEF DocReturn, CanReturn, ReturnWrites, AfterReturn, Returnable, DocTypeOK
      <3> SUFFICES ASSUME NEW l \in Line PROVE balance'[l] = Documented(l)'
        BY DEF BalanceDocumented
      <3>2. /\ balance[l] = Documented(l)
            /\ status'[PurchaseOf[l]] = "cancelled" <=> status[PurchaseOf[l]] = "cancelled"
        BY <3>1 DEF LedgerInv, BalanceDocumented
      <3>3. receipt[l] \in Int /\ sorted[l] \in Int /\ balance[l] \in Int
        BY <1>1 DEF DocTypeOK
      <3> QED
        BY <2>1, <3>1, <3>2, <3>3 DEF Documented
    <2> QED
      BY <1>1, <2>2, <2>3 DEF LedgerInv
  <1>7. ASSUME NEW x \in Return, DocCancelReturn(x) PROVE LedgerInv'
    <2>1. \A l \in Line : /\ Returned(l)' = Returned(l) - retQty[x][l]
                          /\ Returned(l) \in Nat /\ retQty[x][l] \in Nat
                          /\ Quantity[l] \in Nat
      BY <1>1, <1>7, ReturnedAfterCancel, ReturnedNat DEF DocTypeOK
    <2>2. ReturnsBounded'
      BY <2>1 DEF LedgerInv, ReturnsBounded
    <2>3. BalanceDocumented'
      <3>1. /\ UNCHANGED <<receipt, sorted>>
            /\ \A l \in Line : balance'[l] = balance[l] + retQty[x][l]
        BY <1>7 DEF DocCancelReturn, CancelReturnWrites
      <3>2. \A t \in Purchase : status'[t] = "cancelled" <=> status[t] = "cancelled"
        BY <1>1, <1>7, RecoveredStatus DEF Status
      <3> SUFFICES ASSUME NEW l \in Line PROVE balance'[l] = Documented(l)'
        BY DEF BalanceDocumented
      <3>3. /\ balance[l] = Documented(l)
            /\ status'[PurchaseOf[l]] = "cancelled" <=> status[PurchaseOf[l]] = "cancelled"
        BY <3>2 DEF LedgerInv, BalanceDocumented
      <3>4. receipt[l] \in Int /\ sorted[l] \in Int /\ balance[l] \in Int
        BY <1>1 DEF DocTypeOK
      <3> QED
        BY <2>1, <3>1, <3>3, <3>4 DEF Documented
    <2> QED
      BY <1>1, <2>2, <2>3 DEF LedgerInv
  <1>8. ASSUME NEW p \in Purchase, NEW x \in Return, NEW a \in Amount, DocRepay(p, x, a)
        PROVE  LedgerInv'
    <2>1. UNCHANGED <<status, retState, retQty, receipt, sorted, balance>>
      BY <1>8 DEF DocRepay, RepayWrites
    <2>2. \A l \in Line : receipt[l] \in Int /\ sorted[l] \in Int /\ balance[l] \in Int
      BY <1>1 DEF DocTypeOK
    <2> QED
      BY <1>1, <2>1, <2>2, LedgerOfReturnsUntouched
  <1>9. ASSUME NEW l \in Line, NEW n \in 1 .. MaxAsked, DocSort(l, n) \/ DocUnsort(l, n)
        PROVE  LedgerInv'
    <2>1. /\ UNCHANGED <<status, retState, retQty, receipt>>
          /\ \A k \in Line : k # l => sorted'[k] = sorted[k] /\ balance'[k] = balance[k]
          /\ \/ sorted'[l] = sorted[l] + n /\ balance'[l] = balance[l] - n
             \/ sorted'[l] = sorted[l] - n /\ balance'[l] = balance[l] + n
      BY <1>1, <1>9 DEF DocSort, SortWrites, DocUnsort, UnsortWrites, DocTypeOK
    <2>2. \A k \in Line : receipt[k] \in Int /\ sorted[k] \in Int /\ balance[k] \in Int
      BY <1>1 DEF DocTypeOK
    <2>3. n \in Int
      OBVIOUS
    <2>4. ASSUME NEW k \in Line
          PROVE  balance'[k] - balance[k] =
              (IF status'[PurchaseOf[k]] = "cancelled" THEN 0 ELSE receipt'[k]) - sorted'[k]
                - ((IF status[PurchaseOf[k]] = "cancelled" THEN 0 ELSE receipt[k]) - sorted[k])
      <3>1. receipt[k] \in Int /\ sorted[k] \in Int /\ balance[k] \in Int
        BY <2>2
      <3>2. CASE k # l
        BY <2>1, <3>1, <3>2
      <3>3. CASE k = l
        BY <2>1, <2>3, <3>1, <3>3
      <3> QED
        BY <3>2, <3>3
    <2> QED
      BY <1>1, <2>1, <2>4, LedgerOfReturnsUntouched
  <1> QED
    BY <1>2, <1>3, <1>4, <1>5, <1>6, <1>7, <1>8, <1>9 DEF DocNext

(* BR-PURCHASE-006 and -007: whatever requests are served, one after the    *)
(* other, the movements of a line add up to what was received of it, less   *)
(* what the posted returns and sorting took.                                *)
THEOREM PurchaseLedgerAgrees == PurchaseSpec => []LedgerAgrees
  <1>1. LedgerInv => LedgerAgrees
    BY DEF LedgerInv, DocInv, BalanceDocumented, Documented, LedgerAgrees
  <1> QED
    BY <1>1, InitLedgerInv, NextKeepsLedgerInv, PTL DEF PurchaseSpec

-----------------------------------------------------------------------------
(* The money, provided a return names lines of its own purchase only *)

(* What the cross-purchase lookup of create_return does not ensure. *)
NamesOwnLines == \A p \in Purchase : Named[p] \subseteq LinesOf(p)

(* So the lines of a return are lines of its purchase. *)
OwnLinesReturned ==
    \A x \in Return, l \in Line : retQty[x][l] > 0 => PurchaseOf[l] = retPurchase[x]

(* What the posted returns of a purchase come to, summed by returns or by   *)
(* lines; w[l][n] is what n units of a line count, and none count nothing.  *)
Weighing(w) == w \in [Line -> [Nat -> Nat]] /\ \A l \in Line : w[l][0] = 0

(* What the posted returns took of a line, weighed. *)
Weighed(w, l) ==
    SumFunction([x \in Return |-> IF retState[x] = "posted" THEN w[l][retQty[x][l]] ELSE 0])

LEMMA WeighedNat ==
  ASSUME DocTypeOK, NEW w, Weighing(w), NEW l \in Line
  PROVE  Weighed(w, l) \in Nat
  <1> DEFINE r == [x \in Return |-> IF retState[x] = "posted" THEN w[l][retQty[x][l]] ELSE 0]
  <1>1. r \in [Return -> Nat]
    BY DEF DocTypeOK, Weighing
  <1>2. Weighed(w, l) = SumFunction(r)
    BY DEF Weighed
  <1> HIDE DEF r
  <1> QED
    BY <1>1, <1>2, FiniteLines, SumFunNat

LEMMA ReturnedByLines ==
  ASSUME DocTypeOK, OwnLinesReturned, NEW p \in Purchase, NEW w, Weighing(w)
  PROVE  SumFunction([x \in Return |->
            IF ActiveReturn(x, p) THEN SumFunction([l \in Line |-> w[l][retQty[x][l]]]) ELSE 0])
         = SumFunction([l \in LinesOf(p) |-> Weighed(w, l)])
  <1> DEFINE term(x, l) == IF ActiveReturn(x, p) THEN w[l][retQty[x][l]] ELSE 0
             f == [x \in Return |-> [l \in Line |-> term(x, l)]]
             g == [l \in Line |-> [x \in Return |-> term(x, l)]]
             rows == [x \in Return |-> SumFunction(f[x])]
             columns == [l \in Line |-> SumFunction(g[l])]
             byReturn == [x \in Return |->
                IF ActiveReturn(x, p) THEN SumFunction([l \in Line |-> w[l][retQty[x][l]]]) ELSE 0]
             byLine == [l \in LinesOf(p) |-> Weighed(w, l)]
  <1>1. \A x \in Return, l \in Line :
           /\ retQty[x][l] \in Nat /\ w[l][retQty[x][l]] \in Nat
           /\ retQty[x][l] = 0 => w[l][retQty[x][l]] = 0
    BY DEF DocTypeOK, Weighing
  <1>2. \A x \in Return, l \in Line : term(x, l) \in Int
    BY <1>1
  <1>3. f \in [Return -> [Line -> Int]] /\ g \in [Line -> [Return -> Int]]
    <2> HIDE DEF term
    <2> QED
      BY <1>2
  <1>4. \A x \in Return, l \in Line : f[x][l] = term(x, l) /\ g[l][x] = term(x, l)
    OBVIOUS
  <1>5. SumFunction(rows) = SumFunction(columns)
    <2>1. \A x \in Return, l \in Line : g[l][x] = f[x][l]
      BY <1>4
    <2>2. Transposed(f, g, Return, Line)
      <3> HIDE DEF term, f, g
      <3> QED
        BY <1>3, <2>1 DEF Transposed
    <2>3. RowSums(rows, f, Return) /\ RowSums(columns, g, Line)
      BY DEF RowSums
    <2>4. IsFiniteSet(Return) /\ IsFiniteSet(Line)
      BY FiniteLines
    <2> HIDE DEF term, f, g, rows, columns
    <2> QED
      BY <2>2, <2>3, <2>4, SumTranspose
  <1>6. rows = byReturn
    <2> SUFFICES ASSUME NEW x \in Return PROVE SumFunction(f[x]) = byReturn[x]
      OBVIOUS
    <2>1. CASE ActiveReturn(x, p)
      <3>1. f[x] = [l \in Line |-> w[l][retQty[x][l]]]
        BY <2>1
      <3> HIDE DEF f, term
      <3> QED
        BY <2>1, <3>1
    <2>2. CASE ~ActiveReturn(x, p)
      <3>1. f[x] \in [Line -> Int] /\ \A l \in Line : f[x][l] = 0
        BY <2>2
      <3> HIDE DEF f, term
      <3>2. SumFunction(f[x]) = 0
        BY <3>1, FiniteLines, SumFunZero
      <3> QED
        BY <2>2, <3>2
    <2> QED
      BY <2>1, <2>2
  <1>7. ASSUME NEW l \in LinesOf(p)
        PROVE  SumFunction(g[l]) = Weighed(w, l)
    <2> DEFINE r == [x \in Return |-> IF retState[x] = "posted" THEN w[l][retQty[x][l]] ELSE 0]
    <2>1. l \in Line /\ PurchaseOf[l] = p
      BY DEF LinesOf
    <2>2. ASSUME NEW x \in Return PROVE term(x, l) = r[x]
      <3>1. retQty[x][l] > 0 => retPurchase[x] = p
        BY <2>1 DEF OwnLinesReturned
      <3>2. retQty[x][l] \in Nat /\ (retQty[x][l] = 0 => w[l][retQty[x][l]] = 0)
        BY <1>1, <2>1
      <3> QED
        BY <3>1, <3>2 DEF ActiveReturn
    <2>3. g[l] = [x \in Return |-> term(x, l)]
      BY <2>1
    <2>4. g[l] = r
      <3> HIDE DEF g, term
      <3> QED
        BY <2>2, <2>3
    <2> QED
      BY <2>4 DEF Weighed
  <1>8. ASSUME NEW l \in Line, l \notin LinesOf(p)
        PROVE  SumFunction(g[l]) = 0
    <2>1. \A x \in Return : ActiveReturn(x, p) => retQty[x][l] = 0
      BY <1>1, <1>8 DEF ActiveReturn, OwnLinesReturned, LinesOf
    <2>2. \A x \in Return : g[l][x] = 0
      BY <1>1, <2>1
    <2> HIDE DEF g
    <2>3. g[l] \in [Return -> Int]
      BY <1>3
    <2> QED
      BY <2>2, <2>3, FiniteLines, SumFunZero
  <1> HIDE DEF f, g, term
  <1>9. \A l \in Line : SumFunction(g[l]) \in Int
    BY <1>3, FiniteLines, SumFunInt
  <1>10. columns \in [Line -> Int] /\ byLine \in [LinesOf(p) -> Int]
    BY <1>7, <1>9, FiniteLines
  <1>11. /\ \A l \in LinesOf(p) : byLine[l] = columns[l]
         /\ \A l \in Line \ LinesOf(p) : columns[l] = 0
    BY <1>7, <1>8, FiniteLines
  <1>12. SumFunction(byLine) = SumFunction(columns)
    <2> HIDE DEF byLine, columns
    <2>1. IsFiniteSet(Line) /\ LinesOf(p) \subseteq Line
      BY FiniteLines
    <2> QED
      BY <1>10, <1>11, <2>1, SumFunPart
  <1> HIDE DEF rows, columns
  <1> QED
    BY <1>5, <1>6, <1>12

(* The quantity that went back of a purchase, by its lines. *)
LEMMA ActiveByLines ==
  ASSUME DocTypeOK, OwnLinesReturned, NEW p \in Purchase
  PROVE  ActiveOf(p) = SumFunction([l \in LinesOf(p) |-> Returned(l)])
  <1> DEFINE units == [l \in Line |-> [n \in Nat |-> n]]
  <1>1. Weighing(units)
    BY DEF Weighing
  <1>2. \A l \in Line, n \in Nat : units[l][n] = n
    OBVIOUS
  <1> HIDE DEF units
  <1>3. \A x \in Return : retQty[x] \in [Line -> Nat]
    BY DEF DocTypeOK
  <1>4. \A x \in Return : [l \in Line |-> units[l][retQty[x][l]]] = retQty[x]
    BY <1>2, <1>3
  <1>5. ASSUME NEW l \in LinesOf(p) PROVE Weighed(units, l) = Returned(l)
    <2>1. [x \in Return |-> IF retState[x] = "posted" THEN units[l][retQty[x][l]] ELSE 0]
            = [x \in Return |-> IF retState[x] = "posted" THEN retQty[x][l] ELSE 0]
      BY <1>2, <1>3, FiniteLines
    <2> QED
      BY <2>1 DEF Weighed, Returned
  <1>6. SumFunction([x \in Return |->
            IF ActiveReturn(x, p) THEN SumFunction([l \in Line |-> units[l][retQty[x][l]]]) ELSE 0])
         = SumFunction([l \in LinesOf(p) |-> Weighed(units, l)])
    BY <1>1, ReturnedByLines
  <1>7. [x \in Return |->
            IF ActiveReturn(x, p) THEN SumFunction([l \in Line |-> units[l][retQty[x][l]]]) ELSE 0]
         = [x \in Return |-> IF ActiveReturn(x, p) THEN SumFunction(retQty[x]) ELSE 0]
    BY <1>4
  <1>8. [l \in LinesOf(p) |-> Weighed(units, l)] = [l \in LinesOf(p) |-> Returned(l)]
    BY <1>5
  <1> QED
    BY <1>6, <1>7, <1>8 DEF ActiveOf

(* What n units of a line are worth, and whether a return names the line. *)
Worth == [l \in Line |-> [n \in Nat |-> LineValue(l, n)]]
Names == [l \in Line |-> [n \in Nat |-> IF n > 0 THEN 1 ELSE 0]]

LEMMA WorthNames ==
  /\ Weighing(Worth) /\ Weighing(Names)
  /\ \A l \in Line, n \in Nat :
        Worth[l][n] = LineValue(l, n) /\ Names[l][n] = (IF n > 0 THEN 1 ELSE 0)
  <1>1. Weighing(Worth)
    BY LineValueClose DEF Weighing, Worth
  <1>2. Weighing(Names)
    BY DEF Weighing, Names
  <1> QED
    BY <1>1, <1>2 DEF Worth, Names

(* The value that went back of a purchase and how often a return names one  *)
(* of its lines, by its lines.                                              *)
LEMMA ReturnedValueByLines ==
  ASSUME DocTypeOK, OwnLinesReturned, NEW p \in Purchase
  PROVE  /\ ReturnedValue(p) = SumFunction([l \in LinesOf(p) |-> Weighed(Worth, l)])
         /\ LinesReturned(p) = SumFunction([l \in LinesOf(p) |-> Weighed(Names, l)])
  <1>1. \A x \in Return, l \in Line : retQty[x][l] \in Nat
    BY DEF DocTypeOK
  <1>2. \A x \in Return :
           /\ [l \in Line |-> Worth[l][retQty[x][l]]] = [l \in Line |-> LineValue(l, retQty[x][l])]
           /\ [l \in Line |-> Names[l][retQty[x][l]]]
                = [l \in Line |-> IF retQty[x][l] > 0 THEN 1 ELSE 0]
    BY <1>1, WorthNames
  <1>3. [x \in Return |->
            IF ActiveReturn(x, p) THEN SumFunction([l \in Line |-> Worth[l][retQty[x][l]]]) ELSE 0]
        = [x \in Return |-> IF ActiveReturn(x, p) THEN ValueOf(retQty[x]) ELSE 0]
    BY <1>2 DEF ValueOf
  <1>4. [x \in Return |->
            IF ActiveReturn(x, p) THEN SumFunction([l \in Line |-> Names[l][retQty[x][l]]]) ELSE 0]
        = [x \in Return |-> IF ActiveReturn(x, p)
              THEN SumFunction([l \in Line |-> IF retQty[x][l] > 0 THEN 1 ELSE 0]) ELSE 0]
    BY <1>2
  <1>5. SumFunction([x \in Return |->
            IF ActiveReturn(x, p) THEN SumFunction([l \in Line |-> Worth[l][retQty[x][l]]]) ELSE 0])
        = SumFunction([l \in LinesOf(p) |-> Weighed(Worth, l)])
    BY WorthNames, ReturnedByLines
  <1>6. SumFunction([x \in Return |->
            IF ActiveReturn(x, p) THEN SumFunction([l \in Line |-> Names[l][retQty[x][l]]]) ELSE 0])
        = SumFunction([l \in LinesOf(p) |-> Weighed(Names, l)])
    BY WorthNames, ReturnedByLines
  <1>7. ReturnedValue(p) = SumFunction([l \in LinesOf(p) |-> Weighed(Worth, l)])
    BY <1>3, <1>5 DEF ReturnedValue
  <1>8. LinesReturned(p) = SumFunction([l \in LinesOf(p) |-> Weighed(Names, l)])
    BY <1>4, <1>6 DEF LinesReturned
  <1> QED
    BY <1>7, <1>8

(* The returns of a line are worth the line at most, but for half a cent of *)
(* each of them.                                                            *)
LEMMA LineReturnsBounded ==
  ASSUME DocTypeOK, ReturnsBounded, NEW l \in Line
  PROVE  2 * Weighed(Worth, l) <= 2 * LineTotal[l] + Weighed(Names, l)
  <1> DEFINE Q == Quantity[l]
             T == LineTotal[l]
             n == [x \in Return |-> IF retState[x] = "posted" THEN retQty[x][l] ELSE 0]
             v == [x \in Return |-> IF retState[x] = "posted" THEN Worth[l][retQty[x][l]] ELSE 0]
             c == [x \in Return |-> IF retState[x] = "posted" THEN Names[l][retQty[x][l]] ELSE 0]
             Q2 == 2 * Q
             T2 == 2 * T
             vQ == [x \in Return |-> v[x] * Q2]
             nT == [x \in Return |-> n[x] * T2]
             cQ == [x \in Return |-> c[x] * Q]
             bound == [x \in Return |-> nT[x] + cQ[x]]
  <1>1. /\ Q \in Nat \ {0} /\ T \in Nat /\ Q2 \in Int /\ T2 \in Int
        /\ \A a, b \in Int : a * b \in Int
    OBVIOUS
  <1>2. \A x \in Return : retQty[x][l] \in Nat
    BY DEF DocTypeOK
  <1>3. \A x \in Return :
           /\ n[x] \in Nat /\ v[x] = LineValue(l, n[x]) /\ v[x] \in Nat
           /\ c[x] = (IF n[x] > 0 THEN 1 ELSE 0)
    <2> SUFFICES ASSUME NEW x \in Return
                 PROVE  /\ n[x] \in Nat /\ v[x] = LineValue(l, n[x]) /\ v[x] \in Nat
                        /\ c[x] = (IF n[x] > 0 THEN 1 ELSE 0)
      OBVIOUS
    <2>1. CASE retState[x] = "posted"
      <3>1. n[x] = retQty[x][l] /\ v[x] = Worth[l][retQty[x][l]] /\ c[x] = Names[l][retQty[x][l]]
        BY <2>1
      <3>2. /\ Worth[l][retQty[x][l]] = LineValue(l, retQty[x][l])
            /\ Names[l][retQty[x][l]] = (IF retQty[x][l] > 0 THEN 1 ELSE 0)
        BY <1>2, WorthNames
      <3> HIDE DEF n, v, c
      <3> QED
        BY <1>2, <3>1, <3>2, LineValueClose
    <2>2. CASE retState[x] # "posted"
      <3>1. n[x] = 0 /\ v[x] = 0 /\ c[x] = 0
        BY <2>2
      <3>2. LineValue(l, 0) = 0
        BY LineValueClose
      <3> HIDE DEF n, v, c
      <3> QED
        BY <3>1, <3>2
    <2> QED
      BY <2>1, <2>2
  <1>4. /\ Returned(l) = SumFunction(n) /\ Weighed(Worth, l) = SumFunction(v)
        /\ Weighed(Names, l) = SumFunction(c)
    BY DEF Returned, Weighed
  <1>5. n \in [Return -> Int] /\ v \in [Return -> Int] /\ c \in [Return -> Int]
    BY <1>3
  <1> HIDE DEF n, v, c, Q, T
  <1>6. vQ \in [Return -> Int] /\ nT \in [Return -> Int] /\ cQ \in [Return -> Int]
    BY <1>1, <1>5
  <1>7. bound \in [Return -> Int] /\ \A x \in Return : bound[x] = nT[x] + cQ[x]
    <2> HIDE DEF nT, cQ
    <2> QED
      BY <1>6
  <1>8. ASSUME NEW x \in Return PROVE vQ[x] <= bound[x]
    <2>1. 2 * (Q * LineValue(l, n[x])) <= 2 * (n[x] * T) + Q
      BY <1>3, LineValueClose DEF Q, T
    <2>2. n[x] = 0 => LineValue(l, n[x]) = 0
      BY <1>3, LineValueClose
    <2>3. vQ[x] = 2 * (Q * v[x]) /\ nT[x] = 2 * (n[x] * T) /\ cQ[x] = c[x] * Q
      BY <1>1, <1>3
    <2>4. CASE n[x] = 0
      <3>1. v[x] = 0 /\ c[x] = 0
        BY <1>3, <2>2, <2>4
      <3> QED
        BY <1>1, <1>3, <2>3, <2>4, <3>1
    <2>5. CASE n[x] > 0
      <3>1. c[x] = 1
        BY <1>3, <2>5
      <3>2. cQ[x] = Q
        BY <1>1, <2>3, <3>1
      <3>3. bound[x] = 2 * (n[x] * T) + Q
        BY <1>7, <2>3, <3>2
      <3> QED
        BY <1>3, <2>1, <2>3, <3>3
    <2> QED
      BY <1>3, <2>4, <2>5
  <1>9. /\ \A x \in Return : vQ[x] = v[x] * Q2 /\ nT[x] = n[x] * T2 /\ cQ[x] = c[x] * Q
    OBVIOUS
  <1> HIDE DEF vQ, nT, cQ, bound, Q2, T2
  <1>10. SumFunction(vQ) = SumFunction(v) * Q2
    BY <1>1, <1>5, <1>6, <1>9, FiniteLines, SumFunScale
  <1>11. SumFunction(nT) = SumFunction(n) * T2
    BY <1>1, <1>5, <1>6, <1>9, FiniteLines, SumFunScale
  <1>12. SumFunction(cQ) = SumFunction(c) * Q
    <2>1. Q \in Int
      BY <1>1
    <2> QED
      BY <1>5, <1>6, <1>9, <2>1, FiniteLines, SumFunScale
  <1>13. SumFunction(bound) = SumFunction(nT) + SumFunction(cQ)
    BY <1>6, <1>7, FiniteLines, SumFunPlus
  <1>14. SumFunction(vQ) <= SumFunction(bound)
    BY <1>6, <1>7, <1>8, FiniteLines, SumFunMonotone
  <1>15. SumFunction(v) \in Int /\ SumFunction(c) \in Int /\ Returned(l) \in Nat /\ Returned(l) <= Q
    BY <1>5, FiniteLines, SumFunInt, ReturnedNat DEF ReturnsBounded, Q
  <1> DEFINE V == SumFunction(v)
             C == SumFunction(c)
             R == Returned(l)
  <1>16. V * (2 * Q) <= R * (2 * T) + C * Q
    BY <1>4, <1>10, <1>11, <1>12, <1>13, <1>14 DEF Q2, T2
  <1>17. V \in Int /\ C \in Int /\ R \in Nat /\ R <= Q
    BY <1>15
  <1> HIDE DEF V, C, R
  <1>18. R * (2 * T) <= Q * (2 * T)
    BY <1>1, <1>17
  <1>19. (2 * V) * Q <= (2 * T + C) * Q
    BY <1>1, <1>16, <1>17, <1>18
  <1>20. 2 * V <= 2 * T + C
    BY <1>1, <1>17, <1>19
  <1> QED
    BY <1>4, <1>20 DEF V, C, T

(* No more value goes back than was bought, but for half a cent of each     *)
(* line a return names.                                                     *)
LEMMA ReturnedValueBounded ==
  ASSUME DocTypeOK, OwnLinesReturned, ReturnsBounded, NEW p \in Purchase
  PROVE  /\ ReturnedValue(p) \in Nat /\ LinesReturned(p) \in Nat
         /\ 2 * ReturnedValue(p) <= 2 * Total(p) + LinesReturned(p)
  <1> DEFINE v == [l \in LinesOf(p) |-> Weighed(Worth, l)]
             c == [l \in LinesOf(p) |-> Weighed(Names, l)]
             t == [l \in LinesOf(p) |-> LineTotal[l]]
             v2 == [l \in LinesOf(p) |-> v[l] * 2]
             t2 == [l \in LinesOf(p) |-> t[l] * 2]
             bound == [l \in LinesOf(p) |-> t2[l] + c[l]]
  <1>1. /\ ReturnedValue(p) = SumFunction(v) /\ LinesReturned(p) = SumFunction(c)
        /\ Total(p) = SumFunction(t)
    BY ReturnedValueByLines DEF Total
  <1>2. v \in [LinesOf(p) -> Nat] /\ c \in [LinesOf(p) -> Nat] /\ t \in [LinesOf(p) -> Nat]
    BY WorthNames, WeighedNat, FiniteLines
  <1>3. \A l \in LinesOf(p) : 2 * v[l] <= 2 * t[l] + c[l]
    BY LineReturnsBounded, FiniteLines
  <1> HIDE DEF v, c, t
  <1>4. /\ v2 \in [LinesOf(p) -> Int] /\ t2 \in [LinesOf(p) -> Int]
        /\ bound \in [LinesOf(p) -> Int]
        /\ v \in [LinesOf(p) -> Int] /\ c \in [LinesOf(p) -> Int] /\ t \in [LinesOf(p) -> Int]
    BY <1>2
  <1>5. \A l \in LinesOf(p) : v2[l] <= bound[l]
    BY <1>2, <1>3
  <1>6. \A l \in LinesOf(p) : v2[l] = v[l] * 2 /\ t2[l] = t[l] * 2 /\ bound[l] = t2[l] + c[l]
    OBVIOUS
  <1> HIDE DEF v2, t2, bound
  <1>7. SumFunction(v2) = SumFunction(v) * 2 /\ SumFunction(t2) = SumFunction(t) * 2
    <2>1. 2 \in Int
      OBVIOUS
    <2>2. SumFunction(v2) = SumFunction(v) * 2
      BY <1>4, <1>6, <2>1, FiniteLines, SumFunScale
    <2>3. SumFunction(t2) = SumFunction(t) * 2
      BY <1>4, <1>6, <2>1, FiniteLines, SumFunScale
    <2> QED
      BY <2>2, <2>3
  <1>8. SumFunction(bound) = SumFunction(t2) + SumFunction(c)
    BY <1>4, <1>6, FiniteLines, SumFunPlus
  <1>9. SumFunction(v2) <= SumFunction(bound)
    BY <1>4, <1>5, FiniteLines, SumFunMonotone
  <1>10. SumFunction(v) \in Nat /\ SumFunction(c) \in Nat /\ SumFunction(t) \in Nat
    BY <1>2, FiniteLines, SumFunNat
  <1> QED
    BY <1>1, <1>7, <1>8, <1>9, <1>10

(* The value of the returns of a purchase that are owed something. *)
CreditValue(p) ==
    SumFunction([x \in Return |-> IF IsObligation(x, p) THEN ValueOf(retQty[x]) ELSE 0])

(* Inductive: once the returns of a purchase are owed something, what they  *)
(* are owed and what is still payable together are their value at most, so  *)
(* that no payment fits in any more.                                        *)
CreditCovered(p) ==
    /\ paid[p] <= Total(p)
    /\ Owed(p) > 0 => Owed(p) + (Total(p) - paid[p]) <= CreditValue(p)

MoneyInv ==
    /\ LedgerInv
    /\ OwnLinesReturned
    /\ \A x \in Return : owed[x] > 0 => retState[x] = "posted"
    /\ \A p \in Purchase : CreditCovered(p)

(* The sums of the credits are naturals, and no more than came back. *)
LEMMA CreditNat ==
  ASSUME DocTypeOK, NEW p \in Purchase
  PROVE  Owed(p) \in Nat /\ CreditValue(p) \in Nat
  <1> DEFINE o == [x \in Return |-> IF retPurchase[x] = p THEN owed[x] ELSE 0]
             c == [x \in Return |-> IF IsObligation(x, p) THEN ValueOf(retQty[x]) ELSE 0]
  <1>1. o \in [Return -> Nat]
    BY DEF DocTypeOK
  <1>2. c \in [Return -> Nat]
    <2>1. \A x \in Return : ValueOf(retQty[x]) \in Nat
      BY ValueNat DEF DocTypeOK
    <2> QED
      BY <2>1
  <1>3. Owed(p) = SumFunction(o) /\ CreditValue(p) = SumFunction(c)
    BY DEF Owed, CreditValue
  <1> HIDE DEF o, c
  <1> QED
    BY <1>1, <1>2, <1>3, FiniteLines, SumFunNat

LEMMA CreditReturned ==
  ASSUME DocTypeOK, NEW p \in Purchase,
         \A x \in Return : owed[x] > 0 => retState[x] = "posted"
  PROVE  CreditValue(p) <= ReturnedValue(p)
  <1> DEFINE c == [x \in Return |-> IF IsObligation(x, p) THEN ValueOf(retQty[x]) ELSE 0]
             v == [x \in Return |-> IF ActiveReturn(x, p) THEN ValueOf(retQty[x]) ELSE 0]
  <1>1. \A x \in Return : ValueOf(retQty[x]) \in Nat
    BY ValueNat DEF DocTypeOK
  <1>2. c \in [Return -> Int] /\ v \in [Return -> Int]
    BY <1>1
  <1>3. \A x \in Return : c[x] <= v[x]
    BY <1>1 DEF IsObligation, ActiveReturn
  <1>4. CreditValue(p) = SumFunction(c) /\ ReturnedValue(p) = SumFunction(v)
    BY DEF CreditValue, ReturnedValue
  <1> HIDE DEF c, v
  <1> QED
    BY <1>2, <1>3, <1>4, FiniteLines, SumFunMonotone

(* So the returns of a purchase are not owed more than it was paid, but for *)
(* the rounding, and a purchase whose returns are owed takes no payment.    *)
LEMMA OwedBounded ==
  ASSUME MoneyInv, NEW p \in Purchase
  PROVE  /\ 2 * (Owed(p) - paid[p]) <= LinesReturned(p)
         /\ \A a \in Amount : CanPay(p, a) => Owed(p) = 0
  <1>1. /\ Owed(p) \in Nat /\ CreditValue(p) \in Nat /\ Total(p) \in Nat
        /\ paid[p] \in Nat /\ ReturnedValue(p) \in Nat /\ LinesReturned(p) \in Nat
        /\ CreditValue(p) <= ReturnedValue(p)
        /\ 2 * ReturnedValue(p) <= 2 * Total(p) + LinesReturned(p)
    BY CreditNat, TotalNat, CreditReturned, ReturnedValueBounded
       DEF MoneyInv, LedgerInv, DocInv, DocTypeOK
  <1>2. Owed(p) > 0 => Owed(p) + (Total(p) - paid[p]) <= CreditValue(p)
    BY DEF MoneyInv, CreditCovered
  <1>3. \A a \in Amount : a \in Nat /\ (CanPay(p, a) => paid[p] + a + ReturnedValue(p) <= Total(p))
    BY DEF CanPay
  <1> QED
    BY <1>1, <1>2, <1>3

LEMMA InitMoneyInv == DocInit => MoneyInv
  <1> SUFFICES ASSUME DocInit PROVE MoneyInv
    OBVIOUS
  <1>1. LedgerInv
    BY InitLedgerInv
  <1>2. OwnLinesReturned /\ \A x \in Return : ~(owed[x] > 0)
    BY DEF DocInit, OwnLinesReturned, NoQuantity
  <1>3. ASSUME NEW p \in Purchase PROVE CreditCovered(p)
    <2> DEFINE o == [x \in Return |-> IF retPurchase[x] = p THEN owed[x] ELSE 0]
    <2>1. o \in [Return -> Int] /\ \A x \in Return : o[x] = 0
      BY DEF DocInit
    <2>2. Owed(p) = SumFunction(o)
      BY DEF Owed
    <2> HIDE DEF o
    <2>3. Owed(p) = 0
      BY <2>1, <2>2, FiniteLines, SumFunZero
    <2> QED
      BY <2>3, TotalNat DEF DocInit, CreditCovered
  <1> QED
    BY <1>1, <1>2, <1>3 DEF MoneyInv

(* Sums over the same rows are equal. *)
LEMMA CreditKept ==
  ASSUME NEW p \in Purchase,
         \A x \in Return :
            /\ (IF retPurchase'[x] = p THEN owed'[x] ELSE 0)
                  = (IF retPurchase[x] = p THEN owed[x] ELSE 0)
            /\ (retPurchase'[x] = p /\ owed'[x] > 0) <=> (retPurchase[x] = p /\ owed[x] > 0)
            /\ retPurchase[x] = p /\ owed[x] > 0 => retQty'[x] = retQty[x]
  PROVE  Owed(p)' = Owed(p) /\ CreditValue(p)' = CreditValue(p)
  <1>1. [x \in Return |-> IF retPurchase'[x] = p THEN owed'[x] ELSE 0]
            = [x \in Return |-> IF retPurchase[x] = p THEN owed[x] ELSE 0]
    OBVIOUS
  <1>2. [x \in Return |-> IF retPurchase'[x] = p /\ owed'[x] > 0 THEN ValueOf(retQty'[x]) ELSE 0]
            = [x \in Return |-> IF retPurchase[x] = p /\ owed[x] > 0
                                THEN ValueOf(retQty[x]) ELSE 0]
    OBVIOUS
  <1> QED
    BY <1>1, <1>2 DEF Owed, CreditValue, IsObligation

(* What a return adds to the credits of its purchase, and their value. *)
LEMMA CreditAfterReturn ==
  ASSUME DocInv, NEW p \in Purchase, NEW x \in Return, NEW q \in Asked, DocReturn(p, x, q)
  PROVE  /\ Owed(p)' = Owed(p) + Credit(p, q)
         /\ CreditValue(p)' = CreditValue(p) + (IF Credit(p, q) > 0 THEN ValueOf(q) ELSE 0)
  <1> DEFINE o == [y \in Return |-> IF retPurchase[y] = p THEN owed[y] ELSE 0]
             op == [y \in Return |-> IF retPurchase'[y] = p THEN owed'[y] ELSE 0]
             c == [y \in Return |-> IF retPurchase[y] = p /\ owed[y] > 0
                                    THEN ValueOf(retQty[y]) ELSE 0]
             cp == [y \in Return |-> IF retPurchase'[y] = p /\ owed'[y] > 0
                                     THEN ValueOf(retQty'[y]) ELSE 0]
  <1>1. /\ retState[x] = "none"
        /\ retPurchase' = [retPurchase EXCEPT ![x] = p]
        /\ retQty' = [retQty EXCEPT ![x] = q]
        /\ owed' = [owed EXCEPT ![x] = Credit(p, q)]
        /\ q \in [Line -> Nat]
    BY DEF DocReturn, CanReturn, ReturnWrites, Asked
  <1>2. retPurchase[x] = NoPurchase /\ retPurchase[x] # p /\ owed[x] = 0
    BY <1>1 DEF DocInv, ReturnRows
  <1>3. ValueOf(q) \in Nat /\ Total(p) \in Nat /\ paid[p] \in Nat
    BY <1>1, ValueNat, TotalNat DEF DocInv, DocTypeOK
  <1>4. Credit(p, q) \in Nat
    BY <1>3 DEF Credit
  <1>5. \A y \in Return : ValueOf(retQty[y]) \in Nat
    BY ValueNat DEF DocInv, DocTypeOK
  <1>6. /\ retPurchase'[x] = p /\ retQty'[x] = q /\ owed'[x] = Credit(p, q)
        /\ \A y \in Return \ {x} : /\ retPurchase'[y] = retPurchase[y]
                                   /\ retQty'[y] = retQty[y]
                                   /\ owed'[y] = owed[y]
    BY <1>1 DEF DocInv, DocTypeOK
  <1>7. /\ o \in [Return -> Int] /\ c \in [Return -> Int]
        /\ op \in [Return -> Int] /\ cp \in [Return -> Int]
    <2>1. \A y \in Return : owed[y] \in Int /\ owed'[y] \in Int
      BY <1>4, <1>6 DEF DocInv, DocTypeOK
    <2>2. \A y \in Return : ValueOf(retQty[y]) \in Int /\ ValueOf(retQty'[y]) \in Int
      BY <1>3, <1>5, <1>6
    <2> QED
      BY <2>1, <2>2
  <1>8. /\ o[x] = 0 /\ op[x] = Credit(p, q) /\ \A y \in Return \ {x} : op[y] = o[y]
        /\ c[x] = 0 /\ cp[x] = (IF Credit(p, q) > 0 THEN ValueOf(q) ELSE 0)
        /\ \A y \in Return \ {x} : cp[y] = c[y]
    BY <1>2, <1>6
  <1>9. /\ Owed(p) = SumFunction(o) /\ Owed(p)' = SumFunction(op)
        /\ CreditValue(p) = SumFunction(c) /\ CreditValue(p)' = SumFunction(cp)
    BY DEF Owed, CreditValue, IsObligation
  <1> HIDE DEF o, op, c, cp
  <1>10. /\ SumFunction(op) = SumFunction(o) - o[x] + op[x]
         /\ SumFunction(cp) = SumFunction(c) - c[x] + cp[x]
    BY <1>7, <1>8, FiniteLines, SumFunChange
  <1>11. SumFunction(o) \in Int /\ SumFunction(c) \in Int
    BY <1>7, FiniteLines, SumFunInt
  <1> QED
    BY <1>3, <1>4, <1>8, <1>9, <1>10, <1>11

(* A request that neither pays nor changes a return keeps the credits. *)
LEMMA MoneyUntouched ==
  ASSUME MoneyInv, LedgerInv',
         UNCHANGED <<paid, retState, retPurchase, retQty, owed>>
  PROVE  MoneyInv'
  <1>1. \A p \in Purchase : Owed(p)' = Owed(p) /\ CreditValue(p)' = CreditValue(p)
    BY CreditKept
  <1>2. \A p \in Purchase : CreditCovered(p)'
    BY <1>1 DEF MoneyInv, CreditCovered
  <1> QED
    BY <1>2 DEF MoneyInv, OwnLinesReturned

(* add_payment *)
LEMMA PayKeepsMoneyInv ==
  ASSUME MoneyInv, LedgerInv', NEW p \in Purchase, NEW a \in Amount, DocPay(p, a)
  PROVE  MoneyInv'
  <1>1. /\ CanPay(p, a)
        /\ paid' = [paid EXCEPT ![p] = paid[p] + a]
        /\ UNCHANGED <<retState, retPurchase, retQty, owed>>
    BY DEF DocPay, PayWrites
  <1>2. \A t \in Purchase : Owed(t)' = Owed(t) /\ CreditValue(t)' = CreditValue(t)
    BY <1>1, CreditKept
  <1>3. ASSUME NEW t \in Purchase PROVE CreditCovered(t)'
    <2>1. CASE t # p
      <3>1. paid'[t] = paid[t]
        BY <1>1, <2>1 DEF MoneyInv, LedgerInv, DocInv, DocTypeOK
      <3> QED
        BY <1>2, <3>1 DEF MoneyInv, CreditCovered
    <2>2. CASE t = p
      <3>1. Owed(p) = 0
        BY <1>1, OwedBounded
      <3>2. paid'[p] = paid[p] + a /\ paid[p] + a + ReturnedValue(p) <= Total(p)
        BY <1>1 DEF CanPay, MoneyInv, LedgerInv, DocInv, DocTypeOK
      <3>3. ReturnedValue(p) \in Nat /\ Total(p) \in Nat /\ paid[p] \in Nat /\ a \in Nat
        BY ReturnedValueBounded, TotalNat DEF MoneyInv, LedgerInv, DocInv, DocTypeOK
      <3>4. paid'[p] <= Total(p) /\ ~(Owed(p)' > 0)
        BY <1>2, <3>1, <3>2, <3>3
      <3> QED
        BY <2>2, <3>4 DEF CreditCovered
    <2> QED
      BY <2>1, <2>2
  <1> QED
    BY <1>1, <1>3 DEF MoneyInv, OwnLinesReturned

(* create_return *)
LEMMA ReturnKeepsMoneyInv ==
  ASSUME NamesOwnLines, MoneyInv, LedgerInv',
         NEW p \in Purchase, NEW x \in Return, NEW q \in Asked, DocReturn(p, x, q)
  PROVE  MoneyInv'
  <1>1. /\ retState[x] = "none"
        /\ retState' = [retState EXCEPT ![x] = "posted"]
        /\ retPurchase' = [retPurchase EXCEPT ![x] = p]
        /\ retQty' = [retQty EXCEPT ![x] = q]
        /\ owed' = [owed EXCEPT ![x] = Credit(p, q)]
        /\ paid' = paid
        /\ q \in [Line -> Nat]
        /\ \A l \in Line : q[l] > 0 => l \in Named[p]
    BY DEF DocReturn, CanReturn, ReturnWrites, Asked
  <1>2. DocInv /\ DocTypeOK /\ retPurchase[x] = NoPurchase /\ owed[x] = 0
    BY <1>1 DEF MoneyInv, LedgerInv, DocInv, ReturnRows
  <1>3. /\ retState'[x] = "posted" /\ retPurchase'[x] = p /\ retQty'[x] = q
        /\ \A y \in Return \ {x} : /\ retState'[y] = retState[y]
                                   /\ retPurchase'[y] = retPurchase[y]
                                   /\ retQty'[y] = retQty[y]
                                   /\ owed'[y] = owed[y]
    BY <1>1, <1>2 DEF DocTypeOK
  <1>4. OwnLinesReturned'
    <2>1. \A l \in Line : q[l] > 0 => PurchaseOf[l] = p
      BY <1>1 DEF NamesOwnLines, LinesOf
    <2> QED
      BY <1>3, <2>1 DEF MoneyInv, OwnLinesReturned
  <1>5. \A y \in Return : owed'[y] > 0 => retState'[y] = "posted"
    BY <1>3 DEF MoneyInv
  <1>6. ASSUME NEW t \in Purchase, t # p PROVE CreditCovered(t)'
    <2>1. retPurchase[x] # t /\ retPurchase'[x] # t
      BY <1>2, <1>3, <1>6
    <2>2. Owed(t)' = Owed(t) /\ CreditValue(t)' = CreditValue(t)
      BY <1>3, <2>1, CreditKept
    <2> QED
      BY <1>1, <2>2 DEF MoneyInv, CreditCovered
  <1>7. CreditCovered(p)'
    <2>1. /\ Owed(p)' = Owed(p) + Credit(p, q)
          /\ CreditValue(p)' = CreditValue(p) + (IF Credit(p, q) > 0 THEN ValueOf(q) ELSE 0)
      BY <1>2, CreditAfterReturn
    <2>2. CreditCovered(p)
      BY DEF MoneyInv
    <2>3. /\ ValueOf(q) \in Nat /\ Total(p) \in Nat /\ paid[p] \in Nat
          /\ Owed(p) \in Nat /\ CreditValue(p) \in Nat
      BY <1>1, <1>2, ValueNat, TotalNat, CreditNat DEF DocTypeOK
    <2>4. Credit(p, q) = IF ValueOf(q) > Total(p) - paid[p]
                         THEN ValueOf(q) - (Total(p) - paid[p]) ELSE 0
      BY DEF Credit
    <2> DEFINE covered == /\ paid[p] <= Total(p)
                          /\ Owed(p)' > 0 => Owed(p)' + (Total(p) - paid[p]) <= CreditValue(p)'
    <2>5. covered
      BY <2>1, <2>2, <2>3, <2>4 DEF CreditCovered
    <2> QED
      BY <1>1, <2>5 DEF CreditCovered
  <1> QED
    BY <1>4, <1>5, <1>6, <1>7 DEF MoneyInv

(* cancel_return: a return that is owed something is not cancelled. *)
LEMMA CancelReturnKeepsMoneyInv ==
  ASSUME MoneyInv, LedgerInv', NEW x \in Return, DocCancelReturn(x)
  PROVE  MoneyInv'
  <1>1. /\ owed[x] = 0
        /\ retState' = [retState EXCEPT ![x] = "cancelled"]
        /\ UNCHANGED <<paid, retPurchase, retQty, owed>>
    BY DEF DocCancelReturn, CanCancelReturn, VoidAccepted, CancelReturnWrites
  <1>2. \A p \in Purchase : Owed(p)' = Owed(p) /\ CreditValue(p)' = CreditValue(p)
    BY <1>1, CreditKept
  <1>3. \A p \in Purchase : CreditCovered(p)'
    BY <1>1, <1>2 DEF MoneyInv, CreditCovered
  <1>4. \A y \in Return : owed'[y] > 0 => retState'[y] = "posted"
    BY <1>1 DEF MoneyInv, LedgerInv, DocInv, DocTypeOK
  <1> QED
    BY <1>1, <1>3, <1>4 DEF MoneyInv, OwnLinesReturned

(* Every request keeps the credits covered. *)
LEMMA NextKeepsMoneyInv ==
  ASSUME NamesOwnLines, MoneyInv, [DocNext]_docVars
  PROVE  MoneyInv'
  <1>1. LedgerInv'
    BY NextKeepsLedgerInv DEF MoneyInv
  <1>2. CASE UNCHANGED docVars
    BY <1>1, <1>2, MoneyUntouched DEF docVars
  <1>3. ASSUME NEW p \in Purchase, DocPost(p) \/ DocCancel(p) PROVE MoneyInv'
    BY <1>1, <1>3, MoneyUntouched DEF DocPost, PostWrites, DocCancel, CancelWrites
  <1>4. ASSUME NEW p \in Purchase, NEW x \in Return, NEW a \in Amount, DocRepay(p, x, a)
        PROVE  MoneyInv'
    BY <1>1, <1>4, MoneyUntouched DEF DocRepay, RepayWrites
  <1>5. ASSUME NEW l \in Line, NEW n \in 1 .. MaxAsked, DocSort(l, n) \/ DocUnsort(l, n)
        PROVE  MoneyInv'
    BY <1>1, <1>5, MoneyUntouched DEF DocSort, SortWrites, DocUnsort, UnsortWrites
  <1> QED
    BY <1>1, <1>2, <1>3, <1>4, <1>5, PayKeepsMoneyInv, ReturnKeepsMoneyInv,
       CancelReturnKeepsMoneyInv DEF DocNext

(* What the invariant says of the money. *)
LEMMA MoneyInvBounds == MoneyInv => MoneyBounded
  <1> SUFFICES ASSUME MoneyInv PROVE MoneyBounded
    OBVIOUS
  <1>1. CollectedBounded
    BY DEF MoneyInv, LedgerInv, DocInv
  <1>2. \A p \in Purchase : paid[p] <= Total(p) /\ 2 * (Owed(p) - paid[p]) <= LinesReturned(p)
    BY OwedBounded DEF MoneyInv, CreditCovered
  <1> QED
    BY <1>1, <1>2 DEF MoneyBounded

(* A purchase is never overpaid, no return collects more than it is owed,   *)
(* and the returns are owed no more than was paid but for half a cent of    *)
(* each line they name (add_payment, create_return, create_repayment).      *)
THEOREM PurchaseMoneyBounded == ASSUME NamesOwnLines PROVE PurchaseSpec => []MoneyBounded
  <1>1. MoneyInv /\ [DocNext]_docVars => MoneyInv'
    BY NextKeepsMoneyInv
  <1> QED
    BY <1>1, InitMoneyInv, MoneyInvBounds, PTL DEF PurchaseSpec

-----------------------------------------------------------------------------
(* The lifecycle, under the same assumption *)

(* What LifecycleTellsReturns says of one purchase. *)
TellsReturns(p) ==
    /\ status[p] = "returned"
          <=> ActiveOf(p) > 0 /\ status[p] # "cancelled"
              /\ \A l \in LinesOf(p) : Returned(l) = Quantity[l]
    /\ status[p] \in {"draft", "posted", "completed"} => ActiveOf(p) = 0
    /\ status[p] = "partially_returned" => ActiveOf(p) > 0
    /\ status[p] = "completed" => paid[p] = Total(p)
    /\ status[p] = "posted" => paid[p] < Total(p) \/ paid[p] = 0

(* Inductive: a payment that settles a purchase finds no return of it, as   *)
(* every return has a value; a draft is not paid.                           *)
LifecycleInv ==
    /\ MoneyInv
    /\ \A x \in Return : retState[x] = "posted" => ValueOf(retQty[x]) > 0
    /\ \A p \in Purchase : status[p] = "draft" => paid[p] = 0
    /\ LifecycleTellsReturns

(* The quantity of a purchase that went back: what it counts, when it stays *)
(* and how returns and their cancellations change it.                       *)
LEMMA ActiveNat ==
  ASSUME DocTypeOK, NEW p \in Purchase
  PROVE  /\ ActiveOf(p) \in Nat
         /\ ActiveOf(p) > 0 => \E x \in Return : ActiveReturn(x, p)
  <1> DEFINE a == [x \in Return |-> IF ActiveReturn(x, p) THEN SumFunction(retQty[x]) ELSE 0]
  <1>1. \A x \in Return : SumFunction(retQty[x]) \in Nat
    <2> SUFFICES ASSUME NEW x \in Return PROVE SumFunction(retQty[x]) \in Nat
      OBVIOUS
    <2>1. retQty[x] \in [Line -> Nat]
      BY DEF DocTypeOK
    <2> QED
      BY <2>1, FiniteLines, SumFunNat
  <1>2. a \in [Return -> Nat]
    BY <1>1
  <1>3. ActiveOf(p) = SumFunction(a)
    BY DEF ActiveOf
  <1>4. (\A x \in Return : ~ActiveReturn(x, p)) => \A x \in Return : a[x] = 0
    OBVIOUS
  <1> HIDE DEF a
  <1>5. (\A x \in Return : a[x] = 0) => SumFunction(a) = 0
    <2>1. a \in [Return -> Int]
      BY <1>2
    <2> QED
      BY <2>1, FiniteLines, SumFunZero
  <1>6. SumFunction(a) \in Nat
    BY <1>2, FiniteLines, SumFunNat
  <1> QED
    BY <1>3, <1>4, <1>5, <1>6

LEMMA ActiveKept ==
  ASSUME NEW p \in Purchase,
         \A x \in Return :
            /\ (retState'[x] = "posted" /\ retPurchase'[x] = p)
                  <=> (retState[x] = "posted" /\ retPurchase[x] = p)
            /\ retState[x] = "posted" /\ retPurchase[x] = p => retQty'[x] = retQty[x]
  PROVE  ActiveOf(p)' = ActiveOf(p)
  <1>1. [x \in Return |-> IF retState'[x] = "posted" /\ retPurchase'[x] = p
                          THEN SumFunction(retQty'[x]) ELSE 0]
            = [x \in Return |-> IF retState[x] = "posted" /\ retPurchase[x] = p
                                THEN SumFunction(retQty[x]) ELSE 0]
    OBVIOUS
  <1> QED
    BY <1>1 DEF ActiveOf, ActiveReturn

LEMMA ValuePositive ==
  ASSUME NEW q \in [Line -> Nat], ValueOf(q) > 0
  PROVE  \E l \in Line : q[l] > 0
  <1> DEFINE v == [l \in Line |-> LineValue(l, q[l])]
  <1> SUFFICES ASSUME \A l \in Line : ~(q[l] > 0) PROVE FALSE
    OBVIOUS
  <1>1. \A l \in Line : q[l] \in Nat /\ q[l] = 0
    OBVIOUS
  <1>2. \A l \in Line : LineValue(l, q[l]) = 0
    BY <1>1, LineValueClose
  <1>3. v \in [Line -> Int] /\ \A l \in Line : v[l] = 0
    BY <1>2
  <1>4. ValueOf(q) = SumFunction(v)
    BY DEF ValueOf
  <1> HIDE DEF v
  <1>5. ValueOf(q) = 0
    BY <1>3, <1>4, FiniteLines, SumFunZero
  <1> QED
    BY <1>5

LEMMA ActiveAfterReturn ==
  ASSUME DocInv, NEW p \in Purchase, NEW x \in Return, NEW q \in Asked, DocReturn(p, x, q)
  PROVE  ActiveOf(p)' > 0
  <1> DEFINE a == [y \in Return |-> IF retState'[y] = "posted" /\ retPurchase'[y] = p
                                    THEN SumFunction(retQty'[y]) ELSE 0]
  <1>1. /\ ValueOf(q) > 0
        /\ retState' = [retState EXCEPT ![x] = "posted"]
        /\ retPurchase' = [retPurchase EXCEPT ![x] = p]
        /\ retQty' = [retQty EXCEPT ![x] = q]
        /\ q \in [Line -> Nat]
    BY DEF DocReturn, CanReturn, ReturnWrites, Asked
  <1>2. PICK l \in Line : q[l] > 0
    BY <1>1, ValuePositive
  <1>3. SumFunction(q) \in Nat /\ SumFunction(q) > 0
    <2>1. SumFunction(q) \in Nat /\ q[l] <= SumFunction(q)
      BY <1>1, FiniteLines, SumFunNat
    <2>2. q[l] \in Nat
      BY <1>1
    <2> QED
      BY <1>2, <2>1, <2>2
  <1>4. \A y \in Return : SumFunction(retQty'[y]) \in Nat
    <2> SUFFICES ASSUME NEW y \in Return PROVE SumFunction(retQty'[y]) \in Nat
      OBVIOUS
    <2>1. retQty'[y] \in [Line -> Nat]
      BY <1>1 DEF DocInv, DocTypeOK
    <2> QED
      BY <2>1, FiniteLines, SumFunNat
  <1>5. a \in [Return -> Nat] /\ a[x] = SumFunction(q)
    BY <1>1, <1>4 DEF DocInv, DocTypeOK
  <1>6. ActiveOf(p)' = SumFunction(a)
    BY DEF ActiveOf, ActiveReturn
  <1> HIDE DEF a
  <1>7. SumFunction(a) \in Nat /\ a[x] <= SumFunction(a)
    BY <1>5, FiniteLines, SumFunNat
  <1> QED
    BY <1>3, <1>5, <1>6, <1>7

LEMMA ActiveAfterCancel ==
  ASSUME DocTypeOK, NEW x \in Return, DocCancelReturn(x), NEW p \in Purchase
  PROVE  ActiveOf(p)' = ActiveWithout(p, x)
  <1>1. /\ retState' = [retState EXCEPT ![x] = "cancelled"]
        /\ UNCHANGED <<retPurchase, retQty>>
    BY DEF DocCancelReturn, CancelReturnWrites
  <1>2. \A y \in Return : (retState'[y] = "posted" /\ retPurchase'[y] = p)
                             <=> (retState[y] = "posted" /\ retPurchase[y] = p /\ y # x)
    BY <1>1 DEF DocTypeOK
  <1>3. [y \in Return |-> IF retState'[y] = "posted" /\ retPurchase'[y] = p
                          THEN SumFunction(retQty'[y]) ELSE 0]
         = [y \in Return |-> IF (retState[y] = "posted" /\ retPurchase[y] = p) /\ y # x
                             THEN SumFunction(retQty[y]) ELSE 0]
    BY <1>1, <1>2
  <1> QED
    BY <1>3 DEF ActiveOf, ActiveWithout, ActiveReturn

(* All of a purchase went back when the quantities returned add up to the   *)
(* quantities bought, and then every line went back in full.                *)
LEMMA ActiveFull ==
  ASSUME DocTypeOK, OwnLinesReturned, ReturnsBounded, NEW p \in Purchase
  PROVE  ActiveOf(p) >= SumFunctionOnSet(Quantity, LinesOf(p))
            <=> \A l \in LinesOf(p) : Returned(l) = Quantity[l]
  <1> DEFINE f == [l \in LinesOf(p) |-> Returned(l)]
             g == [l \in LinesOf(p) |-> Quantity[l]]
  <1>1. \A l \in LinesOf(p) :
           Returned(l) \in Nat /\ Quantity[l] \in Nat /\ Returned(l) <= Quantity[l]
    BY ReturnedNat, FiniteLines DEF ReturnsBounded
  <1>2. f \in [LinesOf(p) -> Int] /\ g \in [LinesOf(p) -> Int]
    BY <1>1
  <1>3. \A l \in LinesOf(p) : f[l] = Returned(l) /\ g[l] = Quantity[l]
    OBVIOUS
  <1>4. ActiveOf(p) = SumFunction(f)
    BY ActiveByLines
  <1> HIDE DEF f, g
  <1>5. SumFunctionOnSet(Quantity, LinesOf(p)) = SumFunction(g)
    <2>1. SumFunction(g) = SumFunctionOnSet(g, LinesOf(p))
      BY <1>2, SumWhole
    <2>2. SumFunctionOnSet(g, LinesOf(p)) = SumFunctionOnSet(Quantity, LinesOf(p))
      BY <1>3, FiniteLines, SumSame
    <2> QED
      BY <2>1, <2>2
  <1>6. /\ SumFunction(f) <= SumFunction(g)
        /\ SumFunction(f) >= SumFunction(g) => \A l \in LinesOf(p) : f[l] = g[l]
    <2>1. \A l \in LinesOf(p) : f[l] <= g[l]
      BY <1>1, <1>3
    <2> QED
      BY <1>2, <2>1, FiniteLines, SumFunMonotone
  <1>7. (\A l \in LinesOf(p) : f[l] = g[l]) => f = g
    BY <1>2
  <1>8. SumFunction(f) \in Int /\ SumFunction(g) \in Int
    BY <1>2, FiniteLines, SumFunInt
  <1> QED
    BY <1>3, <1>4, <1>5, <1>6, <1>7, <1>8

(* A return has a value, and it is part of the value of all the returns.    *)
LEMMA ActiveHasValue ==
  ASSUME LifecycleInv, NEW p \in Purchase, ActiveOf(p) > 0
  PROVE  ReturnedValue(p) > 0
  <1> DEFINE v == [x \in Return |-> IF ActiveReturn(x, p) THEN ValueOf(retQty[x]) ELSE 0]
  <1>1. DocTypeOK /\ \A x \in Return : retState[x] = "posted" => ValueOf(retQty[x]) > 0
    BY DEF LifecycleInv, MoneyInv, LedgerInv, DocInv
  <1>2. PICK x \in Return : ActiveReturn(x, p)
    BY <1>1, ActiveNat
  <1>3. \A y \in Return : ValueOf(retQty[y]) \in Nat
    BY <1>1, ValueNat DEF DocTypeOK
  <1>4. v \in [Return -> Nat] /\ v[x] > 0 /\ v[x] \in Nat
    BY <1>1, <1>2, <1>3 DEF ActiveReturn
  <1>5. ReturnedValue(p) = SumFunction(v)
    BY DEF ReturnedValue
  <1> HIDE DEF v
  <1>6. SumFunction(v) \in Nat /\ v[x] <= SumFunction(v)
    BY <1>4, FiniteLines, SumFunNat
  <1> QED
    BY <1>4, <1>5, <1>6

(* The same after a step. *)
ActiveSums ==
    \A p \in Purchase :
        /\ ActiveOf(p) \in Nat
        /\ ActiveOf(p) >= SumFunctionOnSet(Quantity, LinesOf(p))
              <=> \A l \in LinesOf(p) : Returned(l) = Quantity[l]

LEMMA ActiveSumsAlways == DocTypeOK /\ OwnLinesReturned /\ ReturnsBounded => ActiveSums
  BY ActiveNat, ActiveFull DEF ActiveSums

LEMMA ActiveSumsNext ==
  ASSUME DocTypeOK', OwnLinesReturned', ReturnsBounded'
  PROVE  ActiveSums'
  BY ActiveSumsAlways, PTL

(* A purchase whose row and returns are left alone tells what it told. *)
LEMMA TellsKept ==
  ASSUME NEW p \in Purchase, TellsReturns(p),
         status'[p] = status[p], paid'[p] = paid[p], ActiveOf(p)' = ActiveOf(p),
         \A l \in LinesOf(p) : Returned(l)' = Returned(l)
  PROVE  TellsReturns(p)'
  BY DEF TellsReturns

LEMMA InitLifecycleInv == DocInit => LifecycleInv
  <1> SUFFICES ASSUME DocInit PROVE LifecycleInv
    OBVIOUS
  <1>1. MoneyInv
    BY InitMoneyInv
  <1>2. DocTypeOK /\ \A x \in Return : retState[x] # "posted"
    BY <1>1 DEF MoneyInv, LedgerInv, DocInv, DocInit
  <1>3. ASSUME NEW p \in Purchase PROVE TellsReturns(p)
    <2>1. ActiveOf(p) \in Nat /\ ~(ActiveOf(p) > 0)
      BY <1>2, ActiveNat DEF ActiveReturn
    <2>2. status[p] = "draft"
      BY DEF DocInit
    <2> QED
      BY <2>1, <2>2 DEF TellsReturns
  <1>4. \A p \in Purchase : paid[p] = 0
    BY DEF DocInit
  <1> QED
    BY <1>1, <1>2, <1>3, <1>4 DEF LifecycleInv, LifecycleTellsReturns, TellsReturns

(* What is left to show of a request that leaves the returns alone. *)
LEMMA LifecycleOfReturnsUntouched ==
  ASSUME LifecycleInv, MoneyInv', UNCHANGED <<retState, retPurchase, retQty>>,
         NEW p \in Purchase,
         \A t \in Purchase : t # p => status'[t] = status[t] /\ paid'[t] = paid[t],
         status'[p] = "draft" => paid'[p] = 0,
         TellsReturns(p)'
  PROVE  LifecycleInv'
  <1>1. ASSUME NEW t \in Purchase, t # p PROVE TellsReturns(t)'
    <2>1. \A l \in LinesOf(t) : Returned(l)' = Returned(l)
      BY ReturnedUntouched, FiniteLines
    <2>2. ActiveOf(t)' = ActiveOf(t)
      BY ActiveKept
    <2> QED
      BY <1>1, <2>1, <2>2, TellsKept DEF LifecycleInv, LifecycleTellsReturns, TellsReturns
  <1>2. LifecycleTellsReturns'
    BY <1>1 DEF LifecycleTellsReturns, TellsReturns
  <1> QED
    BY <1>2 DEF LifecycleInv

(* post_purchase *)
LEMMA PostKeepsLifecycleInv ==
  ASSUME LifecycleInv, MoneyInv', NEW p \in Purchase, DocPost(p)
  PROVE  LifecycleInv'
  <1>1. /\ status[p] = "draft" /\ status' = [status EXCEPT ![p] = "posted"]
        /\ UNCHANGED <<paid, retState, retPurchase, retQty>>
    BY DEF DocPost, CanPost, PostWrites
  <1>2. status'[p] = "posted" /\ \A t \in Purchase : t # p => status'[t] = status[t]
    BY <1>1 DEF LifecycleInv, MoneyInv, LedgerInv, DocInv, DocTypeOK
  <1>3. ActiveOf(p)' = ActiveOf(p) /\ ActiveOf(p) = 0 /\ paid[p] = 0
    BY <1>1, ActiveKept DEF LifecycleInv, LifecycleTellsReturns
  <1>4. TellsReturns(p)'
    BY <1>1, <1>2, <1>3 DEF TellsReturns
  <1> QED
    BY <1>1, <1>2, <1>4, LifecycleOfReturnsUntouched

(* cancel_purchase *)
LEMMA CancelKeepsLifecycleInv ==
  ASSUME LifecycleInv, MoneyInv', NEW p \in Purchase, DocCancel(p)
  PROVE  LifecycleInv'
  <1>1. /\ status' = [status EXCEPT ![p] = "cancelled"]
        /\ UNCHANGED <<paid, retState, retPurchase, retQty>>
    BY DEF DocCancel, CancelWrites
  <1>2. status'[p] = "cancelled" /\ \A t \in Purchase : t # p => status'[t] = status[t]
    BY <1>1 DEF LifecycleInv, MoneyInv, LedgerInv, DocInv, DocTypeOK
  <1>3. TellsReturns(p)'
    BY <1>2 DEF TellsReturns
  <1> QED
    BY <1>1, <1>2, <1>3, LifecycleOfReturnsUntouched

(* add_payment: a payment that settles the purchase leaves nothing payable, *)
(* so nothing of it went back.                                              *)
LEMMA PayKeepsLifecycleInv ==
  ASSUME LifecycleInv, MoneyInv', NEW p \in Purchase, NEW a \in Amount, DocPay(p, a)
  PROVE  LifecycleInv'
  <1>1. /\ status[p] \notin {"draft", "cancelled"}
        /\ paid[p] + a + ReturnedValue(p) <= Total(p)
        /\ paid' = [paid EXCEPT ![p] = paid[p] + a]
        /\ status' = [status EXCEPT ![p] = IF paid[p] + a >= Total(p) THEN "completed"
                                           ELSE status[p]]
        /\ UNCHANGED <<retState, retPurchase, retQty>>
    BY DEF DocPay, CanPay, PayWrites, Settles
  <1>2. DocTypeOK /\ OwnLinesReturned /\ ReturnsBounded
    BY DEF LifecycleInv, MoneyInv, LedgerInv, DocInv
  <1>3. /\ paid'[p] = paid[p] + a
        /\ status'[p] = IF paid[p] + a >= Total(p) THEN "completed" ELSE status[p]
        /\ \A t \in Purchase : t # p => status'[t] = status[t] /\ paid'[t] = paid[t]
    BY <1>1, <1>2 DEF DocTypeOK
  <1>4. /\ ReturnedValue(p) \in Nat /\ Total(p) \in Nat /\ paid[p] \in Nat
        /\ a \in Nat /\ a > 0 /\ ActiveOf(p) \in Nat
    BY <1>2, ReturnedValueBounded, TotalNat, ActiveNat DEF DocTypeOK
  <1>5. ActiveOf(p)' = ActiveOf(p) /\ \A l \in LinesOf(p) : Returned(l)' = Returned(l)
    BY <1>1, ActiveKept, ReturnedUntouched, FiniteLines
  <1>6. TellsReturns(p)'
    <2>1. CASE paid[p] + a >= Total(p)
      <3>1. ReturnedValue(p) = 0 /\ paid[p] + a = Total(p)
        BY <1>1, <1>4, <2>1
      <3>2. ActiveOf(p) = 0
        BY <1>4, <3>1, ActiveHasValue
      <3> QED
        BY <1>3, <1>5, <2>1, <3>1, <3>2 DEF TellsReturns
    <2>2. CASE ~(paid[p] + a >= Total(p))
      <3>1. TellsReturns(p)
        BY DEF LifecycleInv, LifecycleTellsReturns, TellsReturns
      <3>2. status'[p] = status[p] /\ paid'[p] < Total(p) /\ status[p] # "completed"
        BY <1>3, <1>4, <2>2, <3>1 DEF TellsReturns
      <3> QED
        BY <1>5, <3>1, <3>2 DEF TellsReturns
    <2> QED
      BY <2>1, <2>2
  <1>7. status'[p] # "draft"
    BY <1>1, <1>3
  <1> QED
    BY <1>1, <1>3, <1>6, <1>7, LifecycleOfReturnsUntouched

(* create_return *)
LEMMA ReturnKeepsLifecycleInv ==
  ASSUME NamesOwnLines, LifecycleInv, MoneyInv',
         NEW p \in Purchase, NEW x \in Return, NEW q \in Asked, DocReturn(p, x, q)
  PROVE  LifecycleInv'
  <1>1. /\ status[p] \in Returnable /\ retState[x] = "none" /\ ValueOf(q) > 0
        /\ retState' = [retState EXCEPT ![x] = "posted"]
        /\ retPurchase' = [retPurchase EXCEPT ![x] = p]
        /\ retQty' = [retQty EXCEPT ![x] = q]
        /\ status' = [status EXCEPT ![p] = AfterReturn(p, q)]
        /\ paid' = paid
        /\ \A l \in Line : q[l] \in Nat /\ (q[l] > 0 => l \in Named[p])
    BY DEF DocReturn, CanReturn, ReturnWrites, Asked
  <1>2. DocInv /\ DocTypeOK /\ retPurchase[x] = NoPurchase
    BY <1>1 DEF LifecycleInv, MoneyInv, LedgerInv, DocInv, ReturnRows
  <1>3. /\ retState'[x] = "posted" /\ retPurchase'[x] = p /\ retQty'[x] = q
        /\ \A y \in Return \ {x} : /\ retState'[y] = retState[y]
                                   /\ retPurchase'[y] = retPurchase[y]
                                   /\ retQty'[y] = retQty[y]
        /\ status'[p] = AfterReturn(p, q)
        /\ \A t \in Purchase : t # p => status'[t] = status[t]
    BY <1>1, <1>2 DEF DocTypeOK
  <1>4. \A l \in Line : Returned(l)' = Returned(l) + q[l] /\ Returned(l) \in Nat
    BY <1>2, ReturnedAfterReturn, ReturnedNat
  <1>5. \A y \in Return : retState'[y] = "posted" => ValueOf(retQty'[y]) > 0
    BY <1>1, <1>3 DEF LifecycleInv
  <1>6. \A t \in Purchase : status'[t] = "draft" => paid'[t] = 0
    BY <1>1, <1>3 DEF LifecycleInv, AfterReturn
  <1>7. ASSUME NEW t \in Purchase, t # p PROVE TellsReturns(t)'
    <2>1. \A l \in LinesOf(t) : Returned(l)' = Returned(l)
      <3>1. \A l \in LinesOf(t) : l \in Line /\ PurchaseOf[l] # p
        BY <1>7 DEF LinesOf
      <3>2. \A l \in LinesOf(t) : q[l] = 0
        BY <1>1, <3>1 DEF NamesOwnLines, LinesOf
      <3> QED
        BY <1>4, <3>1, <3>2
    <2>2. ActiveOf(t)' = ActiveOf(t)
      <3>1. retPurchase[x] # t /\ retPurchase'[x] # t
        BY <1>2, <1>3, <1>7
      <3> QED
        BY <1>3, <3>1, ActiveKept
    <2> QED
      BY <1>1, <1>3, <1>7, <2>1, <2>2, TellsKept
         DEF LifecycleInv, LifecycleTellsReturns, TellsReturns
  <1>8. TellsReturns(p)'
    <2>1. ActiveOf(p)' > 0
      BY <1>2, ActiveAfterReturn
    <2>2. \A l \in LinesOf(p) : /\ Returned(l)' \in Nat /\ Quantity[l] \in Nat
                                /\ Returned(l)' <= Quantity[l]
                                /\ Returned(l)' = Returned(l) + q[l]
      <3>1. \A l \in Line : Returned(l)' \in Nat
        BY <1>1, <1>4
      <3> QED
        BY <1>4, <3>1, FiniteLines DEF MoneyInv, LedgerInv, ReturnsBounded
    <2>3. FullyReturned(p, q) <=> \A l \in LinesOf(p) : Returned(l)' = Quantity[l]
      BY <2>2 DEF FullyReturned
    <2>4. status'[p] = "returned" <=> \A l \in LinesOf(p) : Returned(l)' = Quantity[l]
      BY <1>3, <2>3 DEF AfterReturn
    <2>5. status'[p] \in {"returned", "partially_returned"}
      BY <1>3 DEF AfterReturn
    <2> QED
      BY <2>1, <2>4, <2>5 DEF TellsReturns
  <1>9. LifecycleTellsReturns'
    BY <1>7, <1>8 DEF LifecycleTellsReturns, TellsReturns
  <1> QED
    BY <1>5, <1>6, <1>9 DEF LifecycleInv

(* cancel_return: what is recovered tells what the other returns say. *)
LEMMA CancelReturnKeepsLifecycleInv ==
  ASSUME LifecycleInv, MoneyInv', NEW x \in Return, DocCancelReturn(x)
  PROVE  LifecycleInv'
  <1> DEFINE p == retPurchase[x]
  <1>1. /\ retState[x] = "posted"
        /\ retState' = [retState EXCEPT ![x] = "cancelled"]
        /\ UNCHANGED <<paid, retPurchase, retQty>>
        /\ status' = [status EXCEPT ![p] =
              IF status[p] = "cancelled" THEN status[p] ELSE Recovered(p, ActiveWithout(p, x))]
    BY DEF DocCancelReturn, CanCancelReturn, CancelReturnWrites, StatusWithout
  <1>2. DocInv /\ DocTypeOK /\ DocTypeOK' /\ OwnLinesReturned /\ OwnLinesReturned'
        /\ ReturnsBounded'
    BY DEF LifecycleInv, MoneyInv, LedgerInv, DocInv
  <1>3. p \in Purchase /\ \A t \in Purchase : t # p => status'[t] = status[t]
    BY <1>2, RecoveredStatus
  <1>4. \A y \in Return : retState'[y] = "posted" =>
            retState[y] = "posted" /\ y # x
    BY <1>1, <1>2 DEF DocTypeOK
  <1>5. \A y \in Return : retState'[y] = "posted" => ValueOf(retQty'[y]) > 0
    BY <1>1, <1>4 DEF LifecycleInv
  <1>6. status[p] # "draft" /\ status'[p] # "draft"
    BY <1>1, <1>2, <1>3 DEF DocInv, NoDraftReturned, DocTypeOK, Recovered
  <1>7. \A t \in Purchase : status'[t] = "draft" => paid'[t] = 0
    BY <1>1, <1>3, <1>6 DEF LifecycleInv
  <1>8. ASSUME NEW t \in Purchase, t # p PROVE TellsReturns(t)'
    <2>1. \A l \in LinesOf(t) : Returned(l)' = Returned(l)
      <3>1. \A l \in LinesOf(t) : l \in Line /\ PurchaseOf[l] # p
        BY <1>8 DEF LinesOf
      <3>2. \A l \in LinesOf(t) : retQty[x][l] \in Nat /\ ~(retQty[x][l] > 0)
        BY <1>2, <3>1 DEF OwnLinesReturned, DocTypeOK
      <3>3. \A l \in LinesOf(t) : Returned(l)' = Returned(l) - retQty[x][l]
                                  /\ Returned(l) \in Nat
        BY <1>2, <3>1, ReturnedAfterCancel, ReturnedNat
      <3> QED
        BY <3>2, <3>3
    <2>2. ActiveOf(t)' = ActiveOf(t)
      <3>1. \A y \in Return : (retState'[y] = "posted" /\ retPurchase'[y] = t)
                                 <=> (retState[y] = "posted" /\ retPurchase[y] = t)
        BY <1>1, <1>2, <1>8 DEF DocTypeOK
      <3> QED
        BY <1>1, <3>1, ActiveKept
    <2> QED
      BY <1>1, <1>3, <1>8, <2>1, <2>2, TellsKept
         DEF LifecycleInv, LifecycleTellsReturns, TellsReturns
  <1>9. TellsReturns(p)'
    <2> DEFINE all == \A l \in LinesOf(p) : Returned(l)' = Quantity[l]
               gross == SumFunctionOnSet(Quantity, LinesOf(p))
               active == ActiveWithout(p, x)
    <2>1. PICK t \in Purchase : t = p
      BY <1>3
    <2>2. ActiveOf(t)' = ActiveWithout(t, x)
      BY <1>2, ActiveAfterCancel
    <2>3. ActiveOf(t)' \in Nat
      BY <1>2, ActiveSumsNext DEF ActiveSums
    <2>4. ActiveOf(t)' >= SumFunctionOnSet(Quantity, LinesOf(t))
            <=> \A l \in LinesOf(t) : Returned(l)' = Quantity[l]
      BY <1>2, ActiveSumsNext DEF ActiveSums
    <2>5. SumFunctionOnSet(Quantity, LinesOf(t)) > 0
      <3>1. LinesOf(t) # {}
        <4>1. ValueOf(retQty[x]) > 0 /\ retQty[x] \in [Line -> Nat]
          BY <1>1, <1>2 DEF LifecycleInv, DocTypeOK
        <4>2. PICK l \in Line : retQty[x][l] > 0
          BY <4>1, ValuePositive
        <4> QED
          BY <1>2, <2>1, <4>2 DEF OwnLinesReturned, LinesOf
      <3>2. \A l \in LinesOf(t) : Quantity[l] \in Nat /\ Quantity[l] > 0
        BY FiniteLines
      <3>3. /\ SumFunctionOnSet(Quantity, LinesOf(t)) \in Nat
            /\ \A l \in LinesOf(t) : Quantity[l] <= SumFunctionOnSet(Quantity, LinesOf(t))
        BY <3>2, FiniteLines, SumNat
      <3> QED
        BY <3>1, <3>2, <3>3
    <2>6. paid'[t] = paid[t] /\ paid[t] \in Nat /\ paid[t] <= Total(t) /\ Total(t) \in Nat
      BY <1>1, <1>2, TotalNat DEF LifecycleInv, MoneyInv, CreditCovered, DocTypeOK
    <2>7. CASE status[t] = "cancelled"
      <3>1. status'[t] = "cancelled"
        BY <1>1, <1>2, <2>1, <2>7 DEF DocTypeOK
      <3> QED
        BY <1>1, <2>1, <3>1 DEF TellsReturns
    <2>8. CASE status[t] # "cancelled"
      <3>1. status'[t] = Recovered(t, ActiveOf(t)')
        BY <1>1, <1>2, <2>1, <2>2, <2>8 DEF DocTypeOK
      <3>2. status'[t] = IF \A l \in LinesOf(t) : Returned(l)' = Quantity[l] THEN "returned"
                         ELSE IF ActiveOf(t)' > 0 THEN "partially_returned"
                         ELSE IF paid[t] > 0 /\ paid[t] >= Total(t) THEN "completed"
                         ELSE "posted"
        BY <2>4, <3>1 DEF Recovered
      <3>3. (\A l \in LinesOf(t) : Returned(l)' = Quantity[l]) => ActiveOf(t)' > 0
        <4>1. SumFunctionOnSet(Quantity, LinesOf(t)) \in Int
          <5>1. \A l \in LinesOf(t) : Quantity[l] \in Int
            BY FiniteLines
          <5> QED
            BY <5>1, FiniteLines, SumInt
        <4> QED
          BY <2>3, <2>4, <2>5, <4>1
      <3>4. TellsReturns(t)'
        BY <2>3, <2>6, <3>2, <3>3 DEF TellsReturns
      <3> QED
        BY <1>1, <2>1, <3>4 DEF TellsReturns
    <2> QED
      BY <2>1, <2>7, <2>8
  <1>10. LifecycleTellsReturns'
    <2>1. \A t \in Purchase : TellsReturns(t)'
      BY <1>1, <1>8, <1>9
    <2> QED
      BY <2>1 DEF LifecycleTellsReturns, TellsReturns
  <1> QED
    BY <1>5, <1>7, <1>10 DEF LifecycleInv

(* Every request keeps the lifecycle true to the returns and payments. *)
LEMMA NextKeepsLifecycleInv ==
  ASSUME NamesOwnLines, LifecycleInv, [DocNext]_docVars
  PROVE  LifecycleInv'
  <1>1. MoneyInv'
    BY NextKeepsMoneyInv DEF LifecycleInv
  <1>2. ASSUME UNCHANGED <<status, paid, retState, retPurchase, retQty>>
        PROVE  LifecycleInv'
    <2>1. ASSUME NEW p \in Purchase PROVE TellsReturns(p)'
      <3>1. ActiveOf(p)' = ActiveOf(p) /\ \A l \in LinesOf(p) : Returned(l)' = Returned(l)
        BY <1>2, ActiveKept, ReturnedUntouched, FiniteLines
      <3> QED
        BY <1>2, <3>1, TellsKept DEF LifecycleInv, LifecycleTellsReturns, TellsReturns
    <2>2. LifecycleTellsReturns'
      BY <2>1 DEF LifecycleTellsReturns, TellsReturns
    <2> QED
      BY <1>1, <1>2, <2>2 DEF LifecycleInv
  <1>3. CASE UNCHANGED docVars
    BY <1>2, <1>3 DEF docVars
  <1>4. ASSUME NEW p \in Purchase, NEW x \in Return, NEW a \in Amount, DocRepay(p, x, a)
        PROVE  LifecycleInv'
    BY <1>2, <1>4 DEF DocRepay, RepayWrites
  <1>5. ASSUME NEW l \in Line, NEW n \in 1 .. MaxAsked, DocSort(l, n) \/ DocUnsort(l, n)
        PROVE  LifecycleInv'
    BY <1>2, <1>5 DEF DocSort, SortWrites, DocUnsort, UnsortWrites
  <1> QED
    BY <1>1, <1>3, <1>4, <1>5, PostKeepsLifecycleInv, CancelKeepsLifecycleInv,
       PayKeepsLifecycleInv, ReturnKeepsLifecycleInv, CancelReturnKeepsLifecycleInv
       DEF DocNext

(* The lifecycle status says what the posted returns and the payments say,  *)
(* also after a return was cancelled (create_return,                        *)
(* _recover_parent_purchase_lifecycle).                                     *)
THEOREM PurchaseLifecycleTellsReturns ==
  ASSUME NamesOwnLines PROVE PurchaseSpec => []LifecycleTellsReturns
  <1>1. LifecycleInv /\ [DocNext]_docVars => LifecycleInv'
    BY NextKeepsLifecycleInv
  <1>2. LifecycleInv => LifecycleTellsReturns
    BY DEF LifecycleInv
  <1> QED
    BY <1>1, <1>2, InitLifecycleInv, PTL DEF PurchaseSpec

-----------------------------------------------------------------------------
(* The profit and loss *)

(* A line of a draft was neither received nor returned. *)
LEMMA DraftLines ==
  ASSUME DocInv, OwnLinesReturned, NEW l \in Line, status[PurchaseOf[l]] = "draft"
  PROVE  receipt[l] = 0 /\ Returned(l) = 0
  <1> DEFINE f == [x \in Return |-> IF retState[x] = "posted" THEN retQty[x][l] ELSE 0]
  <1>1. \A x \in Return : retState[x] = "posted" => retQty[x][l] \in Nat /\ ~(retQty[x][l] > 0)
    BY DEF DocInv, DocTypeOK, NoDraftReturned, OwnLinesReturned
  <1>2. f \in [Return -> Int] /\ \A x \in Return : f[x] = 0
    BY <1>1
  <1>3. Returned(l) = SumFunction(f)
    BY DEF Returned
  <1> HIDE DEF f
  <1>4. Returned(l) = 0
    BY <1>2, <1>3, FiniteLines, SumFunZero
  <1> QED
    BY <1>4 DEF DocInv, ReceivedOnce

(* Subtracting term by term. *)
LEMMA CostsSplit ==
  ASSUME DocTypeOK, NEW p \in Purchase, NEW h \in [Line -> Int],
         \A l \in LinesOf(p) : h[l] = Quantity[l] - Returned(l)
  PROVE  /\ CostsOf(p) \in Int
         /\ SumFunction([l \in LinesOf(p) |-> OperatingCost[l] * h[l]])
              = CostsOf(p) - SumFunction([l \in LinesOf(p) |-> OperatingCost[l] * Returned(l)])
  <1> DEFINE c == [l \in LinesOf(p) |-> OperatingCost[l] * Quantity[l]]
             r == [l \in LinesOf(p) |-> OperatingCost[l] * Returned(l)]
             g == [l \in LinesOf(p) |-> OperatingCost[l] * h[l]]
  <1>1. \A l \in LinesOf(p) :
          /\ OperatingCost[l] \in Nat /\ Quantity[l] \in Nat /\ Returned(l) \in Nat
          /\ h[l] \in Int
    BY CostAssumption, ReturnedNat, FiniteLines
  <1>2. \A i, j \in Int : i * j \in Int
    OBVIOUS
  <1>3. c \in [LinesOf(p) -> Int] /\ r \in [LinesOf(p) -> Int] /\ g \in [LinesOf(p) -> Int]
    <2>1. \A l \in LinesOf(p) :
             /\ OperatingCost[l] * Quantity[l] \in Int
             /\ OperatingCost[l] * Returned(l) \in Int
             /\ OperatingCost[l] * h[l] \in Int
      BY <1>1, <1>2
    <2> QED
      BY <2>1
  <1>4. \A l \in LinesOf(p) : c[l] = g[l] + r[l]
    <2>1. \A i, j, k \in Int : i * j = i * (j - k) + i * k
      OBVIOUS
    <2> SUFFICES ASSUME NEW l \in LinesOf(p) PROVE c[l] = g[l] + r[l]
      OBVIOUS
    <2>2. OperatingCost[l] * Quantity[l]
            = OperatingCost[l] * (Quantity[l] - Returned(l)) + OperatingCost[l] * Returned(l)
      BY <1>1, <2>1
    <2> QED
      BY <2>2
  <1>5. CostsOf(p) = SumFunction(c)
    BY DEF CostsOf, SumOver
  <1> HIDE DEF c, g, r
  <1>6. SumFunction(c) = SumFunction(g) + SumFunction(r)
    BY <1>3, <1>4, FiniteLines, SumFunPlus
  <1>7. SumFunction(c) \in Int /\ SumFunction(g) \in Int /\ SumFunction(r) \in Int
    BY <1>3, FiniteLines, SumFunInt
  <1> QED
    BY <1>5, <1>6, <1>7 DEF g, r

(* What the profit and loss charges follows from the ledger. *)
LEMMA ExpenseFollows == LedgerInv /\ OwnLinesReturned => ExpenseFollowsGoods
  <1> SUFFICES ASSUME LedgerInv, OwnLinesReturned, NEW p \in Purchase
               PROVE  PurchaseCostExpense(p) =
                        IF status[p] = "cancelled" THEN 0
                        ELSE SumOver(LinesOf(p),
                                     LAMBDA l : OperatingCost[l] * (balance[l] + sorted[l]))
    BY DEF ExpenseFollowsGoods
  <1>1. DocInv /\ DocTypeOK
    BY DEF LedgerInv, DocInv
  <1> DEFINE h == [l \in Line |-> balance[l] + sorted[l]]
  <1>2. h \in [Line -> Int]
    BY <1>1 DEF DocTypeOK
  <1>3. [l \in LinesOf(p) |-> OperatingCost[l] * (balance[l] + sorted[l])]
          = [l \in LinesOf(p) |-> OperatingCost[l] * h[l]]
    BY FiniteLines
  <1>4. \A l \in LinesOf(p) : l \in Line /\ PurchaseOf[l] = p
    BY DEF LinesOf
  <1>5. ASSUME status[p] # "cancelled", NEW l \in LinesOf(p)
        PROVE  h[l] = receipt[l] - Returned(l)
    <2>1. balance[l] = receipt[l] - Returned(l) - sorted[l]
      BY <1>4, <1>5 DEF LedgerInv, BalanceDocumented, Documented
    <2>2. receipt[l] \in Nat /\ sorted[l] \in Nat /\ Returned(l) \in Nat
      BY <1>1, <1>4, ReturnedNat DEF DocTypeOK
    <2> QED
      BY <1>4, <2>1, <2>2
  <1>6. CASE status[p] = "cancelled"
    <2>1. CostsOf(p) \in Int
      <3> DEFINE k == [l \in Line |-> Quantity[l] - Returned(l)]
      <3>1. \A l \in Line : Quantity[l] - Returned(l) \in Int
        BY <1>1, ReturnedNat
      <3>2. k \in [Line -> Int] /\ \A l \in LinesOf(p) : k[l] = Quantity[l] - Returned(l)
        BY <3>1, FiniteLines
      <3> HIDE DEF k
      <3> QED
        BY <1>1, <3>2, CostsSplit
    <2>2. \A n \in Int : n - n - 0 = 0
      OBVIOUS
    <2>3. CostsOf(p) - CostsOf(p) - 0 = 0
      BY <2>1, <2>2
    <2>4. CostsReturned(p) = 0
      BY <1>6 DEF CostsReturned
    <2>5. PurchaseCostExpense(p) = IF ~WasPosted(p) THEN 0
                                   ELSE CostsOf(p) - CostsOf(p) - CostsReturned(p)
      BY <1>6 DEF PurchaseCostExpense
    <2>6. PurchaseCostExpense(p) = 0
      BY <2>3, <2>4, <2>5
    <2> QED
      BY <1>6, <2>6
  <1>7. CASE status[p] = "draft"
    <2>1. \A l \in LinesOf(p) : receipt[l] = 0 /\ Returned(l) = 0
      BY <1>1, <1>4, <1>7, DraftLines
    <2>2. ~WasPosted(p)
      BY <2>1 DEF WasPosted
    <2>3. \A l \in LinesOf(p) : h[l] = 0
      <3> HIDE DEF h
      <3>1. status[p] # "cancelled"
        BY <1>7
      <3>2. \A l \in LinesOf(p) : h[l] = receipt[l] - Returned(l)
        BY <1>5, <3>1
      <3> QED
        BY <2>1, <3>2
    <2> DEFINE g == [l \in LinesOf(p) |-> OperatingCost[l] * h[l]]
    <2>4. \A n \in Nat : n * 0 = 0
      OBVIOUS
    <2>5. g \in [LinesOf(p) -> Int] /\ \A l \in LinesOf(p) : g[l] = 0
      <3>1. \A l \in LinesOf(p) : OperatingCost[l] \in Nat
        BY CostAssumption, FiniteLines
      <3> HIDE DEF h
      <3> QED
        BY <2>3, <2>4, <3>1
    <2>6. SumFunction([l \in LinesOf(p) |-> OperatingCost[l] * (balance[l] + sorted[l])])
            = SumFunction(g)
      BY <1>3
    <2> HIDE DEF g, h
    <2>7. SumFunction(g) = 0
      BY <2>5, FiniteLines, SumFunZero
    <2> QED
      BY <1>7, <2>2, <2>6, <2>7 DEF PurchaseCostExpense, SumOver
  <1>8. CASE status[p] \notin {"draft", "cancelled"}
    <2>1. status[p] \in Status \ {"draft", "cancelled"}
      BY <1>1, <1>8 DEF DocTypeOK
    <2>2. \A l \in LinesOf(p) : receipt[l] = Quantity[l]
      BY <1>1, <1>4, <2>1 DEF DocInv, ReceivedOnce
    <2>3. \A l \in LinesOf(p) : h[l] = Quantity[l] - Returned(l)
      BY <1>5, <1>8, <2>2
    <2> HIDE DEF h
    <2>4. /\ CostsOf(p) \in Int
          /\ SumFunction([l \in LinesOf(p) |-> OperatingCost[l] * h[l]])
               = CostsOf(p) - SumFunction([l \in LinesOf(p) |-> OperatingCost[l] * Returned(l)])
      BY <1>1, <1>2, <2>3, CostsSplit
    <2>5. SumOver(LinesOf(p), LAMBDA l : OperatingCost[l] * (balance[l] + sorted[l]))
            = CostsOf(p) - CostsReturned(p)
      BY <1>3, <1>8, <2>4 DEF SumOver, CostsReturned
    <2>6. CASE WasPosted(p)
      <3>1. CostsOf(p) - 0 = CostsOf(p)
        BY <2>4
      <3>2. PurchaseCostExpense(p) = CostsOf(p) - 0 - CostsReturned(p)
        BY <1>8, <2>6 DEF PurchaseCostExpense
      <3> QED
        BY <1>8, <2>5, <3>1, <3>2
    <2>7. CASE ~WasPosted(p)
      <3>1. LinesOf(p) = {}
        BY <2>2, <2>7, FiniteLines DEF WasPosted
      <3> DEFINE g == [l \in LinesOf(p) |-> OperatingCost[l] * (balance[l] + sorted[l])]
      <3>2. g \in [LinesOf(p) -> Int] /\ \A l \in LinesOf(p) : g[l] = 0
        BY <3>1
      <3>3. SumOver(LinesOf(p), LAMBDA l : OperatingCost[l] * (balance[l] + sorted[l]))
              = SumFunction(g)
        BY DEF SumOver
      <3> HIDE DEF g
      <3>4. SumFunction(g) = 0
        BY <3>2, FiniteLines, SumFunZero
      <3> QED
        BY <1>8, <2>7, <3>3, <3>4 DEF PurchaseCostExpense
    <2> QED
      BY <2>6, <2>7
  <1> QED
    BY <1>6, <1>7, <1>8

-----------------------------------------------------------------------------
(* Interleaved requests, provided a return names lines of its own purchase  *)
(* only.  The inductive invariant says that a purchase, a return or a batch *)
(* is locked by one transaction at a time and that what an open transaction *)
(* decided on still holds.                                                  *)

Holds(r, p) == txn[r].op \in LocksPurchase /\ txn[r].purchase = p
HoldsReturn(r, x) == txn[r].op \in {"return", "cancelReturn"} /\ txn[r].ret = x

LocksExclusive ==
    \A r, o \in Request : r # o =>
        /\ \A p \in Purchase : ~(Holds(r, p) /\ Holds(o, p))
        /\ \A x \in Return : ~(HoldsReturn(r, x) /\ HoldsReturn(o, x))
        /\ BatchesOf(txn[r]) \cap BatchesOf(txn[o]) = {}

RequestInv ==
    /\ TypeOK
    /\ DocInv
    /\ OwnLinesReturned
    /\ LocksExclusive
    /\ DecisionsStayValid

(* A transaction's record has the fields of its operation. *)
LEMMA TxnFields ==
  ASSUME TypeOK, NEW r \in Request
  PROVE  /\ txn[r].op \in LocksPurchase \cup {"idle", "cancelReturn", "sort", "unsort"}
         /\ txn[r].op \in LocksPurchase => txn[r].purchase \in Purchase
         /\ txn[r].op \in {"pay", "repay"} => txn[r].amount \in Amount
         /\ txn[r].op \in {"return", "repay", "cancelReturn"} => txn[r].ret \in Return
         /\ txn[r].op = "return" => txn[r].qty \in Asked
         /\ txn[r].op \in {"sort", "unsort"} =>
               txn[r].line \in Unsorted /\ txn[r].qty \in 1 .. MaxAsked
  <1>1. txn[r] \in Txn
    BY DEF TypeOK
  <1> QED
    BY <1>1 DEF Txn, Idle, LocksPurchase

(* Ending a transaction frees its rows. *)
LEMMA FinishKeepsLocks ==
  ASSUME TypeOK, LocksExclusive, NEW r \in Request, Finish(r)
  PROVE  /\ txn' \in [Request -> Txn]
         /\ LocksExclusive'
  <1>1. txn' \in [Request -> Txn] /\ txn'[r].op = "idle"
    BY DEF TypeOK, Finish, Txn, Idle
  <1>2. \A o \in Request : o # r => txn'[o] = txn[o]
    BY DEF TypeOK, Finish
  <1>3. BatchesOf(txn'[r]) = {}
    BY <1>1 DEF BatchesOf
  <1>4. /\ \A p \in Purchase : ~Holds(r, p)'
        /\ \A x \in Return : ~HoldsReturn(r, x)'
    BY <1>1 DEF Holds, HoldsReturn, LocksPurchase
  <1>5. \A o \in Request : o # r =>
           /\ \A p \in Purchase : Holds(o, p)' = Holds(o, p)
           /\ \A x \in Return : HoldsReturn(o, x)' = HoldsReturn(o, x)
           /\ BatchesOf(txn'[o]) = BatchesOf(txn[o])
    BY <1>2 DEF Holds, HoldsReturn
  <1>6. LocksExclusive'
    BY <1>3, <1>4, <1>5 DEF LocksExclusive
  <1> QED
    BY <1>1, <1>6

(* What a transaction that holds a purchase reads of it, and of a batch. *)
PurchaseKept(p) ==
    /\ status'[p] = status[p]
    /\ paid'[p] = paid[p]
    /\ ReturnedValue(p)' = ReturnedValue(p)
    /\ Receivable(p)' = Receivable(p)
    /\ \A x \in Return : retPurchase[x] = p =>
          retPurchase'[x] = p /\ owed'[x] = owed[x] /\ received'[x] = received[x]
    /\ \A l \in LinesOf(p) : receipt'[l] = receipt[l] /\ Returned(l)' = Returned(l)

BatchKept(l) ==
    /\ balance'[l] = balance[l]
    /\ (l \in sortedOnce)' = (l \in sortedOnce)

(* The decision of a transaction that holds a purchase survives what leaves *)
(* that purchase and the batches it holds alone.                            *)
LEMMA OtherPurchaseKept ==
  ASSUME NEW o \in Request, TypeOK, NamesOwnLines, InFlight(o), txn'[o] = txn[o],
         txn[o].op \in LocksPurchase,
         PurchaseKept(txn[o].purchase),
         \A l \in BatchesOf(txn[o]) : BatchKept(l),
         txn[o].op = "return" => retState'[txn[o].ret] = retState[txn[o].ret]
  PROVE  InFlight(o)'
  <1> DEFINE p == txn[o].purchase
  <1> USE DEF PurchaseKept
  <1>1. p \in Purchase /\ txn[o].op \notin {"cancelReturn", "sort", "unsort"}
    BY TxnFields DEF LocksPurchase
  <1>2. (txn[o].op = "post" => CanPost(p))'
    BY DEF InFlight, CanPost
  <1>3. (txn[o].op = "pay" => CanPay(p, txn[o].amount))'
    BY DEF InFlight, CanPay, Settles
  <1>4. (txn[o].op = "cancel" => CanCancel(p))'
    BY <1>1 DEF InFlight, CanCancel, Untouched, BatchesOf, BatchKept
  <1>5. (txn[o].op = "return" => CanReturn(p, txn[o].ret, txn[o].qty))'
    <2> SUFFICES ASSUME txn[o].op = "return"
                 PROVE  CanReturn(p, txn[o].ret, txn[o].qty)'
      OBVIOUS
    <2> DEFINE q == txn[o].qty
    <2>1. CanReturn(p, txn[o].ret, q)
      BY DEF InFlight
    <2>2. \A l \in Line : q[l] > 0 => l \in LinesOf(p)
      BY <1>1, <2>1 DEF CanReturn, NamesOwnLines
    <2>3. \A l \in Line : l \in Unsorted /\ q[l] > 0 => balance'[l] = balance[l]
      BY DEF BatchesOf, BatchKept
    <2>4. \A l \in LinesOf(p) : l \in Line
      BY DEF LinesOf
    <2>5. FullyReturned(p, q)' = FullyReturned(p, q)
      BY <2>4 DEF FullyReturned
    <2>6. AfterReturn(p, q)' = AfterReturn(p, q)
      BY <2>5 DEF AfterReturn
    <2> QED
      BY <2>1, <2>2, <2>3, <2>6 DEF CanReturn
  <1>6. (txn[o].op = "repay" => CanRepay(p, txn[o].ret, txn[o].amount))'
    BY <1>1, TxnFields DEF InFlight, CanRepay, IsObligation
  <1> QED
    BY <1>1, <1>2, <1>3, <1>4, <1>5, <1>6 DEF InFlight

(* A decision on rows that did not change still holds. *)
LEMMA UnchangedKept ==
  ASSUME NEW o \in Request, TypeOK, NamesOwnLines, InFlight(o), txn'[o] = txn[o],
         UNCHANGED docVars
  PROVE  InFlight(o)'
  <1>1. CASE txn[o].op \in LocksPurchase
    <2>1. txn[o].purchase \in Purchase /\ \A l \in BatchesOf(txn[o]) : BatchKept(l)
      BY <1>1, TxnFields DEF BatchKept, docVars
    <2>2. \A l \in LinesOf(txn[o].purchase) : Returned(l)' = Returned(l)
      BY ReturnedKept DEF docVars, LinesOf
    <2>3. PurchaseKept(txn[o].purchase)
      BY <2>1, <2>2, ReturnedValueKept, ReceivableKept DEF PurchaseKept, docVars
    <2>4. txn[o].op = "return" => retState'[txn[o].ret] = retState[txn[o].ret]
      BY DEF docVars
    <2> QED
      BY <1>1, <2>1, <2>3, <2>4, OtherPurchaseKept
  <1>2. CASE txn[o].op \in {"cancelReturn", "sort", "unsort", "idle"}
    BY <1>2 DEF InFlight, CanCancelReturn, VoidAccepted, CanSort, CanUnsort, docVars
  <1> QED
    BY <1>1, <1>2, TxnFields

(* Opening a transaction on free rows, with a decision that holds. *)
LEMMA StartKeepsRequestInv ==
  ASSUME NEW r \in Request, NEW t \in Txn, RequestInv, NamesOwnLines, Start(r, t),
         t.op \in LocksPurchase => PurchaseIsFree(t.purchase),
         t.op \in {"return", "cancelReturn"} => ReturnIsFree(t.ret),
         InFlight(r)'
  PROVE  RequestInv' /\ UNCHANGED docVars
  <1>1. /\ txn' \in [Request -> Txn]
        /\ txn'[r] = t
        /\ \A o \in Request : o # r => txn'[o] = txn[o]
        /\ UNCHANGED docVars
        /\ UNCHANGED cash
        /\ txn[r].op = "idle"
    BY DEF RequestInv, TypeOK, Start, Idle
  <1>2. DocInv' /\ TypeOK' /\ OwnLinesReturned'
    <2>1. DocInv /\ [DocNext]_docVars
      BY <1>1 DEF RequestInv
    <2>2. DocInv'
      BY <2>1, NextKeepsDocInv
    <2> QED
      BY <1>1, <2>2 DEF RequestInv, TypeOK, DocInv, OwnLinesReturned, docVars
  <1>3. LocksExclusive'
    <2>1. \A o \in Request, p \in Purchase : o # r => ~(Holds(o, p)' /\ Holds(r, p)')
      BY <1>1 DEF Holds, PurchaseIsFree
    <2>2. \A o \in Request, x \in Return : o # r => ~(HoldsReturn(o, x)' /\ HoldsReturn(r, x)')
      BY <1>1 DEF HoldsReturn, ReturnIsFree
    <2>3. \A o \in Request, p \in Purchase : o # r => Holds(o, p)' = Holds(o, p)
      BY <1>1 DEF Holds
    <2>4. \A o \in Request, x \in Return : o # r => HoldsReturn(o, x)' = HoldsReturn(o, x)
      BY <1>1 DEF HoldsReturn
    <2>5. \A o \in Request : o # r => BatchesOf(txn'[o]) \cap BatchesOf(txn'[r]) = {}
      BY <1>1 DEF Start, BatchesAreFree
    <2>6. \A o \in Request : o # r => BatchesOf(txn'[o]) = BatchesOf(txn[o])
      BY <1>1
    <2> QED
      BY <2>1, <2>2, <2>3, <2>4, <2>5, <2>6 DEF RequestInv, LocksExclusive
  <1>4. ASSUME NEW o \in Request, o # r PROVE InFlight(o)'
    BY <1>1, <1>4, UnchangedKept DEF RequestInv, DecisionsStayValid
  <1>5. DecisionsStayValid'
    BY <1>4 DEF DecisionsStayValid
  <1> QED
    BY <1>1, <1>2, <1>3, <1>5 DEF RequestInv

(* Every Begin action opens a transaction in that way. *)
LEMMA BeginKeepsRequestInv ==
  ASSUME NEW r \in Request, RequestInv, NamesOwnLines, Begin(r)
  PROVE  RequestInv' /\ UNCHANGED docVars
  <1> USE DEF LocksPurchase
  <1>0. ASSUME NEW t, Start(r, t) PROVE txn'[r] = t /\ UNCHANGED docVars
    BY <1>0 DEF Start, RequestInv, TypeOK
  <1>1. ASSUME NEW p \in Purchase, BeginPost(r, p) PROVE RequestInv' /\ UNCHANGED docVars
    <2> DEFINE t == [op |-> "post", purchase |-> p]
    <2>1. Start(r, t) /\ PurchaseIsFree(p) /\ CanPost(p) /\ t \in Txn
      BY <1>1 DEF BeginPost, Txn, Method
    <2>2. InFlight(r)'
      BY <1>0, <2>1 DEF InFlight, CanPost, docVars
    <2> QED
      BY <2>1, <2>2, StartKeepsRequestInv
  <1>2. ASSUME NEW p \in Purchase, BeginCancel(r, p) PROVE RequestInv' /\ UNCHANGED docVars
    <2> DEFINE t == [op |-> "cancel", purchase |-> p]
    <2>1. Start(r, t) /\ PurchaseIsFree(p) /\ CanCancel(p) /\ t \in Txn
      BY <1>2 DEF BeginCancel, Txn, Method
    <2>2. InFlight(r)'
      BY <1>0, <2>1 DEF InFlight, CanCancel, Untouched, docVars
    <2> QED
      BY <2>1, <2>2, StartKeepsRequestInv
  <1>3. ASSUME NEW p \in Purchase, NEW a \in Amount, NEW m \in Method, BeginPay(r, p, a, m) PROVE RequestInv' /\ UNCHANGED docVars
    <2> DEFINE t == [op |-> "pay", purchase |-> p, amount |-> a, method |-> m]
    <2>1. Start(r, t) /\ PurchaseIsFree(p) /\ CanPay(p, a) /\ t \in Txn
      BY <1>3 DEF BeginPay, Txn, Method
    <2>2. InFlight(r)'
      BY <1>0, <2>1 DEF InFlight, CanPay, Settles, ReturnedValue, ActiveReturn, docVars
    <2> QED
      BY <2>1, <2>2, StartKeepsRequestInv
  <1>4. ASSUME NEW p \in Purchase, NEW x \in Return, NEW q \in Asked, BeginReturn(r, p, x, q) PROVE RequestInv' /\ UNCHANGED docVars
    <2> DEFINE t == [op |-> "return", purchase |-> p, ret |-> x, qty |-> q]
    <2>1. Start(r, t) /\ PurchaseIsFree(p) /\ ReturnIsFree(x) /\ CanReturn(p, x, q) /\ t \in Txn
      BY <1>4 DEF BeginReturn, Txn, Method
    <2>2. InFlight(r)'
      <3>1. txn'[r] = t /\ UNCHANGED docVars
        BY <1>0, <2>1
      <3>2. CanReturn(p, x, q)'
        BY <2>1, <3>1 DEF CanReturn, AfterReturn, FullyReturned, Returned, docVars
      <3> QED
        BY <3>1, <3>2 DEF InFlight
    <2> QED
      BY <2>1, <2>2, StartKeepsRequestInv
  <1>5. ASSUME NEW p \in Purchase, NEW x \in Return, NEW a \in Amount, NEW m \in Method, BeginRepay(r, p, x, a, m) PROVE RequestInv' /\ UNCHANGED docVars
    <2> DEFINE t == [op |-> "repay", purchase |-> p, ret |-> x,
                  amount |-> a, method |-> m]
    <2>1. Start(r, t) /\ PurchaseIsFree(p) /\ CanRepay(p, x, a) /\ t \in Txn
      BY <1>5 DEF BeginRepay, Txn, Method
    <2>2. InFlight(r)'
      BY <1>0, <2>1 DEF InFlight, CanRepay, Receivable, IsObligation, docVars
    <2> QED
      BY <2>1, <2>2, StartKeepsRequestInv
  <1>6. ASSUME NEW x \in Return, BeginCancelReturn(r, x) PROVE RequestInv' /\ UNCHANGED docVars
    <2> DEFINE t == [op |-> "cancelReturn", ret |-> x]
    <2>1. Start(r, t) /\ ReturnIsFree(x) /\ CanCancelReturn(x) /\ t \in Txn
      BY <1>6 DEF BeginCancelReturn, Txn, Method
    <2>2. InFlight(r)'
      BY <1>0, <2>1 DEF InFlight, CanCancelReturn, VoidAccepted, docVars
    <2> QED
      BY <2>1, <2>2, StartKeepsRequestInv
  <1>7. ASSUME NEW l \in Unsorted, NEW n \in 1 .. MaxAsked, BeginSort(r, l, n) PROVE RequestInv' /\ UNCHANGED docVars
    <2> DEFINE t == [op |-> "sort", line |-> l, qty |-> n]
    <2>1. Start(r, t) /\ CanSort(l, n) /\ t \in Txn
      BY <1>7 DEF BeginSort, Txn, Method
    <2>2. InFlight(r)'
      BY <1>0, <2>1 DEF InFlight, CanSort, docVars
    <2> QED
      BY <2>1, <2>2, StartKeepsRequestInv
  <1>8. ASSUME NEW l \in Unsorted, NEW n \in 1 .. MaxAsked, BeginUnsort(r, l, n) PROVE RequestInv' /\ UNCHANGED docVars
    <2> DEFINE t == [op |-> "unsort", line |-> l, qty |-> n]
    <2>1. Start(r, t) /\ CanUnsort(l, n) /\ t \in Txn
      BY <1>8 DEF BeginUnsort, Txn, Method
    <2>2. InFlight(r)'
      BY <1>0, <2>1 DEF InFlight, CanUnsort, docVars
    <2> QED
      BY <2>1, <2>2, StartKeepsRequestInv
  <1> QED
    BY <1>1, <1>2, <1>3, <1>4, <1>5, <1>6, <1>7, <1>8 DEF Begin

(* What is left to show of a transaction that ends. *)
LEMMA FinishKeepsRequestInv ==
  ASSUME NEW r \in Request, RequestInv, Finish(r), DocInv', cash' \in Int,
         OwnLinesReturned',
         \A o \in Request \ {r} : InFlight(o)'
  PROVE  RequestInv'
  <1>1. LocksExclusive' /\ TypeOK'
    BY FinishKeepsLocks DEF RequestInv, TypeOK, DocInv
  <1>2. InFlight(r)'
    BY DEF RequestInv, TypeOK, Finish, Idle, InFlight
  <1>3. DecisionsStayValid'
    BY <1>2 DEF DecisionsStayValid
  <1> QED
    BY <1>1, <1>3 DEF RequestInv

(* The batches a transaction on a purchase locks are batches of its lines. *)
LEMMA OwnBatches ==
  ASSUME NEW o \in Request, TypeOK, NamesOwnLines, InFlight(o), txn[o].op \in LocksPurchase
  PROVE  \A l \in BatchesOf(txn[o]) : l \in Unsorted /\ PurchaseOf[l] = txn[o].purchase
  <1>1. txn[o].purchase \in Purchase /\ txn[o].op \notin {"sort", "unsort"}
    BY TxnFields DEF LocksPurchase
  <1>2. CASE txn[o].op = "return"
    <2>1. CanReturn(txn[o].purchase, txn[o].ret, txn[o].qty)
      BY <1>2 DEF InFlight
    <2>2. \A l \in Line : txn[o].qty[l] > 0 => PurchaseOf[l] = txn[o].purchase
      BY <1>1, <2>1 DEF CanReturn, NamesOwnLines, LinesOf
    <2> QED
      BY <1>2, <2>2, UnsortedAssumption DEF BatchesOf
  <1>3. CASE txn[o].op # "return"
    BY <1>1, <1>3 DEF BatchesOf, LinesOf
  <1> QED
    BY <1>2, <1>3

(* A commit that writes to the purchases in "touched" only, takes nothing   *)
(* from a batch it does not hold and leaves the returns it does not hold    *)
(* alone, keeps the decisions of the other open transactions true.          *)
LEMMA CommitKeepsOthers ==
  ASSUME NEW r \in Request, NEW touched, RequestInv, NamesOwnLines, Finish(r), DocInv',
         \A o \in Request \ {r} :
            txn[o].op \in LocksPurchase => txn[o].purchase \notin touched,
         \A p \in Purchase \ touched : PurchaseKept(p),
         \A l \in Unsorted : l \notin BatchesOf(txn[r]) =>
            /\ PurchaseOf[l] \notin touched => BatchKept(l)
            /\ balance'[l] >= balance[l]
            /\ sorted'[l] = sorted[l],
         \A x \in Return : ~HoldsReturn(r, x) =>
            /\ retState'[x] = retState[x]
            /\ owed[x] = 0 /\ received[x] = 0 => owed'[x] = 0 /\ received'[x] = 0
  PROVE  \A o \in Request \ {r} : InFlight(o)'
  <1> SUFFICES ASSUME NEW o \in Request, o # r PROVE InFlight(o)'
    OBVIOUS
  <1>1. TypeOK /\ InFlight(o) /\ txn'[o] = txn[o]
    BY DEF RequestInv, DecisionsStayValid, TypeOK, Finish
  <1>2. \A x \in Return : HoldsReturn(o, x) => ~HoldsReturn(r, x)
    BY DEF RequestInv, LocksExclusive
  <1>3. \A l \in BatchesOf(txn[o]) : l \notin BatchesOf(txn[r])
    BY DEF RequestInv, LocksExclusive
  <1>4. CASE txn[o].op \in LocksPurchase
    <2>1. txn[o].purchase \in Purchase \ touched
      BY <1>1, <1>4, TxnFields
    <2>2. \A l \in BatchesOf(txn[o]) : BatchKept(l)
      BY <1>1, <1>3, <1>4, <2>1, OwnBatches
    <2>3. txn[o].op = "return" => retState'[txn[o].ret] = retState[txn[o].ret]
      BY <1>1, <1>2, TxnFields DEF HoldsReturn
    <2> QED
      BY <1>1, <1>4, <2>1, <2>2, <2>3, OtherPurchaseKept
  <1>5. CASE txn[o].op = "cancelReturn"
    <2>1. txn[o].ret \in Return /\ ~HoldsReturn(r, txn[o].ret)
      BY <1>1, <1>2, <1>5, TxnFields DEF HoldsReturn
    <2> QED
      BY <1>1, <1>5, <2>1 DEF InFlight, CanCancelReturn, VoidAccepted
  <1>6. CASE txn[o].op \in {"sort", "unsort"}
    <2>1. txn[o].line \in Unsorted /\ txn[o].qty \in 1 .. MaxAsked
      BY <1>1, <1>6, TxnFields
    <2>2. txn[o].line \notin BatchesOf(txn[r])
      BY <1>3, <1>6 DEF BatchesOf
    <2>3. /\ balance[txn[o].line] \in Int
          /\ balance'[txn[o].line] \in Int
          /\ balance'[txn[o].line] >= balance[txn[o].line]
          /\ sorted'[txn[o].line] = sorted[txn[o].line]
      BY <1>1, <2>1, <2>2, UnsortedAssumption DEF TypeOK, DocInv, DocTypeOK
    <2>4. CASE txn[o].op = "unsort"
      BY <1>1, <2>3, <2>4 DEF InFlight, CanUnsort
    <2>5. CASE txn[o].op = "sort"
      BY <1>1, <2>1, <2>3, <2>5, MaxAskedAssumption DEF InFlight, CanSort
    <2> QED
      BY <1>6, <2>4, <2>5
  <1>7. CASE txn[o].op = "idle"
    BY <1>1, <1>7 DEF InFlight
  <1> QED
    BY <1>1, <1>4, <1>5, <1>6, <1>7, TxnFields

(* A purchase is kept by what leaves its row, its receipts and all returns. *)
LEMMA ReturnsUnchangedKept ==
  ASSUME NEW p \in Purchase,
         status'[p] = status[p], paid'[p] = paid[p],
         UNCHANGED <<retState, retPurchase, retQty, owed, received>>,
         \A l \in LinesOf(p) : receipt'[l] = receipt[l]
  PROVE  PurchaseKept(p)
  <1>1. \A l \in LinesOf(p) : Returned(l)' = Returned(l)
    BY ReturnedKept DEF LinesOf
  <1>2. ReturnedValue(p)' = ReturnedValue(p) /\ Receivable(p)' = Receivable(p)
    BY ReturnedValueKept, ReceivableKept
  <1> QED
    BY <1>1, <1>2 DEF PurchaseKept

(* Each commit is a step of the sequential document that leaves the         *)
(* decisions of the other open transactions true.                           *)
LEMMA CommitPostRefines ==
  ASSUME NEW r \in Request, RequestInv, NamesOwnLines, CommitPost(r)
  PROVE  DocNext /\ RequestInv'
  <1> DEFINE p == txn[r].purchase
  <1>1. p \in Purchase /\ txn[r].op \in LocksPurchase /\ Finish(r)
    BY TxnFields DEF CommitPost, RequestInv, LocksPurchase
  <1>2. cash' \in Int
    BY <1>1, FreightAssumption DEF CommitPost, RequestInv, TypeOK
  <1>3. DocPost(p)
    BY DEF CommitPost, DocPost, RequestInv, DecisionsStayValid, InFlight
  <1>4. DocInv' /\ DocNext
    BY <1>1, <1>3, PostKeepsDocInv DEF RequestInv, DocNext
  <1> USE DEF DocPost, PostWrites
  <1>5. \A o \in Request \ {r} : InFlight(o)'
    <2>1. \A t \in Purchase \ {p} : PurchaseKept(t)
      BY <1>3, ReturnsUnchangedKept DEF LinesOf, RequestInv, DocInv, DocTypeOK
    <2>2. \A l \in Unsorted :
            /\ PurchaseOf[l] \notin {p} => BatchKept(l)
            /\ balance'[l] >= balance[l]
            /\ sorted'[l] = sorted[l]
      <3> SUFFICES ASSUME NEW l \in Unsorted
                   PROVE  /\ PurchaseOf[l] \notin {p} => BatchKept(l)
                          /\ balance'[l] >= balance[l]
                          /\ sorted'[l] = sorted[l]
        OBVIOUS
      <3>1. l \in Line /\ balance[l] \in Int /\ Quantity[l] \in Nat
        BY UnsortedAssumption, QuantityAssumption DEF RequestInv, DocInv, DocTypeOK
      <3> QED
        BY <1>3, <3>1 DEF BatchKept, LinesOf
    <2>3. \A o \in Request \ {r} : txn[o].op \in LocksPurchase => txn[o].purchase \notin {p}
      BY <1>1 DEF RequestInv, LocksExclusive, Holds
    <2>4. \A x \in Return : UNCHANGED <<retState[x], owed[x], received[x]>>
      BY <1>3
    <2> HIDE DEF p, DocPost, PostWrites
    <2> QED
      BY <1>1, <1>4, <2>1, <2>2, <2>3, <2>4, CommitKeepsOthers
  <1>6. OwnLinesReturned'
    BY <1>3 DEF RequestInv, OwnLinesReturned
  <1> QED
    BY <1>1, <1>2, <1>4, <1>5, <1>6, FinishKeepsRequestInv

LEMMA CommitPayRefines ==
  ASSUME NEW r \in Request, RequestInv, NamesOwnLines, CommitPay(r)
  PROVE  DocNext /\ RequestInv'
  <1> DEFINE p == txn[r].purchase
             a == txn[r].amount
  <1>1. p \in Purchase /\ a \in Amount /\ txn[r].op \in LocksPurchase /\ Finish(r)
    BY TxnFields DEF CommitPay, RequestInv, LocksPurchase
  <1>2. cash' \in Int
    BY <1>1 DEF CommitPay, CashEffect, RequestInv, TypeOK
  <1>3. DocPay(p, a)
    BY DEF CommitPay, DocPay, RequestInv, DecisionsStayValid, InFlight
  <1>4. DocInv' /\ DocNext
    BY <1>1, <1>3, PayKeepsDocInv DEF RequestInv, DocNext
  <1> USE DEF DocPay, PayWrites
  <1>5. \A o \in Request \ {r} : InFlight(o)'
    <2>1. \A t \in Purchase \ {p} : PurchaseKept(t)
      BY <1>3, ReturnsUnchangedKept DEF RequestInv, DocInv, DocTypeOK
    <2>2. \A l \in Unsorted :
            BatchKept(l) /\ balance'[l] >= balance[l] /\ sorted'[l] = sorted[l]
      <3>1. \A l \in Unsorted : balance[l] \in Int
        BY UnsortedAssumption DEF RequestInv, DocInv, DocTypeOK
      <3> QED
        BY <1>3, <3>1 DEF BatchKept
    <2>3. \A o \in Request \ {r} : txn[o].op \in LocksPurchase => txn[o].purchase \notin {p}
      BY <1>1 DEF RequestInv, LocksExclusive, Holds
    <2>4. \A x \in Return : UNCHANGED <<retState[x], owed[x], received[x]>>
      BY <1>3
    <2> HIDE DEF p, DocPay, PayWrites
    <2> QED
      BY <1>1, <1>4, <2>1, <2>2, <2>3, <2>4, CommitKeepsOthers
  <1>6. OwnLinesReturned'
    BY <1>3 DEF RequestInv, OwnLinesReturned
  <1> QED
    BY <1>1, <1>2, <1>4, <1>5, <1>6, FinishKeepsRequestInv

LEMMA CommitCancelRefines ==
  ASSUME NEW r \in Request, RequestInv, NamesOwnLines, CommitCancel(r)
  PROVE  DocNext /\ RequestInv'
  <1> DEFINE p == txn[r].purchase
  <1>1. p \in Purchase /\ txn[r].op = "cancel" /\ txn[r].op \in LocksPurchase /\ Finish(r)
    BY TxnFields DEF CommitCancel, RequestInv, LocksPurchase
  <1>2. cash' \in Int
    BY DEF CommitCancel, RequestInv, TypeOK
  <1>3. DocCancel(p)
    BY DEF CommitCancel, DocCancel, RequestInv, DecisionsStayValid, InFlight
  <1>4. DocInv' /\ DocNext
    BY <1>1, <1>3, CancelKeepsDocInv DEF RequestInv, DocNext
  <1> USE DEF DocCancel, CancelWrites
  <1>5. \A o \in Request \ {r} : InFlight(o)'
    <2>1. \A t \in Purchase \ {p} : PurchaseKept(t)
      BY <1>3, ReturnsUnchangedKept DEF RequestInv, DocInv, DocTypeOK
    <2>2. \A l \in Unsorted : l \notin BatchesOf(txn[r]) =>
            /\ BatchKept(l)
            /\ balance'[l] >= balance[l]
            /\ sorted'[l] = sorted[l]
      <3> SUFFICES ASSUME NEW l \in Unsorted, l \notin BatchesOf(txn[r])
                   PROVE  BatchKept(l) /\ balance'[l] >= balance[l] /\ sorted'[l] = sorted[l]
        OBVIOUS
      <3>1. l \in Line /\ l \notin LinesOf(p) /\ balance[l] \in Int
        BY <1>1, UnsortedAssumption DEF BatchesOf, RequestInv, DocInv, DocTypeOK
      <3> QED
        BY <1>3, <3>1 DEF BatchKept
    <2>3. \A o \in Request \ {r} : txn[o].op \in LocksPurchase => txn[o].purchase \notin {p}
      BY <1>1 DEF RequestInv, LocksExclusive, Holds
    <2>4. \A x \in Return : UNCHANGED <<retState[x], owed[x], received[x]>>
      BY <1>3
    <2> HIDE DEF p, DocCancel, CancelWrites
    <2> QED
      BY <1>1, <1>4, <2>1, <2>2, <2>3, <2>4, CommitKeepsOthers
  <1>6. OwnLinesReturned'
    BY <1>3 DEF RequestInv, OwnLinesReturned
  <1> QED
    BY <1>1, <1>2, <1>4, <1>5, <1>6, FinishKeepsRequestInv

LEMMA CommitSortRefines ==
  ASSUME NEW r \in Request, RequestInv, NamesOwnLines, CommitSort(r) \/ CommitUnsort(r)
  PROVE  DocNext /\ RequestInv'
  <1> DEFINE l == txn[r].line
             n == txn[r].qty
  <1>0. txn[r].op \in {"sort", "unsort"} /\ TypeOK
    BY DEF CommitSort, CommitUnsort, RequestInv
  <1>1. /\ l \in Line /\ n \in 1 .. MaxAsked /\ Finish(r) /\ cash' \in Int
        /\ BatchesOf(txn[r]) = {l}
    BY <1>0, TxnFields, UnsortedAssumption DEF CommitSort, CommitUnsort, TypeOK, BatchesOf
  <1>2. DocSort(l, n) \/ DocUnsort(l, n)
    BY DEF CommitSort, CommitUnsort, DocSort, DocUnsort, RequestInv,
           DecisionsStayValid, InFlight
  <1>3. DocInv' /\ DocNext
    BY <1>1, <1>2, SortKeepsDocInv, UnsortKeepsDocInv DEF RequestInv, DocNext
  <1>4. /\ UNCHANGED <<status, paid, retState, retPurchase, retQty, owed, received, receipt>>
        /\ \A k \in Line : k # l => BatchKept(k) /\ sorted'[k] = sorted[k]
    BY <1>1, <1>2 DEF DocSort, DocUnsort, SortWrites, UnsortWrites, BatchKept,
                      RequestInv, DocInv, DocTypeOK
  <1>5. \A o \in Request \ {r} : InFlight(o)'
    <2> DEFINE none == {}
    <2>1. \A t \in Purchase \ none : PurchaseKept(t)
      BY <1>4, ReturnsUnchangedKept
    <2>2. \A k \in Unsorted : k \notin BatchesOf(txn[r]) =>
            BatchKept(k) /\ balance'[k] >= balance[k] /\ sorted'[k] = sorted[k]
      <3>1. \A k \in Unsorted : k \in Line /\ balance[k] \in Int
        BY UnsortedAssumption DEF RequestInv, DocInv, DocTypeOK
      <3> QED
        BY <1>1, <1>4, <3>1 DEF BatchKept
    <2>3. \A x \in Return : UNCHANGED <<retState[x], owed[x], received[x]>>
      BY <1>4
    <2>4. /\ \A o \in Request \ {r} : txn[o].op \in LocksPurchase => txn[o].purchase \notin none
          /\ Finish(r) /\ DocInv'
      BY <1>1, <1>3
    <2> HIDE DEF l, none
    <2> QED
      BY <2>1, <2>2, <2>3, <2>4, CommitKeepsOthers
  <1>6. OwnLinesReturned'
    BY <1>4 DEF RequestInv, OwnLinesReturned
  <1> QED
    BY <1>1, <1>3, <1>5, <1>6, FinishKeepsRequestInv

LEMMA CommitRepayRefines ==
  ASSUME NEW r \in Request, RequestInv, NamesOwnLines, CommitRepay(r)
  PROVE  DocNext /\ RequestInv'
  <1> DEFINE p == txn[r].purchase
             x == txn[r].ret
             a == txn[r].amount
  <1>1. /\ p \in Purchase /\ x \in Return /\ a \in Amount
        /\ txn[r].op \in LocksPurchase /\ Finish(r)
    BY TxnFields DEF CommitRepay, RequestInv, LocksPurchase
  <1>2. cash' \in Int
    BY <1>1 DEF CommitRepay, CashEffect, RequestInv, TypeOK
  <1>3. DocRepay(p, x, a)
    BY DEF CommitRepay, DocRepay, RequestInv, DecisionsStayValid, InFlight
  <1>4. DocInv' /\ DocNext
    BY <1>1, <1>3, RepayKeepsDocInv DEF RequestInv, DocNext
  <1>5. /\ UNCHANGED <<status, paid, retState, retPurchase, retQty, owed,
                       receipt, balance, sorted, sortedOnce>>
        /\ \A y \in Return : y # x => received'[y] = received[y]
        /\ retPurchase[x] = p /\ owed[x] > 0
    BY <1>3 DEF DocRepay, CanRepay, IsObligation, RepayWrites, RequestInv, DocInv, DocTypeOK
  <1>6. \A o \in Request \ {r} : InFlight(o)'
    <2>1. \A t \in Purchase \ {p} : PurchaseKept(t)
      <3> SUFFICES ASSUME NEW t \in Purchase, t # p PROVE PurchaseKept(t)
        OBVIOUS
      <3>1. ReturnedValue(t)' = ReturnedValue(t)
        BY <1>5, ReturnedValueKept
      <3>2. Receivable(t)' = Receivable(t)
        BY <1>5, ReceivableKept
      <3>3. \A l \in LinesOf(t) : Returned(l)' = Returned(l)
        BY <1>5, ReturnedKept DEF LinesOf
      <3> QED
        BY <1>5, <3>1, <3>2, <3>3 DEF PurchaseKept
    <2>2. \A l \in Unsorted :
            BatchKept(l) /\ balance'[l] >= balance[l] /\ sorted'[l] = sorted[l]
      <3>1. \A l \in Unsorted : balance[l] \in Int
        BY UnsortedAssumption DEF RequestInv, DocInv, DocTypeOK
      <3> QED
        BY <1>5, <3>1 DEF BatchKept
    <2>3. \A o \in Request \ {r} : txn[o].op \in LocksPurchase => txn[o].purchase \notin {p}
      BY <1>1 DEF RequestInv, LocksExclusive, Holds
    <2>4. \A y \in Return :
            /\ retState'[y] = retState[y]
            /\ owed[y] = 0 /\ received[y] = 0 => owed'[y] = 0 /\ received'[y] = 0
      BY <1>5 DEF RequestInv, DocInv, DocTypeOK
    <2> HIDE DEF p, x
    <2> QED
      BY <1>1, <1>4, <2>1, <2>2, <2>3, <2>4, CommitKeepsOthers
  <1>7. OwnLinesReturned'
    BY <1>5 DEF RequestInv, OwnLinesReturned
  <1> QED
    BY <1>1, <1>2, <1>4, <1>6, <1>7, FinishKeepsRequestInv

LEMMA CommitReturnRefines ==
  ASSUME NEW r \in Request, RequestInv, NamesOwnLines, CommitReturn(r)
  PROVE  DocNext /\ RequestInv'
  <1> DEFINE p == txn[r].purchase
             x == txn[r].ret
             q == txn[r].qty
  <1>1. /\ p \in Purchase /\ x \in Return /\ q \in Asked /\ txn[r].op = "return"
        /\ txn[r].op \in LocksPurchase /\ Finish(r)
    BY TxnFields DEF CommitReturn, RequestInv, LocksPurchase
  <1>2. cash' \in Int /\ HoldsReturn(r, x)
    BY <1>1 DEF CommitReturn, RequestInv, TypeOK, HoldsReturn
  <1>3. DocReturn(p, x, q)
    BY DEF CommitReturn, DocReturn, RequestInv, DecisionsStayValid, InFlight
  <1>4. DocInv' /\ DocNext
    BY <1>1, <1>3, ReturnKeepsDocInv DEF RequestInv, DocNext
  <1>5. /\ UNCHANGED <<paid, received, receipt, sorted, sortedOnce>>
        /\ balance' = [l \in Line |-> balance[l] - q[l]]
        /\ \A t \in Purchase : t # p => status'[t] = status[t]
        /\ \A y \in Return : y # x => UNCHANGED <<retState[y], retPurchase[y], retQty[y], owed[y]>>
        /\ retPurchase'[x] = p /\ retQty'[x] = q
        /\ retState[x] = "none" /\ retPurchase[x] = NoPurchase
        /\ owed[x] = 0
    BY <1>1, <1>3 DEF DocReturn, CanReturn, ReturnWrites, RequestInv, DocInv,
                      DocTypeOK, ReturnRows
  <1>6. \A l \in Line : q[l] > 0 => PurchaseOf[l] = p
    BY <1>1, <1>3 DEF DocReturn, CanReturn, NamesOwnLines, LinesOf
  <1>7. \A o \in Request \ {r} : InFlight(o)'
    <2>1. \A t \in Purchase \ {p} : PurchaseKept(t)
      <3> SUFFICES ASSUME NEW t \in Purchase, t # p PROVE PurchaseKept(t)
        OBVIOUS
      <3>1. retPurchase[x] # t /\ retPurchase'[x] # t
        BY <1>5, NoPurchaseAssumption
      <3>2. ReturnedValue(t)' = ReturnedValue(t)
        BY <1>5, <3>1, ReturnedValueKept
      <3>3. Receivable(t)' = Receivable(t)
        BY <1>5, <3>1, ReceivableKept
      <3>4. \A l \in LinesOf(t) : Returned(l)' = Returned(l)
        <4> SUFFICES ASSUME NEW l \in LinesOf(t) PROVE Returned(l)' = Returned(l)
          OBVIOUS
        <4>1. l \in Line /\ PurchaseOf[l] # p
          BY DEF LinesOf
        <4>2. q[l] = 0
          BY <1>1, <1>6, <4>1 DEF Asked
        <4> QED
          BY <1>5, <4>1, <4>2, ReturnedKept
      <3>5. \A y \in Return : retPurchase[y] = t => y # x
        BY <3>1
      <3> QED
        BY <1>5, <3>2, <3>3, <3>4, <3>5 DEF PurchaseKept
    <2>2. \A l \in Unsorted : l \notin BatchesOf(txn[r]) =>
            BatchKept(l) /\ balance'[l] >= balance[l] /\ sorted'[l] = sorted[l]
      <3> SUFFICES ASSUME NEW l \in Unsorted, l \notin BatchesOf(txn[r])
                   PROVE  BatchKept(l) /\ balance'[l] >= balance[l] /\ sorted'[l] = sorted[l]
        OBVIOUS
      <3>1. l \in Line /\ balance[l] \in Int /\ q[l] \in Nat
        BY <1>1, UnsortedAssumption, MaxAskedAssumption
           DEF RequestInv, DocInv, DocTypeOK, Asked
      <3>2. ~(q[l] > 0)
        BY <1>1 DEF BatchesOf
      <3>3. q[l] = 0
        BY <3>1, <3>2
      <3> QED
        BY <1>5, <3>1, <3>3 DEF BatchKept
    <2>3. \A o \in Request \ {r} : txn[o].op \in LocksPurchase => txn[o].purchase \notin {p}
      BY <1>1 DEF RequestInv, LocksExclusive, Holds
    <2>4. \A y \in Return : ~HoldsReturn(r, y) =>
            UNCHANGED <<retState[y], owed[y], received[y]>>
      BY <1>2, <1>5
    <2> HIDE DEF p, x, q
    <2> QED
      BY <1>1, <1>4, <2>1, <2>2, <2>3, <2>4, CommitKeepsOthers
  <1>8. OwnLinesReturned'
    BY <1>1, <1>5, <1>6 DEF RequestInv, OwnLinesReturned
  <1> QED
    BY <1>1, <1>2, <1>4, <1>7, <1>8, FinishKeepsRequestInv

(* The return is held since it was opened; its purchase is locked last. *)
LEMMA CommitCancelReturnRefines ==
  ASSUME NEW r \in Request, RequestInv, NamesOwnLines, CommitCancelReturn(r)
  PROVE  DocNext /\ RequestInv'
  <1> DEFINE x == txn[r].ret
             p == retPurchase[x]
  <1>1. /\ x \in Return /\ Finish(r) /\ cash' \in Int /\ HoldsReturn(r, x)
        /\ txn[r].op \notin LocksPurchase
    BY TxnFields DEF CommitCancelReturn, RequestInv, TypeOK, HoldsReturn, LocksPurchase
  <1>2. DocCancelReturn(x)
    BY DEF CommitCancelReturn, DocCancelReturn, RequestInv, DecisionsStayValid, InFlight
  <1>3. DocInv' /\ DocNext
    BY <1>1, <1>2, CancelReturnKeepsDocInv DEF RequestInv, DocNext
  <1>4. p \in Purchase /\ \A t \in Purchase : t # p => status'[t] = status[t]
    BY <1>1, <1>2, RecoveredStatus DEF RequestInv
  <1>5. /\ UNCHANGED <<paid, retPurchase, retQty, owed, received, receipt, sorted, sortedOnce>>
        /\ balance' = [l \in Line |-> balance[l] + retQty[x][l]]
        /\ \A y \in Return : y # x => retState'[y] = retState[y]
        /\ retState'[x] = "cancelled"
    BY <1>1, <1>2 DEF DocCancelReturn, CancelReturnWrites, RequestInv, DocInv, DocTypeOK
  <1>6. \A l \in Line : PurchaseOf[l] # p => retQty[x][l] = 0
    <2>1. retQty[x] \in [Line -> Nat]
      BY <1>1 DEF RequestInv, DocInv, DocTypeOK
    <2> QED
      BY <1>1, <2>1 DEF RequestInv, OwnLinesReturned
  <1>7. \A o \in Request \ {r} : InFlight(o)'
    <2>1. \A t \in Purchase \ {p} : PurchaseKept(t)
      <3> SUFFICES ASSUME NEW t \in Purchase, t # p PROVE PurchaseKept(t)
        OBVIOUS
      <3>1. ReturnedValue(t)' = ReturnedValue(t)
        BY <1>5, ReturnedValueKept
      <3>2. Receivable(t)' = Receivable(t)
        BY <1>5, ReceivableKept
      <3>3. \A l \in LinesOf(t) : Returned(l)' = Returned(l)
        <4> SUFFICES ASSUME NEW l \in LinesOf(t) PROVE Returned(l)' = Returned(l)
          OBVIOUS
        <4>1. l \in Line /\ retQty[x][l] = 0
          BY <1>6 DEF LinesOf
        <4> QED
          BY <1>5, <4>1, ReturnedKept
      <3> QED
        BY <1>4, <1>5, <3>1, <3>2, <3>3 DEF PurchaseKept
    <2>2. \A l \in Unsorted :
            /\ PurchaseOf[l] \notin {p} => BatchKept(l)
            /\ balance'[l] >= balance[l]
            /\ sorted'[l] = sorted[l]
      <3> SUFFICES ASSUME NEW l \in Unsorted
                   PROVE  /\ PurchaseOf[l] # p => BatchKept(l)
                          /\ balance'[l] >= balance[l]
                          /\ sorted'[l] = sorted[l]
        OBVIOUS
      <3>1. l \in Line /\ balance[l] \in Int /\ retQty[x][l] \in Nat
        BY <1>1, UnsortedAssumption DEF RequestInv, DocInv, DocTypeOK
      <3> QED
        BY <1>5, <1>6, <3>1 DEF BatchKept
    <2>3. \A o \in Request \ {r} : txn[o].op \in LocksPurchase => txn[o].purchase \notin {p}
      BY DEF CommitCancelReturn, PurchaseIsFree
    <2>4. \A y \in Return : ~HoldsReturn(r, y) =>
            UNCHANGED <<retState[y], owed[y], received[y]>>
      BY <1>1, <1>5
    <2> HIDE DEF p, x
    <2> QED
      BY <1>1, <1>3, <2>1, <2>2, <2>3, <2>4, CommitKeepsOthers
  <1>8. OwnLinesReturned'
    BY <1>5 DEF RequestInv, OwnLinesReturned
  <1> QED
    BY <1>1, <1>3, <1>7, <1>8, FinishKeepsRequestInv

(* A rolled back transaction leaves no trace. *)
LEMMA RollbackKeepsRequestInv ==
  ASSUME NEW r \in Request, RequestInv, NamesOwnLines, Rollback(r)
  PROVE  RequestInv' /\ UNCHANGED docVars
  <1>1. Finish(r) /\ UNCHANGED docVars /\ UNCHANGED cash
    BY DEF Rollback
  <1>2. DocInv /\ [DocNext]_docVars
    BY <1>1 DEF RequestInv
  <1>3. DocInv'
    BY <1>2, NextKeepsDocInv
  <1>4. ASSUME NEW o \in Request \ {r} PROVE InFlight(o)'
    <2>1. TypeOK /\ InFlight(o) /\ txn'[o] = txn[o]
      BY <1>1 DEF RequestInv, DecisionsStayValid, TypeOK, Finish
    <2> QED
      BY <1>1, <2>1, UnchangedKept
  <1>5. cash' \in Int /\ OwnLinesReturned'
    BY <1>1 DEF RequestInv, TypeOK, OwnLinesReturned, docVars
  <1> QED
    BY <1>1, <1>3, <1>4, <1>5, FinishKeepsRequestInv

LEMMA InitRequestInv == Init => RequestInv
  <1> SUFFICES ASSUME Init PROVE RequestInv
    OBVIOUS
  <1>1. DocInv
    BY InitDocInv DEF Init
  <1>2. \A r \in Request : txn[r].op = "idle"
    BY DEF Init, Idle
  <1>3. TypeOK
    BY <1>1, OpeningCashAssumption DEF Init, TypeOK, DocInv, Txn
  <1>4. OwnLinesReturned
    BY DEF Init, DocInit, NoQuantity, OwnLinesReturned
  <1>5. LocksExclusive
    BY <1>2 DEF LocksExclusive, Holds, HoldsReturn, LocksPurchase, BatchesOf
  <1>6. DecisionsStayValid
    BY <1>2 DEF DecisionsStayValid, InFlight
  <1> QED
    BY <1>1, <1>3, <1>4, <1>5, <1>6 DEF RequestInv

(* Every step is a step of the sequential document or none. *)
LEMMA StepRefines ==
  ASSUME RequestInv, NamesOwnLines, [Next]_vars
  PROVE  RequestInv' /\ [DocNext]_docVars
  <1>1. CASE UNCHANGED vars
    <2>1. UNCHANGED docVars /\ UNCHANGED txn /\ UNCHANGED cash
      BY <1>1 DEF vars
    <2>2. DocInv /\ [DocNext]_docVars
      BY <2>1 DEF RequestInv
    <2>3. DocInv'
      BY <2>2, NextKeepsDocInv
    <2>4. TypeOK' /\ OwnLinesReturned'
      BY <2>1, <2>3 DEF RequestInv, TypeOK, DocInv, OwnLinesReturned, docVars
    <2>5. LocksExclusive'
      BY <2>1 DEF RequestInv, LocksExclusive, Holds, HoldsReturn
    <2>6. DecisionsStayValid'
      BY <2>1, UnchangedKept DEF RequestInv, DecisionsStayValid
    <2> QED
      BY <2>2, <2>3, <2>4, <2>5, <2>6 DEF RequestInv
  <1>2. ASSUME NEW r \in Request, Begin(r) PROVE RequestInv' /\ [DocNext]_docVars
    BY <1>2, BeginKeepsRequestInv
  <1>3. ASSUME NEW r \in Request, Commit(r) PROVE RequestInv' /\ [DocNext]_docVars
    BY <1>3, CommitPostRefines, CommitPayRefines, CommitCancelRefines,
       CommitReturnRefines, CommitCancelReturnRefines, CommitRepayRefines,
       CommitSortRefines DEF Commit
  <1>4. ASSUME NEW r \in Request, Rollback(r) PROVE RequestInv' /\ [DocNext]_docVars
    BY <1>4, RollbackKeepsRequestInv
  <1> QED
    BY <1>1, <1>2, <1>3, <1>4 DEF Next

(* The invariant holds of every interleaving of requests. *)
LEMMA RequestInvariant == ASSUME NamesOwnLines PROVE Spec => []RequestInv
  <1>1. RequestInv /\ [Next]_vars => RequestInv'
    BY StepRefines
  <1> QED
    BY <1>1, InitRequestInv, PTL DEF Spec

(* The locks of PurchaseService, SupplierRepaymentService and SortingService *)
(* are enough: interleaved requests do to the document tables what some      *)
(* sequence of requests, served one at a time, does.                         *)
THEOREM PurchasesImplementDocument == ASSUME NamesOwnLines PROVE Spec => PurchaseSpec
  <1>1. RequestInv /\ [Next]_vars => [DocNext]_docVars
    BY StepRefines
  <1>2. Init => DocInit
    BY DEF Init
  <1> QED
    BY <1>1, <1>2, RequestInvariant, PTL DEF Spec, PurchaseSpec

(* The types of the tables and of the open transactions. *)
THEOREM PurchasesTypeOK == ASSUME NamesOwnLines PROVE Spec => []TypeOK
  <1>1. RequestInv => TypeOK
    BY DEF RequestInv
  <1> QED
    BY <1>1, RequestInvariant, PTL

(* What a transaction read under its locks is still true when it commits,   *)
(* although a return locks its purchase before its batches, a sorting the   *)
(* batch alone and the cancellation of a return the purchase last.          *)
THEOREM PurchasesDecisionsStayValid ==
  ASSUME NamesOwnLines PROVE Spec => []DecisionsStayValid
  <1>1. RequestInv => DecisionsStayValid
    BY DEF RequestInv
  <1> QED
    BY <1>1, RequestInvariant, PTL

(* A pending batch is never overdrawn, however returns, cancellations and   *)
(* sorting events that empty it are interleaved.                            *)
THEOREM PurchasesBatchNeverOverdrawn ==
  ASSUME NamesOwnLines PROVE Spec => []BatchNeverOverdrawn
  <1>1. RequestInv => BatchNeverOverdrawn
    BY DEF RequestInv, DocInv
  <1> QED
    BY <1>1, RequestInvariant, PTL

(* Concurrent requests never pay or revive a cancelled purchase or return.  *)
THEOREM PurchasesCancelIsFinal == ASSUME NamesOwnLines PROVE Spec => CancelIsFinal
  BY PurchasesImplementDocument, PurchaseCancelIsFinal, PTL

(* Hence what holds of the sequential document holds of every interleaving: *)
(* the ledger of a line agrees with its documents, ...                      *)
THEOREM PurchasesLedgerAgrees == ASSUME NamesOwnLines PROVE Spec => []LedgerAgrees
  BY PurchasesImplementDocument, PurchaseLedgerAgrees, PTL

(* ... concurrent payments and returns never overpay a purchase, nor leave  *)
(* the supplier owing more than was paid but for the rounding, ...          *)
THEOREM PurchasesMoneyBounded == ASSUME NamesOwnLines PROVE Spec => []MoneyBounded
  BY PurchasesImplementDocument, PurchaseMoneyBounded, PTL

(* ... the lifecycle status says what the returns and payments say, ...     *)
THEOREM PurchasesLifecycleTellsReturns ==
  ASSUME NamesOwnLines PROVE Spec => []LifecycleTellsReturns
  BY PurchasesImplementDocument, PurchaseLifecycleTellsReturns, PTL

(* ... and the operating costs that the profit and loss charges are those   *)
(* of the goods still here (the reports' union of posted, returned and      *)
(* cancelled costs).                                                        *)
THEOREM PurchasesExpenseFollowsGoods ==
  ASSUME NamesOwnLines PROVE Spec => []ExpenseFollowsGoods
  <1>1. MoneyInv /\ [DocNext]_docVars => MoneyInv'
    BY NextKeepsMoneyInv
  <1>2. MoneyInv => ExpenseFollowsGoods
    BY ExpenseFollows DEF MoneyInv
  <1>3. PurchaseSpec => []ExpenseFollowsGoods
    BY <1>1, <1>2, InitMoneyInv, PTL DEF PurchaseSpec
  <1> QED
    BY <1>3, PurchasesImplementDocument, PTL

=============================================================================
