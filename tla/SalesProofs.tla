---------------------------- MODULE SalesProofs ----------------------------
(***************************************************************************)
(* What TLAPS proves of the sales, for any number of sales, lines, returns *)
(* and requests: first of the sequential document, whose sums over lines   *)
(* and returns module SumTheorems reasons about, then that interleaved     *)
(* requests implement it, and so have all its invariants.  The inductive   *)
(* invariant of the requests says that a row is locked by one transaction  *)
(* at a time and that everything an open transaction decided on still      *)
(* holds; it needs a return to name lines of its own sale only.            *)
(***************************************************************************)
EXTENDS SaleReports, SumTheorems

-----------------------------------------------------------------------------
(* The sequential document *)

(* A return that was not created yet has no lines. *)
UncreatedIsEmpty ==
    \A x \in Return : retState[x] = "none" => retQty[x] = NoQuantity

(* Inductive: the movements and the money of a sale only follow from its    *)
(* status if no return or payment outlives the status it was accepted in.   *)
DocInv ==
    /\ DocTypeOK
    /\ MoneyBounded
    /\ CompletedMeansPaid
    /\ SaleMovements
    /\ ReturnMovements
    /\ UncreatedIsEmpty
    /\ CancelledHasNoReturn

USE NoSaleAssumption, SaleOfAssumption, LineNumberAssumption,
    QuantityAssumption, TotalAssumption, AmountAssumption, MaxAskedAssumption

(* The page list_lines returns holds lines of that sale only. *)
LEMMA ListedLines == \A s \in Sale : Listed(s) \subseteq LinesOf(s)
  BY DEF Listed, LinesOf

(* The tables start empty and every sale starts as a draft. *)
LEMMA InitDocInv == DocInit => DocInv
  <1> SUFFICES ASSUME DocInit PROVE DocInv
    OBVIOUS
  <1>1. DocTypeOK
    BY DEF DocInit, DocTypeOK, Status, NoQuantity
  <1>2. MoneyBounded /\ CompletedMeansPaid
    BY DEF DocInit, MoneyBounded, CompletedMeansPaid
  <1>3. SaleMovements
    BY DEF DocInit, SaleMovements, NoQuantity
  <1>4. ReturnMovements /\ UncreatedIsEmpty /\ CancelledHasNoReturn
    BY DEF DocInit, ReturnMovements, UncreatedIsEmpty, CancelledHasNoReturn
  <1> QED
    BY <1>1, <1>2, <1>3, <1>4 DEF DocInv

(* post_sale *)
LEMMA PostKeepsDocInv ==
  ASSUME NEW s \in Sale, DocInv, DocPost(s)
  PROVE  DocInv'
  <1> USE DEF DocPost, CanPost, PostWrites
  <1>1. DocTypeOK'
    BY DEF DocInv, DocTypeOK, Status
  <1>2. MoneyBounded' /\ CompletedMeansPaid'
    BY DEF DocInv, DocTypeOK, MoneyBounded, CompletedMeansPaid
  <1>3. SaleMovements'
    <2> SUFFICES ASSUME NEW l \in Line
                 PROVE  /\ issue'[l] = IF l \in Listed(SaleOf[l]) /\ status'[SaleOf[l]] # "draft"
                                       THEN Quantity[l] ELSE 0
                        /\ reversal'[l] = IF status'[SaleOf[l]] = "cancelled"
                                          THEN issue'[l] ELSE 0
      BY DEF SaleMovements
    <2>1. CASE SaleOf[l] = s
      BY <2>1 DEF DocInv, DocTypeOK, SaleMovements
    <2>2. CASE SaleOf[l] # s
      <3>1. l \notin Listed(s)
        BY <2>2, ListedLines DEF LinesOf
      <3> QED
        BY <2>2, <3>1 DEF DocInv, DocTypeOK, SaleMovements
    <2> QED
      BY <2>1, <2>2
  <1>4. ReturnMovements' /\ UncreatedIsEmpty'
    BY DEF DocInv, ReturnMovements, UncreatedIsEmpty
  <1>5. CancelledHasNoReturn'
    BY DEF DocInv, DocTypeOK, ReturnMovements, CancelledHasNoReturn
  <1> QED
    BY <1>1, <1>2, <1>3, <1>4, <1>5 DEF DocInv

(* add_payment *)
LEMMA PayKeepsDocInv ==
  ASSUME NEW s \in Sale, NEW a \in Amount, DocInv, DocPay(s, a)
  PROVE  DocInv'
  <1> USE DEF DocPay, CanPay, PayWrites, Settles
  <1>1. DocTypeOK'
    BY DEF DocInv, DocTypeOK, Status
  <1>2. MoneyBounded' /\ CompletedMeansPaid'
    <2>1. /\ a \in Nat \ {0} /\ paid[s] \in Nat /\ refunded[s] \in Nat /\ Total[s] \in Nat
          /\ paid'[s] = paid[s] + a /\ paid[s] + a <= Total[s]
          /\ status'[s] = IF paid'[s] >= Total[s] THEN "completed" ELSE status[s]
      BY DEF DocInv, DocTypeOK
    <2>2. \A t \in Sale : t # s => paid'[t] = paid[t] /\ status'[t] = status[t]
      BY DEF DocInv, DocTypeOK
    <2>3. MoneyBounded'
      BY <2>1, <2>2 DEF DocInv, MoneyBounded
    <2>4. CompletedMeansPaid'
      BY <2>1, <2>2 DEF DocInv, CompletedMeansPaid
    <2> QED
      BY <2>3, <2>4
  <1>3. status[s] # "cancelled" \/ status' = status
    BY DEF DocInv, DocTypeOK, MayBecome, Transition
  <1>4. SaleMovements'
    BY <1>3 DEF DocInv, DocTypeOK, SaleMovements, MayBecome, Transition
  <1>5. ReturnMovements' /\ UncreatedIsEmpty'
    BY DEF DocInv, ReturnMovements, UncreatedIsEmpty
  <1>6. CancelledHasNoReturn'
    BY DEF DocInv, DocTypeOK, ReturnMovements, CancelledHasNoReturn
  <1> QED
    BY <1>1, <1>2, <1>4, <1>5, <1>6 DEF DocInv

(* create_refund *)
LEMMA RefundKeepsDocInv ==
  ASSUME NEW s \in Sale, NEW a \in Amount, DocInv, DocRefund(s, a)
  PROVE  DocInv'
  <1> USE DEF DocRefund, CanRefund, RefundWrites
  <1>1. DocTypeOK'
    BY DEF DocInv, DocTypeOK
  <1>2. MoneyBounded' /\ CompletedMeansPaid'
    BY DEF DocInv, DocTypeOK, MoneyBounded, CompletedMeansPaid
  <1>3. SaleMovements' /\ ReturnMovements' /\ UncreatedIsEmpty' /\ CancelledHasNoReturn'
    BY DEF DocInv, SaleMovements, ReturnMovements, UncreatedIsEmpty, CancelledHasNoReturn
  <1> QED
    BY <1>1, <1>2, <1>3 DEF DocInv

(* cancel_sale *)
LEMMA CancelKeepsDocInv ==
  ASSUME NEW s \in Sale, DocInv, DocCancel(s)
  PROVE  DocInv'
  <1> USE DEF DocCancel, CanCancel, CancelWrites
  <1>1. DocTypeOK'
    BY DEF DocInv, DocTypeOK, Status
  <1>2. MoneyBounded' /\ CompletedMeansPaid'
    BY DEF DocInv, DocTypeOK, MoneyBounded, CompletedMeansPaid
  <1>3. SaleMovements'
    <2> SUFFICES ASSUME NEW l \in Line
                 PROVE  /\ issue'[l] = IF l \in Listed(SaleOf[l]) /\ status'[SaleOf[l]] # "draft"
                                       THEN Quantity[l] ELSE 0
                        /\ reversal'[l] = IF status'[SaleOf[l]] = "cancelled"
                                          THEN issue'[l] ELSE 0
      BY DEF SaleMovements
    <2>1. CASE SaleOf[l] = s
      <3>1. status[s] # "draft" /\ status[s] # "cancelled" /\ status'[s] = "cancelled"
        BY DEF DocInv, DocTypeOK, Cancellable
      <3>2. reversal[l] = 0 /\ issue[l] \in Nat
        BY <2>1, <3>1 DEF DocInv, DocTypeOK, SaleMovements
      <3> QED
        BY <2>1, <3>1, <3>2 DEF DocInv, DocTypeOK, SaleMovements
    <2>2. CASE SaleOf[l] # s
      <3>1. l \notin Listed(s)
        BY <2>2, ListedLines DEF LinesOf
      <3> QED
        BY <2>2, <3>1 DEF DocInv, DocTypeOK, SaleMovements
    <2> QED
      BY <2>1, <2>2
  <1>4. ReturnMovements' /\ UncreatedIsEmpty'
    BY DEF DocInv, ReturnMovements, UncreatedIsEmpty
  <1>5. CancelledHasNoReturn'
    BY DEF DocInv, DocTypeOK, ReturnMovements, CancelledHasNoReturn, HasActiveReturn
  <1> QED
    BY <1>1, <1>2, <1>3, <1>4, <1>5 DEF DocInv

(* create_return *)
LEMMA ReturnKeepsDocInv ==
  ASSUME NEW s \in Sale, NEW x \in Return, NEW q \in Asked,
         DocInv, DocReturn(s, x, q)
  PROVE  DocInv'
  <1>1. /\ status[s] \in Returnable
        /\ retState[x] = "none"
        /\ status'[s] \in {"returned", "partially_returned"}
        /\ \A t \in Sale : t # s => status'[t] = status[t]
        /\ status' \in [Sale -> Status]
    BY DEF DocReturn, CanReturn, ReturnWrites, DocInv, DocTypeOK, Status
  <1>2. /\ q \in [Line -> Nat]
        /\ retQty[x] = NoQuantity
        /\ restock[x] = NoQuantity
    BY <1>1 DEF DocInv, ReturnMovements, UncreatedIsEmpty, Asked
  <1>3. restock' = [restock EXCEPT ![x] = q]
    <2>1. [l \in Line |-> restock[x][l] + q[l]] = q
      BY <1>2 DEF NoQuantity
    <2> QED
      BY <2>1 DEF DocReturn, ReturnWrites
  <1>4. /\ retState' = [retState EXCEPT ![x] = "posted"]
        /\ retSale' = [retSale EXCEPT ![x] = s]
        /\ retQty' = [retQty EXCEPT ![x] = q]
        /\ UNCHANGED <<paid, refunded, issue, reversal, unrestock>>
    BY DEF DocReturn, ReturnWrites
  <1>5. DocTypeOK'
    BY <1>1, <1>2, <1>3, <1>4 DEF DocInv, DocTypeOK
  <1>6. MoneyBounded' /\ CompletedMeansPaid'
    BY <1>1, <1>4 DEF DocInv, MoneyBounded, CompletedMeansPaid
  <1>7. SaleMovements'
    BY <1>1, <1>4 DEF DocInv, SaleMovements, Returnable
  <1>8. ReturnMovements'
    BY <1>1, <1>2, <1>3, <1>4 DEF DocInv, DocTypeOK, ReturnMovements
  <1>9. UncreatedIsEmpty'
    BY <1>1, <1>4 DEF DocInv, DocTypeOK, UncreatedIsEmpty
  <1>10. CancelledHasNoReturn'
    BY <1>1, <1>4 DEF DocInv, DocTypeOK, ReturnMovements, CancelledHasNoReturn
  <1> QED
    BY <1>5, <1>6, <1>7, <1>8, <1>9, <1>10 DEF DocInv

(* cancel_return *)
LEMMA CancelReturnKeepsDocInv ==
  ASSUME NEW x \in Return, DocInv, DocCancelReturn(x)
  PROVE  DocInv'
  <1> USE DEF DocCancelReturn, CanCancelReturn, CancelReturnWrites
  <1>1. DocTypeOK'
    BY DEF DocInv, DocTypeOK
  <1>2. MoneyBounded' /\ CompletedMeansPaid' /\ SaleMovements'
    BY DEF DocInv, MoneyBounded, CompletedMeansPaid, SaleMovements
  <1>3. unrestock' = [unrestock EXCEPT ![x] = restock[x]]
    <2>1. unrestock[x] = NoQuantity /\ restock[x] \in [Line -> Nat]
      BY DEF DocInv, DocTypeOK, ReturnMovements
    <2>2. [l \in Line |-> unrestock[x][l] + restock[x][l]] = restock[x]
      BY <2>1 DEF NoQuantity
    <2> QED
      BY <2>2
  <1>4. ReturnMovements'
    BY <1>3 DEF DocInv, DocTypeOK, ReturnMovements
  <1>5. UncreatedIsEmpty' /\ CancelledHasNoReturn'
    BY DEF DocInv, DocTypeOK, UncreatedIsEmpty, CancelledHasNoReturn
  <1> QED
    BY <1>1, <1>2, <1>4, <1>5 DEF DocInv

(* Every request preserves the invariant, and so does a step of no request. *)
LEMMA NextKeepsDocInv == DocInv /\ [DocNext]_docVars => DocInv'
  <1> SUFFICES ASSUME DocInv, [DocNext]_docVars PROVE DocInv'
    OBVIOUS
  <1>1. CASE UNCHANGED docVars
    BY <1>1 DEF docVars, DocInv, DocTypeOK, MoneyBounded, CompletedMeansPaid,
                SaleMovements, ReturnMovements, UncreatedIsEmpty, CancelledHasNoReturn
  <1>2. CASE DocNext
    BY <1>2, PostKeepsDocInv, PayKeepsDocInv, RefundKeepsDocInv, CancelKeepsDocInv,
       ReturnKeepsDocInv, CancelReturnKeepsDocInv DEF DocNext
  <1> QED
    BY <1>1, <1>2

(* Types, money, movements and cancellations of the sequential document:    *)
(* whatever requests are served, one after the other, DocInv holds.         *)
THEOREM DocInvariant == DocSpec => []DocInv
  BY InitDocInv, NextKeepsDocInv, PTL DEF DocSpec

(* INV-05 for requests served one after the other: neither a cancelled sale *)
(* nor a cancelled return ever changes its status again.                    *)
THEOREM DocCancelIsFinal == DocSpec => CancelIsFinal
  <1> DEFINE Final ==
        /\ \A s \in Sale : status[s] = "cancelled" => status'[s] = "cancelled"
        /\ \A x \in Return : retState[x] = "cancelled" => retState'[x] = "cancelled"
  <1>1. DocInv /\ DocNext => Final
    <2> SUFFICES ASSUME DocInv, DocNext PROVE Final
      OBVIOUS
    <2> USE DEF DocInv, DocTypeOK
    <2>1. ASSUME NEW s \in Sale, DocPost(s) PROVE Final
      BY <2>1 DEF DocPost, CanPost, PostWrites
    <2>2. ASSUME NEW s \in Sale, DocCancel(s) PROVE Final
      BY <2>2 DEF DocCancel, CancelWrites
    <2>3. ASSUME NEW s \in Sale, NEW a \in Amount, DocPay(s, a) PROVE Final
      BY <2>3 DEF DocPay, CanPay, PayWrites, MayBecome, Transition
    <2>4. ASSUME NEW s \in Sale, NEW a \in Amount, DocRefund(s, a) PROVE Final
      BY <2>4 DEF DocRefund, RefundWrites
    <2>5. ASSUME NEW s \in Sale, NEW x \in Return, NEW q \in Asked, DocReturn(s, x, q)
          PROVE  Final
      BY <2>5 DEF DocReturn, CanReturn, ReturnWrites, Returnable
    <2>6. ASSUME NEW x \in Return, DocCancelReturn(x) PROVE Final
      BY <2>6 DEF DocCancelReturn, CanCancelReturn, CancelReturnWrites
    <2> QED
      BY <2>1, <2>2, <2>3, <2>4, <2>5, <2>6 DEF DocNext
  <1>2. DocInv /\ [DocNext]_docVars => [Final]_docVars
    BY <1>1
  <1> QED
    BY <1>2, DocInvariant, PTL DEF DocSpec, CancelIsFinal

-----------------------------------------------------------------------------
(* Goods that come back.  A sale is cancelled only when none of its goods   *)
(* is in a posted return, so that what a line gave back by its returns, by  *)
(* their cancellations and by the cancellation of the sale never exceeds    *)
(* what it took.  This needs the returns to name lines that were taken.     *)

(* What the fallback in create_return does not ensure. *)
NamesOwnLines == \A s \in Sale : Named[s] \subseteq LinesOf(s)

(* The goods of a return were taken by a line of its own sale. *)
OwnLinesReturned ==
    \A x \in Return, l \in Line : retQty[x][l] > 0 => SaleOf[l] = retSale[x] /\ issue[l] > 0

GoodsInv ==
    /\ DocInv
    /\ OwnLinesReturned
    /\ ReturnsBounded

LEMMA FiniteTables ==
  /\ IsFiniteSet(Sale) /\ IsFiniteSet(Line) /\ IsFiniteSet(Return)
  /\ \A s \in Sale : IsFiniteSet(LinesOf(s)) /\ LinesOf(s) \subseteq Line
  <1>1. IsFiniteSet(Sale) /\ IsFiniteSet(Line) /\ IsFiniteSet(Return)
    BY FiniteAssumption
  <1>2. \A s \in Sale : LinesOf(s) \subseteq Line
    BY DEF LinesOf
  <1> QED
    BY <1>1, <1>2, FS_Subset

(* What the returns, whatever their state, hold of a line. *)
LEMMA ReturnedNat ==
  ASSUME DocTypeOK, NEW l \in Line
  PROVE  Returned(l) \in Nat /\ \A x \in Return : retQty[x][l] <= Returned(l)
  <1> DEFINE f == [x \in Return |-> retQty[x][l]]
  <1>1. f \in [Return -> Nat] /\ \A x \in Return : f[x] = retQty[x][l]
    BY DEF DocTypeOK
  <1>2. Returned(l) = SumFunction(f)
    BY DEF Returned
  <1> HIDE DEF f
  <1> QED
    BY <1>1, <1>2, FiniteTables, SumFunNat

(* A new return adds what it names. *)
LEMMA ReturnedAfterReturn ==
  ASSUME NEW s \in Sale, NEW x \in Return, NEW q \in Asked, DocInv, DocReturn(s, x, q),
         NEW l \in Line
  PROVE  Returned(l)' = Returned(l) + q[l]
  <1> DEFINE f == [y \in Return |-> retQty[y][l]]
             g == [y \in Return |-> retQty'[y][l]]
  <1>1. /\ retQty[x][l] = 0
        /\ q[l] \in Nat
        /\ retQty' = [retQty EXCEPT ![x] = q]
    BY DEF DocReturn, CanReturn, ReturnWrites, DocInv, UncreatedIsEmpty, NoQuantity, Asked
  <1>2. f \in [Return -> Int] /\ f[x] = 0
    BY <1>1 DEF DocInv, DocTypeOK
  <1>3. retQty' \in [Return -> [Line -> Nat]]
    BY ReturnKeepsDocInv DEF DocInv, DocTypeOK
  <1>4. g \in [Return -> Int] /\ g[x] = q[l] /\ \A y \in Return \ {x} : g[y] = f[y]
    BY <1>1, <1>3 DEF DocInv, DocTypeOK
  <1>5. Returned(l) = SumFunction(f) /\ Returned(l)' = SumFunction(g)
    BY DEF Returned
  <1>6. Returned(l) \in Int
    BY ReturnedNat DEF DocInv
  <1> HIDE DEF f, g
  <1>7. SumFunction(g) = SumFunction(f) - f[x] + g[x]
    BY <1>2, <1>4, FiniteTables, SumFunChange
  <1> QED
    BY <1>1, <1>2, <1>4, <1>5, <1>6, <1>7

(* The tables start empty. *)
LEMMA InitGoodsInv == DocInit => GoodsInv
  <1> SUFFICES ASSUME DocInit PROVE GoodsInv
    OBVIOUS
  <1>1. DocInv /\ OwnLinesReturned
    BY InitDocInv DEF DocInit, NoQuantity, OwnLinesReturned
  <1>2. ASSUME NEW l \in Line PROVE Returned(l) <= Quantity[l]
    <2> DEFINE f == [x \in Return |-> retQty[x][l]]
    <2>1. f \in [Return -> Int] /\ \A x \in Return : f[x] = 0
      BY DEF DocInit, NoQuantity
    <2>2. Returned(l) = SumFunction(f)
      BY DEF Returned
    <2> HIDE DEF f
    <2>3. Returned(l) = 0
      BY <2>1, <2>2, FiniteTables, SumFunZero
    <2> QED
      BY <2>3
  <1> QED
    BY <1>1, <1>2 DEF GoodsInv, ReturnsBounded

(* A request that creates no return leaves the goods in returns alone; a    *)
(* line that was taken stays taken.                                         *)
LEMMA GoodsUntouched ==
  ASSUME GoodsInv, UNCHANGED <<retSale, retQty>>,
         \A l \in Line : issue[l] > 0 => issue'[l] > 0
  PROVE  OwnLinesReturned' /\ ReturnsBounded'
  <1>1. OwnLinesReturned'
    BY DEF GoodsInv, OwnLinesReturned
  <1>2. \A l \in Line : Returned(l)' = Returned(l)
    BY DEF Returned
  <1> QED
    BY <1>1, <1>2 DEF GoodsInv, ReturnsBounded

(* create_return *)
LEMMA ReturnKeepsGoods ==
  ASSUME NamesOwnLines, NEW s \in Sale, NEW x \in Return, NEW q \in Asked,
         GoodsInv, DocReturn(s, x, q)
  PROVE  OwnLinesReturned' /\ ReturnsBounded'
  <1>1. /\ retSale' = [retSale EXCEPT ![x] = s]
        /\ retQty' = [retQty EXCEPT ![x] = q]
        /\ issue' = issue
        /\ q \in [Line -> Nat]
        /\ \A l \in Line : q[l] > 0 =>
              SaleOf[l] = s /\ issue[l] > 0 /\ Returned(l) + q[l] <= Quantity[l]
    BY DEF DocReturn, CanReturn, ReturnWrites, NamesOwnLines, LinesOf, Asked
  <1>2. OwnLinesReturned'
    BY <1>1 DEF GoodsInv, OwnLinesReturned, DocInv, DocTypeOK
  <1>3. ASSUME NEW l \in Line PROVE Returned(l)' <= Quantity[l]
    <2>1. Returned(l)' = Returned(l) + q[l] /\ Returned(l) \in Nat /\ q[l] \in Nat
      BY <1>1, ReturnedAfterReturn, ReturnedNat DEF GoodsInv, DocInv
    <2> QED
      BY <1>1, <2>1 DEF GoodsInv, ReturnsBounded
  <1> QED
    BY <1>2, <1>3 DEF ReturnsBounded

LEMMA NextKeepsGoodsInv == NamesOwnLines /\ GoodsInv /\ [DocNext]_docVars => GoodsInv'
  <1> SUFFICES ASSUME NamesOwnLines, GoodsInv, [DocNext]_docVars PROVE GoodsInv'
    OBVIOUS
  <1>1. DocInv'
    BY NextKeepsDocInv DEF GoodsInv
  <1>2. CASE UNCHANGED docVars
    <2>1. UNCHANGED <<retSale, retQty>> /\ issue' = issue
      BY <1>2 DEF docVars
    <2> QED
      BY <1>1, <2>1, GoodsUntouched DEF GoodsInv
  <1>3. ASSUME NEW s \in Sale, DocPost(s) PROVE OwnLinesReturned' /\ ReturnsBounded'
    <2>1. \A l \in Line : issue[l] > 0 => issue'[l] > 0
      BY <1>3 DEF DocPost, PostWrites, GoodsInv, DocInv, DocTypeOK
    <2> QED
      BY <1>3, <2>1, GoodsUntouched DEF DocPost, PostWrites
  <1>4. ASSUME NEW s \in Sale, DocCancel(s) PROVE OwnLinesReturned' /\ ReturnsBounded'
    BY <1>4, GoodsUntouched DEF DocCancel, CancelWrites
  <1>5. ASSUME NEW s \in Sale, NEW a \in Amount, DocPay(s, a)
        PROVE  OwnLinesReturned' /\ ReturnsBounded'
    BY <1>5, GoodsUntouched DEF DocPay, PayWrites
  <1>6. ASSUME NEW s \in Sale, NEW a \in Amount, DocRefund(s, a)
        PROVE  OwnLinesReturned' /\ ReturnsBounded'
    BY <1>6, GoodsUntouched DEF DocRefund, RefundWrites
  <1>7. ASSUME NEW x \in Return, DocCancelReturn(x) PROVE OwnLinesReturned' /\ ReturnsBounded'
    BY <1>7, GoodsUntouched DEF DocCancelReturn, CancelReturnWrites
  <1> QED
    BY <1>1, <1>2, <1>3, <1>4, <1>5, <1>6, <1>7, ReturnKeepsGoods DEF DocNext, GoodsInv

(* What the movements of a line put back and take again are naturals. *)
LEMMA RestockedNat ==
  ASSUME DocInv, NEW l \in Line
  PROVE  Restocked(l) = Returned(l) /\ Unrestocked(l) \in Nat
  <1> DEFINE f == [x \in Return |-> restock[x][l]]
             g == [x \in Return |-> unrestock[x][l]]
  <1>1. f = [x \in Return |-> retQty[x][l]]
    BY DEF DocInv, ReturnMovements
  <1>2. g \in [Return -> Nat]
    BY DEF DocInv, DocTypeOK
  <1>3. Restocked(l) = SumFunction(f) /\ Unrestocked(l) = SumFunction(g)
    BY DEF Restocked, Unrestocked
  <1>4. Restocked(l) = Returned(l)
    BY <1>1, <1>3 DEF Returned
  <1> HIDE DEF f, g
  <1>5. Unrestocked(l) \in Nat
    BY <1>2, <1>3, FiniteTables, SumFunNat
  <1> QED
    BY <1>4, <1>5

(* A line that was never taken has nothing in returns. *)
LEMMA NotTakenNotReturned ==
  ASSUME GoodsInv, NEW l \in Line, issue[l] = 0
  PROVE  Returned(l) = 0
  <1> DEFINE f == [x \in Return |-> retQty[x][l]]
  <1>1. f \in [Return -> Int] /\ \A x \in Return : f[x] = 0
    BY DEF GoodsInv, DocInv, DocTypeOK, OwnLinesReturned
  <1>2. Returned(l) = SumFunction(f)
    BY DEF Returned
  <1> HIDE DEF f
  <1> QED
    BY <1>1, <1>2, FiniteTables, SumFunZero

LEMMA GoodsNeverOverRestocked == GoodsInv => NeverOverRestocked
  <1> SUFFICES ASSUME GoodsInv, NEW l \in Line
               PROVE  reversal[l] + Restocked(l) <= issue[l] + Unrestocked(l)
    BY DEF NeverOverRestocked
  <1>1. /\ Restocked(l) = Returned(l) /\ Unrestocked(l) \in Nat
        /\ Returned(l) \in Nat /\ Returned(l) <= Quantity[l]
    BY RestockedNat, ReturnedNat DEF GoodsInv, DocInv, ReturnsBounded
  <1>2. issue[l] \in Nat /\ (issue[l] = 0 \/ issue[l] = Quantity[l])
    BY DEF GoodsInv, DocInv, DocTypeOK, SaleMovements
  <1>3. CASE status[SaleOf[l]] = "cancelled"
    <2>1. ASSUME NEW x \in Return PROVE restock[x][l] = unrestock[x][l]
      <3>1. retState[x] \in {"none", "posted", "cancelled"} /\ restock[x] = retQty[x]
        BY DEF GoodsInv, DocInv, DocTypeOK, ReturnMovements
      <3>2. CASE retState[x] = "cancelled"
        BY <3>2 DEF GoodsInv, DocInv, ReturnMovements
      <3>3. CASE retState[x] # "cancelled"
        <4>1. unrestock[x][l] = 0
          BY <3>3 DEF GoodsInv, DocInv, ReturnMovements, NoQuantity
        <4>2. retQty[x][l] \in Nat
          BY DEF GoodsInv, DocInv, DocTypeOK
        <4>3. ~(retQty[x][l] > 0)
          BY <1>3, <3>1, <3>3 DEF GoodsInv, DocInv, OwnLinesReturned, CancelledHasNoReturn,
                                  UncreatedIsEmpty, NoQuantity
        <4> QED
          BY <3>1, <4>1, <4>2, <4>3
      <3> QED
        BY <3>2, <3>3
    <2>2. [x \in Return |-> restock[x][l]] = [x \in Return |-> unrestock[x][l]]
      BY <2>1
    <2>3. Restocked(l) = Unrestocked(l)
      BY <2>2 DEF Restocked, Unrestocked
    <2>4. reversal[l] = issue[l]
      BY <1>3 DEF GoodsInv, DocInv, SaleMovements
    <2> QED
      BY <1>1, <1>2, <2>3, <2>4
  <1>4. CASE status[SaleOf[l]] # "cancelled"
    <2>1. reversal[l] = 0
      BY <1>4 DEF GoodsInv, DocInv, SaleMovements
    <2>2. Returned(l) <= issue[l]
      BY <1>1, <1>2, NotTakenNotReturned
    <2> QED
      BY <1>1, <1>2, <2>1, <2>2
  <1> QED
    BY <1>3, <1>4

(* Goods never re-enter stock more often than they left it (create_return,  *)
(* cancel_return and cancel_sale each insert their own movements), and      *)
(* BR-SALE-009: the returns of a line never exceed what was sold of it.     *)
THEOREM DocNeverOverRestocked ==
  ASSUME NamesOwnLines PROVE DocSpec => [](NeverOverRestocked /\ ReturnsBounded)
  <1>1. GoodsInv => NeverOverRestocked /\ ReturnsBounded
    BY GoodsNeverOverRestocked DEF GoodsInv
  <1>2. GoodsInv /\ [DocNext]_docVars => GoodsInv'
    BY NextKeepsGoodsInv
  <1> QED
    BY <1>1, <1>2, InitGoodsInv, PTL DEF DocSpec

-----------------------------------------------------------------------------
(* The reports.  Returns are bounded by what was taken, so no sale earns a  *)
(* negative amount, and the order in which a report adds up and cuts off at *)
(* zero does not matter.                                                    *)

(* Products of naturals. *)
LEMMA NatTimes == \A a, b \in Nat : a * b \in Nat
  OBVIOUS

LEMMA ReturnedTaken ==
  ASSUME GoodsInv, NEW l \in Line
  PROVE  Returned(l) \in Nat /\ issue[l] \in Nat /\ Returned(l) <= issue[l]
                             /\ issue[l] <= Quantity[l]
  <1>1. Returned(l) \in Nat /\ Returned(l) <= Quantity[l]
    BY ReturnedNat DEF GoodsInv, DocInv, ReturnsBounded
  <1>2. issue[l] \in Nat /\ (issue[l] = 0 \/ issue[l] = Quantity[l])
    BY DEF GoodsInv, DocInv, DocTypeOK, SaleMovements
  <1> QED
    BY <1>1, <1>2, NotTakenNotReturned

(* What a return is worth, and what was taken, at given unit values. *)
Worth(back, W) == back = [x \in Return |-> SumFunction([l \in Line |-> retQty[x][l] * W[l]])]
Taken(given, W) == given = [l \in Line |-> issue[l] * W[l]]

LEMMA WorthNat ==
  ASSUME DocTypeOK, NEW W \in [Line -> Nat], NEW back, Worth(back, W)
  PROVE  back \in [Return -> Nat]
  <1> SUFFICES ASSUME NEW x \in Return
               PROVE  SumFunction([l \in Line |-> retQty[x][l] * W[l]]) \in Nat
    BY DEF Worth
  <1> DEFINE f == [l \in Line |-> retQty[x][l] * W[l]]
  <1>1. f \in [Line -> Nat]
    BY NatTimes DEF DocTypeOK
  <1> HIDE DEF f
  <1>2. SumFunction(f) \in Nat
    BY <1>1, FiniteTables, SumFunNat
  <1> QED
    BY <1>2 DEF f

LEMMA TakenNat ==
  ASSUME DocTypeOK, NEW W \in [Line -> Nat], NEW given, Taken(given, W)
  PROVE  given \in [Line -> Nat]
  BY NatTimes DEF Taken, DocTypeOK

(* What the posted returns of a sale are worth never exceeds what its lines *)
(* took, at any unit values.                                                *)
LEMMA WorthBounded ==
  ASSUME GoodsInv, NEW s \in Sale, NEW W \in [Line -> Nat],
         NEW back, Worth(back, W), NEW given, Taken(given, W)
  PROVE  SumFunctionOnSet(back, PostedReturns(s)) <= SumFunctionOnSet(given, LinesOf(s))
  <1> DEFINE here == PostedReturns(s)
             lines == LinesOf(s)
             m == [x \in Return |-> [l \in Line |->
                      IF x \in here THEN retQty[x][l] * W[l] ELSE 0]]
             t == [l \in Line |-> [x \in Return |->
                      IF x \in here THEN retQty[x][l] * W[l] ELSE 0]]
             rows == [x \in Return |-> SumFunction(m[x])]
             columns == [l \in Line |-> SumFunction(t[l])]
             cap == [l \in Line |-> IF l \in lines THEN given[l] ELSE 0]
  <1>1. here \subseteq Return /\ lines \subseteq Line
    BY DEF PostedReturns, LinesOf
  <1>2. DocTypeOK /\ back \in [Return -> Nat] /\ given \in [Line -> Nat]
    BY WorthNat, TakenNat DEF GoodsInv, DocInv
  <1>3. \A x \in Return, l \in Line : retQty[x][l] \in Nat /\ retQty[x][l] * W[l] \in Nat
    BY <1>2, NatTimes DEF DocTypeOK
  <1>4. Transposed(m, t, Return, Line)
    <2>1. \A x \in Return : m[x] \in [Line -> Int]
      BY <1>3
    <2>2. \A l \in Line : t[l] \in [Return -> Int]
      BY <1>3
    <2>3. m \in [Return -> [Line -> Int]]
      <3>1. m = [x \in Return |-> m[x]]
        OBVIOUS
      <3> HIDE DEF m
      <3> QED
        BY <2>1, <3>1
    <2>4. t \in [Line -> [Return -> Int]]
      <3>1. t = [l \in Line |-> t[l]]
        OBVIOUS
      <3> HIDE DEF t
      <3> QED
        BY <2>2, <3>1
    <2>5. \A x \in Return, l \in Line : t[l][x] = m[x][l]
      OBVIOUS
    <2> QED
      BY <2>3, <2>4, <2>5 DEF Transposed
  <1>5. SumFunction(rows) = SumFunction(columns)
    <2>1. RowSums(rows, m, Return) /\ RowSums(columns, t, Line)
      BY DEF RowSums
    <2> HIDE DEF m, t, rows, columns
    <2> QED
      BY <1>4, <2>1, FiniteTables, SumTranspose
  <1>6. \A x \in Return : rows[x] = IF x \in here THEN back[x] ELSE 0
    <2> SUFFICES ASSUME NEW x \in Return
                 PROVE  SumFunction(m[x]) = IF x \in here THEN back[x] ELSE 0
      OBVIOUS
    <2>1. CASE x \in here
      <3>1. m[x] = [l \in Line |-> retQty[x][l] * W[l]]
        BY <2>1
      <3>2. back[x] = SumFunction([l \in Line |-> retQty[x][l] * W[l]])
        BY DEF Worth
      <3> QED
        BY <2>1, <3>1, <3>2
    <2>2. CASE x \notin here
      <3>1. \A l \in Line : m[x][l] = 0
        BY <2>2
      <3>2. m[x] \in [Line -> Int]
        BY <1>4 DEF Transposed
      <3> HIDE DEF m
      <3> QED
        BY <2>2, <3>1, <3>2, FiniteTables, SumFunZero
    <2> QED
      BY <2>1, <2>2
  <1>7. SumFunction(rows) = SumFunctionOnSet(back, here)
    <2>1. SumFunction(rows) = SumFunctionOnSet(rows, Return)
      BY SumWhole
    <2>2. \A x \in Return : rows[x] \in Int
      BY <1>2, <1>6
    <2>3. /\ \A x \in here : back[x] = rows[x]
          /\ \A x \in Return \ here : rows[x] = 0
      BY <1>1, <1>6
    <2> HIDE DEF rows, here
    <2> QED
      BY <1>1, <2>1, <2>2, <2>3, FiniteTables, SumPart
  <1>8. \A l \in Line : columns[l] \in Int /\ columns[l] <= cap[l]
    <2> SUFFICES ASSUME NEW l \in Line
                 PROVE  SumFunction(t[l]) \in Int /\ SumFunction(t[l]) <= cap[l]
      OBVIOUS
    <2> DEFINE c == t[l]
               q == [x \in Return |-> retQty[x][l]]
               u == [x \in Return |-> retQty[x][l] * W[l]]
    <2>1. c \in [Return -> Int]
      BY <1>4 DEF Transposed
    <2>2. \A x \in Return : c[x] = IF x \in here THEN retQty[x][l] * W[l] ELSE 0
      OBVIOUS
    <2>3. q \in [Return -> Int] /\ u \in [Return -> Int] /\ \A x \in Return : u[x] = q[x] * W[l]
      BY <1>3
    <2>4. SumFunction(q) = Returned(l)
      BY DEF Returned
    <2>5. \A x \in Return : c[x] <= u[x]
      BY <1>3, <2>2
    <2> HIDE DEF c, q, u
    <2>6. SumFunction(c) \in Int /\ SumFunction(c) <= SumFunction(u)
      BY <2>1, <2>3, <2>5, FiniteTables, SumFunInt, SumFunMonotone
    <2>7. SumFunction(u) = Returned(l) * W[l]
      BY <2>3, <2>4, FiniteTables, SumFunScale
    <2>8. Returned(l) * W[l] <= issue[l] * W[l] /\ Returned(l) * W[l] \in Nat
      <3>1. \A a, b, w \in Nat : a <= b => a * w <= b * w
        OBVIOUS
      <3> QED
        BY <3>1, ReturnedTaken, NatTimes
    <2>9. given[l] = issue[l] * W[l] /\ given[l] \in Nat
      BY <1>2 DEF Taken
    <2>10. CASE l \in lines
      BY <2>6, <2>7, <2>8, <2>9, <2>10 DEF c
    <2>11. CASE l \notin lines
      <3>1. \A x \in Return : c[x] = 0
        <4> SUFFICES ASSUME NEW x \in Return, x \in here PROVE retQty[x][l] * W[l] = 0
          BY <2>2
        <4>1. ~(retQty[x][l] > 0)
          BY <2>11 DEF GoodsInv, OwnLinesReturned, PostedReturns, LinesOf
        <4> QED
          BY <1>3, <4>1
      <3>2. SumFunction(c) = 0
        BY <2>1, <3>1, FiniteTables, SumFunZero
      <3> QED
        BY <2>11, <3>2 DEF c
    <2> QED
      BY <2>10, <2>11
  <1>9. SumFunction(cap) = SumFunctionOnSet(given, lines)
    <2>1. SumFunction(cap) = SumFunctionOnSet(cap, Line)
      BY SumWhole
    <2>2. /\ \A l \in Line : cap[l] \in Int
          /\ \A l \in lines : given[l] = cap[l]
          /\ \A l \in Line \ lines : cap[l] = 0
      BY <1>1, <1>2
    <2> HIDE DEF cap, lines
    <2> QED
      BY <1>1, <2>1, <2>2, FiniteTables, SumPart
  <1>10. cap \in [Line -> Int] /\ columns \in [Line -> Int]
    BY <1>2, <1>8
  <1> HIDE DEF m, t, rows, columns, cap, here, lines
  <1>11. SumFunction(columns) <= SumFunction(cap)
    BY <1>8, <1>10, FiniteTables, SumFunMonotone
  <1> QED
    BY <1>5, <1>7, <1>9, <1>11 DEF here, lines

(* What each return gives back in the reports, at selling price and cost. *)
Sold == [x \in Return |-> SellingPrice(x)]
Cost == [x \in Return |-> CostBack(x)]

LEMMA WorthOfReturns ==
  /\ Worth(Sold, UnitPrice) /\ Worth(Cost, UnitCost)
  /\ UnitPrice \in [Line -> Nat] /\ UnitCost \in [Line -> Nat]
  <1>1. Sold = [x \in Return |-> SumFunction([l \in Line |-> retQty[x][l] * UnitPrice[l]])]
    BY DEF Sold, SellingPrice, SumOver
  <1>2. Cost = [x \in Return |-> SumFunction([l \in Line |-> retQty[x][l] * UnitCost[l]])]
    BY DEF Cost, CostBack, SumOver
  <1> QED
    BY <1>1, <1>2, UnitPriceAssumption, UnitCostAssumption DEF Worth

(* What is given back of a sale. *)
LEMMA BackOfSale ==
  ASSUME GoodsInv, NEW s \in Sale
  PROVE  /\ PostedReturns(s) \subseteq Return /\ IsFiniteSet(PostedReturns(s))
         /\ SellingReturned(s) = SumFunctionOnSet(Sold, PostedReturns(s))
         /\ CostReturned(s) = SumFunctionOnSet(Cost, PostedReturns(s))
         /\ SellingReturned(s) \in Nat /\ CostReturned(s) \in Nat
  <1> DEFINE here == PostedReturns(s)
             f == [x \in here |-> SellingPrice(x)]
             g == [x \in here |-> CostBack(x)]
  <1>1. here \subseteq Return /\ IsFiniteSet(here)
    BY FiniteTables, FS_Subset DEF PostedReturns
  <1>2. Sold \in [Return -> Nat] /\ Cost \in [Return -> Nat]
    BY WorthOfReturns, WorthNat DEF GoodsInv, DocInv
  <1>3. SellingReturned(s) = SumFunction(f) /\ CostReturned(s) = SumFunction(g)
    BY DEF SellingReturned, CostReturned, SumOver
  <1>4. /\ DOMAIN f = here /\ \A x \in here : f[x] = Sold[x]
        /\ DOMAIN g = here /\ \A x \in here : g[x] = Cost[x]
    BY <1>1 DEF Sold, Cost
  <1> HIDE DEF f, g, here
  <1>5. /\ SumFunction(f) = SumFunctionOnSet(f, here)
        /\ SumFunction(g) = SumFunctionOnSet(g, here)
    BY <1>4, SumWhole
  <1>6. /\ SumFunctionOnSet(f, here) = SumFunctionOnSet(Sold, here)
        /\ SumFunctionOnSet(g, here) = SumFunctionOnSet(Cost, here)
    BY <1>1, <1>4, SumSame
  <1>7. /\ \A x \in here : Sold[x] \in Nat
        /\ \A x \in here : Cost[x] \in Nat
    BY <1>1, <1>2
  <1>8. SumFunctionOnSet(Sold, here) \in Nat /\ SumFunctionOnSet(Cost, here) \in Nat
    BY <1>1, <1>7, SumNat
  <1> QED
    BY <1>1, <1>3, <1>5, <1>6, <1>8 DEF here

(* What a sale took, and what it asks for. *)
LEMMA TakenBySale ==
  ASSUME GoodsInv, NEW s \in Sale
  PROVE  /\ CogsTotal(s) \in Nat /\ CostReturned(s) <= CogsTotal(s)
         /\ Undiscounted(s) => SellingReturned(s) <= Total[s]
  <1> DEFINE lines == LinesOf(s)
             c == [l \in Line |-> issue[l] * UnitCost[l]]
             p == [l \in Line |-> issue[l] * UnitPrice[l]]
             cs == [l \in lines |-> issue[l] * UnitCost[l]]
             asked == [l \in lines |-> Quantity[l] * UnitPrice[l]]
  <1>1. lines \subseteq Line /\ IsFiniteSet(lines)
    BY FiniteTables
  <1>2. Taken(c, UnitCost) /\ Taken(p, UnitPrice)
    BY DEF Taken
  <1>3. c \in [Line -> Nat] /\ p \in [Line -> Nat]
    BY <1>2, TakenNat, WorthOfReturns DEF GoodsInv, DocInv
  <1>4. /\ SumFunctionOnSet(Cost, PostedReturns(s)) <= SumFunctionOnSet(c, lines)
        /\ SumFunctionOnSet(Sold, PostedReturns(s)) <= SumFunctionOnSet(p, lines)
    BY <1>2, WorthOfReturns, WorthBounded
  <1>5. CogsTotal(s) = SumFunction(cs)
    BY DEF CogsTotal, SumOver
  <1>6. Undiscounted(s) => Total[s] = SumFunction(asked)
    BY DEF Undiscounted, SumOver
  <1>7. /\ DOMAIN cs = lines /\ \A l \in lines : cs[l] = c[l]
        /\ DOMAIN asked = lines
    BY <1>1
  <1>8. \A l \in lines : p[l] \in Int /\ asked[l] \in Int /\ p[l] <= asked[l]
    <2> SUFFICES ASSUME NEW l \in lines
                 PROVE  /\ issue[l] * UnitPrice[l] \in Int /\ Quantity[l] * UnitPrice[l] \in Int
                        /\ issue[l] * UnitPrice[l] <= Quantity[l] * UnitPrice[l]
      BY <1>1
    <2>1. \A a, b, w \in Nat : a <= b => a * w <= b * w
      OBVIOUS
    <2>2. issue[l] \in Nat /\ Quantity[l] \in Nat /\ UnitPrice[l] \in Nat
          /\ issue[l] <= Quantity[l]
      BY <1>1, ReturnedTaken, WorthOfReturns
    <2> QED
      BY <2>1, <2>2, NatTimes
  <1>9. \A l \in lines : c[l] \in Nat
    BY <1>1, <1>3
  <1> HIDE DEF lines, c, p, cs, asked
  <1>10. SumFunction(cs) = SumFunctionOnSet(cs, lines)
    BY <1>7, SumWhole
  <1>11. SumFunctionOnSet(cs, lines) = SumFunctionOnSet(c, lines)
    BY <1>1, <1>7, SumSame
  <1>12. SumFunction(asked) = SumFunctionOnSet(asked, lines)
    BY <1>7, SumWhole
  <1>13. SumFunctionOnSet(p, lines) <= SumFunctionOnSet(asked, lines)
    BY <1>1, <1>8, SumMonotone
  <1>14. SumFunctionOnSet(c, lines) \in Nat
    BY <1>1, <1>9, SumNat
  <1>15. SumFunctionOnSet(p, lines) \in Int /\ SumFunctionOnSet(asked, lines) \in Int
    BY <1>1, <1>8, SumInt
  <1> QED
    BY <1>4, <1>5, <1>6, <1>10, <1>11, <1>12, <1>13, <1>14, <1>15, BackOfSale

(* No sale nets less than nothing. *)
LEMMA NetOfSale ==
  ASSUME GoodsInv, NEW s \in Sale
  PROVE  /\ NetRevenue(s) \in Nat /\ NetCogs(s) \in Nat
         /\ NetCogs(s) = CogsTotal(s) - CostReturned(s)
         /\ Undiscounted(s) => NetRevenue(s) = Total[s] - SellingReturned(s)
  <1>1. /\ Total[s] \in Nat /\ SellingReturned(s) \in Nat
        /\ CogsTotal(s) \in Nat /\ CostReturned(s) \in Nat
    BY BackOfSale, TakenBySale
  <1> QED
    BY <1>1, TakenBySale DEF NetRevenue, NetCogs, AtLeastZero

LEMMA SalesInFinite ==
  ASSUME NEW w
  PROVE  SalesIn(w) \subseteq Sale /\ IsFiniteSet(SalesIn(w))
  BY FiniteTables, FS_Subset DEF SalesIn

(* Every posted return is of one sale. *)
LEMMA BackInWindow ==
  ASSUME GoodsInv, NEW w
  PROVE  /\ SumOver(PnlReturns(w), SellingPrice)
              = SumFunctionOnSet([s \in Sale |-> SellingReturned(s)], SalesIn(w))
         /\ SumOver(PnlReturns(w), CostBack)
              = SumFunctionOnSet([s \in Sale |-> CostReturned(s)], SalesIn(w))
  <1> DEFINE S == PnlReturns(w)
             B == SalesIn(w)
             part == [s \in B |-> PostedReturns(s)]
             f == [x \in S |-> SellingPrice(x)]
             g == [x \in S |-> CostBack(x)]
             fs == [s \in Sale |-> SellingReturned(s)]
             gs == [s \in Sale |-> CostReturned(s)]
  <1>1. B \subseteq Sale /\ IsFiniteSet(B)
    BY SalesInFinite
  <1>2. S \subseteq Return /\ IsFiniteSet(S)
    <2>1. S \subseteq Return
      BY DEF PnlReturns, PostedReturns
    <2> QED
      BY <2>1, FiniteTables, FS_Subset
  <1>3. \A s \in B : part[s] \subseteq S
    BY DEF PnlReturns
  <1>4. \A x \in S : \E s \in B : x \in part[s] /\ \A t \in B : x \in part[t] => t = s
    BY DEF PnlReturns, PostedReturns
  <1>5. Sold \in [Return -> Nat] /\ Cost \in [Return -> Nat]
    BY WorthOfReturns, WorthNat DEF GoodsInv, DocInv
  <1>6. \A x \in S : Sold[x] \in Int /\ Cost[x] \in Int
    BY <1>2, <1>5
  <1>7. \A s \in B : /\ fs[s] = SumFunctionOnSet(Sold, part[s])
                     /\ gs[s] = SumFunctionOnSet(Cost, part[s])
    BY <1>1, BackOfSale
  <1>8. /\ SumOver(S, SellingPrice) = SumFunction(f) /\ DOMAIN f = S
        /\ SumOver(S, CostBack) = SumFunction(g) /\ DOMAIN g = S
    BY DEF SumOver
  <1>9. \A x \in S : f[x] = Sold[x] /\ g[x] = Cost[x]
    BY <1>2 DEF Sold, Cost
  <1> HIDE DEF S, B, part, f, g, fs, gs
  <1>10. /\ SumFunction(f) = SumFunctionOnSet(f, S)
         /\ SumFunction(g) = SumFunctionOnSet(g, S)
    BY <1>8, SumWhole
  <1>11. /\ SumFunctionOnSet(f, S) = SumFunctionOnSet(Sold, S)
         /\ SumFunctionOnSet(g, S) = SumFunctionOnSet(Cost, S)
    BY <1>2, <1>9, SumSame
  <1>12. SumFunctionOnSet(fs, B) = SumFunctionOnSet(Sold, S)
    <2>1. \A x \in S : Sold[x] \in Int
      BY <1>6
    <2>2. \A s \in B : part[s] \subseteq S /\ fs[s] = SumFunctionOnSet(Sold, part[s])
      BY <1>3, <1>7
    <2> QED
      BY ONLY <1>1, <1>2, <2>1, <2>2, <1>4, SumParts
  <1>13. SumFunctionOnSet(gs, B) = SumFunctionOnSet(Cost, S)
    <2>1. \A x \in S : Cost[x] \in Int
      BY <1>6
    <2>2. \A s \in B : part[s] \subseteq S /\ gs[s] = SumFunctionOnSet(Cost, part[s])
      BY <1>3, <1>7
    <2> QED
      BY ONLY <1>1, <1>2, <2>1, <2>2, <1>4, SumParts
  <1> QED
    BY <1>8, <1>10, <1>11, <1>12, <1>13 DEF S, B, fs, gs

(* What the sales of a set net, as functions of the sale. *)
Revenue == [s \in Sale |-> NetRevenue(s)]
Cogs == [s \in Sale |-> NetCogs(s)]

LEMMA NetNat ==
  ASSUME GoodsInv
  PROVE  Revenue \in [Sale -> Nat] /\ Cogs \in [Sale -> Nat]
  BY NetOfSale DEF Revenue, Cogs

(* A sum over sales. *)
LEMMA SumOfSales ==
  ASSUME NEW S, S \subseteq Sale, NEW f, DOMAIN f = S, NEW g, \A s \in S : f[s] = g[s]
  PROVE  SumFunction(f) = SumFunctionOnSet(g, S)
  <1>1. IsFiniteSet(S)
    BY FiniteTables, FS_Subset
  <1>2. SumFunction(f) = SumFunctionOnSet(f, S)
    BY SumWhole
  <1> QED
    BY <1>1, <1>2, SumSame

(* The figures of the sales report are sums of naturals. *)
LEMMA SalesReportSums ==
  ASSUME GoodsInv, NEW w
  PROVE  /\ SalesAggregates(w).revenue = SumFunctionOnSet(Revenue, SalesIn(w))
         /\ SalesAggregates(w).cogs = SumFunctionOnSet(Cogs, SalesIn(w))
         /\ SalesAggregates(w).sales_count = Cardinality(SalesIn(w))
         /\ SumFunctionOnSet(Revenue, SalesIn(w)) \in Nat
         /\ SumFunctionOnSet(Cogs, SalesIn(w)) \in Nat
  <1> DEFINE S == SalesIn(w)
             f == [s \in S |-> NetRevenue(s)]
             g == [s \in S |-> NetCogs(s)]
  <1>1. S \subseteq Sale /\ IsFiniteSet(S)
    BY SalesInFinite
  <1>2. SumOver(S, NetRevenue) = SumFunction(f) /\ SumOver(S, NetCogs) = SumFunction(g)
    BY DEF SumOver
  <1>3. /\ SalesAggregates(w).revenue = SumOver(S, NetRevenue)
        /\ SalesAggregates(w).cogs = SumOver(S, NetCogs)
        /\ SalesAggregates(w).sales_count = Cardinality(S)
    BY DEF SalesAggregates
  <1>4. /\ DOMAIN f = S /\ \A s \in S : f[s] = Revenue[s]
        /\ DOMAIN g = S /\ \A s \in S : g[s] = Cogs[s]
    BY <1>1 DEF Revenue, Cogs
  <1>5. (\A s \in S : Revenue[s] \in Nat) /\ (\A s \in S : Cogs[s] \in Nat)
    BY <1>1, NetNat
  <1> HIDE DEF S, f, g
  <1>6. /\ SumFunction(f) = SumFunctionOnSet(Revenue, S)
        /\ SumFunction(g) = SumFunctionOnSet(Cogs, S)
    BY <1>1, <1>4, SumOfSales
  <1>7. SumFunctionOnSet(Revenue, S) \in Nat /\ SumFunctionOnSet(Cogs, S) \in Nat
    BY <1>1, <1>5, SumNat
  <1> QED
    BY <1>2, <1>3, <1>6, <1>7 DEF S

(* Netted sale by sale or for the window as a whole, it is the same.        *)
LEMMA PnlAgrees ==
  ASSUME GoodsInv, NEW w, \A s \in SalesIn(w) : Undiscounted(s)
  PROVE  /\ PnlAggregates(w, NoOther).revenue = SalesAggregates(w).revenue
         /\ PnlAggregates(w, NoOther).cogs = SalesAggregates(w).cogs
  <1> DEFINE S == SalesIn(w)
             sold == [s \in Sale |-> SellingReturned(s)]
             cost == [s \in Sale |-> CostReturned(s)]
             taken == [s \in Sale |-> CogsTotal(s)]
             t == [s \in S |-> CogsTotal(s)]
  <1>1. S \subseteq Sale /\ IsFiniteSet(S)
    BY SalesInFinite
  <1>2. /\ SumOver(PnlReturns(w), SellingPrice) = SumFunctionOnSet(sold, S)
        /\ SumOver(PnlReturns(w), CostBack) = SumFunctionOnSet(cost, S)
    BY BackInWindow
  <1>3. \A s \in S : /\ Revenue[s] \in Int /\ sold[s] \in Int
                     /\ Total[s] = Revenue[s] + sold[s]
    <2> SUFFICES ASSUME NEW s \in S
                 PROVE  /\ NetRevenue(s) \in Int /\ SellingReturned(s) \in Int
                        /\ Total[s] = NetRevenue(s) + SellingReturned(s)
      BY <1>1 DEF Revenue
    <2> QED
      BY <1>1, NetOfSale, BackOfSale
  <1>4. \A s \in S : /\ Cogs[s] \in Int /\ cost[s] \in Int
                     /\ taken[s] = Cogs[s] + cost[s]
    <2> SUFFICES ASSUME NEW s \in S
                 PROVE  /\ NetCogs(s) \in Int /\ CostReturned(s) \in Int
                        /\ CogsTotal(s) = NetCogs(s) + CostReturned(s)
      BY <1>1 DEF Cogs
    <2> QED
      BY <1>1, NetOfSale, BackOfSale, TakenBySale
  <1>5. SumOver(S, CogsTotal) = SumFunction(t)
    BY DEF SumOver
  <1>6. DOMAIN t = S /\ \A s \in S : t[s] = taken[s]
    BY <1>1
  <1>7. /\ PnlAggregates(w, NoOther).revenue
             = AtLeastZero(SumFunctionOnSet(Total, S) - SumOver(PnlReturns(w), SellingPrice))
        /\ PnlAggregates(w, NoOther).cogs
             = AtLeastZero(SumOver(S, CogsTotal) - SumOver(PnlReturns(w), CostBack))
    BY DEF PnlAggregates
  <1> HIDE DEF S, sold, cost, taken, t
  <1>8. SumFunctionOnSet(Total, S) = SumFunctionOnSet(Revenue, S) + SumFunctionOnSet(sold, S)
    BY <1>1, <1>3, SumOfSums
  <1>9. SumFunction(t) = SumFunctionOnSet(taken, S)
    BY <1>1, <1>6, SumOfSales
  <1>10. SumFunctionOnSet(taken, S) = SumFunctionOnSet(Cogs, S) + SumFunctionOnSet(cost, S)
    BY <1>1, <1>4, SumOfSums
  <1>11. SumFunctionOnSet(sold, S) \in Int /\ SumFunctionOnSet(cost, S) \in Int
    BY <1>1, <1>3, <1>4, SumInt
  <1>12. /\ SumFunctionOnSet(Revenue, S) \in Nat /\ SumFunctionOnSet(Cogs, S) \in Nat
         /\ SalesAggregates(w).revenue = SumFunctionOnSet(Revenue, S)
         /\ SalesAggregates(w).cogs = SumFunctionOnSet(Cogs, S)
    BY SalesReportSums DEF S
  <1>13. SumFunctionOnSet(Total, S) - SumOver(PnlReturns(w), SellingPrice)
             = SumFunctionOnSet(Revenue, S)
    BY <1>2, <1>8, <1>11, <1>12
  <1>14. SumOver(S, CogsTotal) - SumOver(PnlReturns(w), CostBack)
             = SumFunctionOnSet(Cogs, S)
    BY <1>2, <1>5, <1>9, <1>10, <1>11, <1>12
  <1>15. \A n \in Nat : AtLeastZero(n) = n
    BY DEF AtLeastZero
  <1> QED
    BY <1>7, <1>12, <1>13, <1>14, <1>15

(* Every sale of the window is in one bucket of the chart. *)
AddsUp(trend, sales) ==
    /\ SumOver(DOMAIN trend, LAMBDA b : trend[b].revenue) = sales.revenue
    /\ SumOver(DOMAIN trend, LAMBDA b : trend[b].sales_count) = sales.sales_count

LEMMA TrendAgrees ==
  ASSUME GoodsInv, NEW w, NEW bucket
  PROVE  AddsUp(SalesTrend(w, bucket), SalesAggregates(w))
  <1> DEFINE trend == SalesTrend(w, bucket)
             S == SalesIn(w)
             key == [s \in Sale |-> Around(bucket, SaleDate[s]).from]
             B == {key[s] : s \in S}
             part == [b \in B |-> {s \in S : key[s] = b}]
             ones == [s \in Sale |-> 1]
             f == [b \in B |-> trend[b].revenue]
             g == [b \in B |-> trend[b].sales_count]
  <1>1. S \subseteq Sale /\ IsFiniteSet(S)
    BY SalesInFinite
  <1>2. IsFiniteSet(B)
    <2> DEFINE onto == [s \in S |-> key[s]]
    <2>1. onto \in Surjection(S, B)
      BY DEF Surjection
    <2> HIDE DEF onto, key, S, B
    <2> QED
      BY <1>1, <2>1, FS_Surjection
  <1>3. /\ \A b \in B : part[b] \subseteq S
        /\ \A s \in S : \E b \in B : s \in part[b] /\ \A c \in B : s \in part[c] => c = b
    <2> HIDE DEF key, S
    <2> QED
      OBVIOUS
  <1>4. /\ DOMAIN trend = B
        /\ \A b \in B : /\ trend[b].revenue = SumOver(part[b], NetRevenue)
                        /\ trend[b].sales_count = Cardinality(part[b])
    <2>1. B = {Around(bucket, SaleDate[s]).from : s \in S}
      BY <1>1
    <2>2. \A b \in B : part[b] = {s \in S : Around(bucket, SaleDate[s]).from = b}
      BY <1>1
    <2>3. trend = [b \in B |->
                      [revenue |-> SumOver({s \in S : Around(bucket, SaleDate[s]).from = b},
                                           NetRevenue),
                       sales_count |-> Cardinality({s \in S : Around(bucket, SaleDate[s]).from = b})]]
      BY <2>1 DEF SalesTrend
    <2> HIDE DEF B, S, part, trend
    <2> QED
      BY <2>2, <2>3
  <1>5. /\ SumOver(DOMAIN trend, LAMBDA b : trend[b].revenue) = SumFunction(f)
        /\ SumOver(DOMAIN trend, LAMBDA b : trend[b].sales_count) = SumFunction(g)
    <2> HIDE DEF B, trend
    <2> QED
      BY <1>4 DEF SumOver
  <1>6. \A s \in S : Revenue[s] \in Int
    BY <1>1, NetNat
  <1>7. (\A s \in S : ones[s] \in Int) /\ (\A s \in S : ones[s] = 1)
    BY <1>1
  <1>8. \A b \in B : /\ f[b] = SumFunctionOnSet(Revenue, part[b])
                     /\ g[b] = SumFunctionOnSet(ones, part[b])
    <2> SUFFICES ASSUME NEW b \in B
                 PROVE  /\ trend[b].revenue = SumFunctionOnSet(Revenue, part[b])
                        /\ trend[b].sales_count = SumFunctionOnSet(ones, part[b])
      OBVIOUS
    <2> DEFINE p == part[b]
               h == [s \in p |-> NetRevenue(s)]
    <2>1. p \subseteq S /\ p \subseteq Sale /\ IsFiniteSet(p)
      BY <1>1, <1>3, FS_Subset
    <2>2. \A s \in p : ones[s] = 1
      BY <1>7, <2>1
    <2>3. SumOver(p, NetRevenue) = SumFunction(h)
      BY DEF SumOver
    <2>4. DOMAIN h = p /\ \A s \in p : h[s] = Revenue[s]
      BY <2>1 DEF Revenue
    <2>5. trend[b].revenue = SumOver(p, NetRevenue) /\ trend[b].sales_count = Cardinality(p)
      BY <1>4
    <2> HIDE DEF p, h, ones, trend
    <2>6. SumFunction(h) = SumFunctionOnSet(Revenue, p)
      BY <2>1, <2>4, SumOfSales
    <2>7. SumFunctionOnSet(ones, p) = Cardinality(p)
      BY <2>1, <2>2, SumOnes
    <2> QED
      BY <2>3, <2>5, <2>6, <2>7 DEF p
  <1>9. DOMAIN f = B /\ DOMAIN g = B
    OBVIOUS
  <1> HIDE DEF trend, S, key, B, part, ones, f, g
  <1>10. SumFunction(f) = SumFunctionOnSet(f, B) /\ SumFunction(g) = SumFunctionOnSet(g, B)
    BY <1>9, SumWhole
  <1>11. SumFunctionOnSet(f, B) = SumFunctionOnSet(Revenue, S)
    <2>1. \A b \in B : part[b] \subseteq S /\ f[b] = SumFunctionOnSet(Revenue, part[b])
      BY <1>3, <1>8
    <2>2. \A s \in S : \E b \in B : s \in part[b] /\ \A c \in B : s \in part[c] => c = b
      BY <1>3
    <2> QED
      BY ONLY <1>1, <1>2, <1>6, <2>1, <2>2, SumParts
  <1>12. SumFunctionOnSet(g, B) = SumFunctionOnSet(ones, S)
    <2>1. \A b \in B : part[b] \subseteq S /\ g[b] = SumFunctionOnSet(ones, part[b])
      BY <1>3, <1>8
    <2>2. \A s \in S : \E b \in B : s \in part[b] /\ \A c \in B : s \in part[c] => c = b
      BY <1>3
    <2>3. \A s \in S : ones[s] \in Int
      BY <1>7
    <2> QED
      BY ONLY <1>1, <1>2, <2>1, <2>2, <2>3, SumParts
  <1>13. SumFunctionOnSet(ones, S) = Cardinality(S)
    BY <1>1, <1>7, SumOnes
  <1>14. /\ SalesAggregates(w).revenue = SumFunctionOnSet(Revenue, S)
         /\ SalesAggregates(w).sales_count = Cardinality(S)
    BY SalesReportSums DEF S
  <1> QED
    BY <1>5, <1>10, <1>11, <1>12, <1>13, <1>14 DEF trend, AddsUp

LEMMA GoodsReportsAgree == GoodsInv => ReportsAgree
  <1> SUFFICES ASSUME GoodsInv, NEW w \in CustomWindows,
                      \A s \in SalesIn(w) : Undiscounted(s)
               PROVE  /\ PnlAggregates(w, NoOther).revenue = SalesAggregates(w).revenue
                      /\ PnlAggregates(w, NoOther).cogs = SalesAggregates(w).cogs
                      /\ AddsUp(SalesTrend(w, Bucket(w)), SalesAggregates(w))
    BY DEF ReportsAgree, AddsUp
  <1>1. AddsUp(SalesTrend(w, Bucket(w)), SalesAggregates(w))
    BY TrendAgrees
  <1> QED
    BY <1>1, PnlAgrees

-----------------------------------------------------------------------------
(* The calendar.  Days, weeks and years follow each other without gap or    *)
(* overlap: a time is in one window of each, so the reports of the windows  *)
(* add up.                                                                  *)

(* Every sale is dated within the finite horizon, and a year has started    *)
(* and another one follows at each of its times.                            *)
CalendarCovers ==
    /\ Horizon \subseteq Nat /\ IsFiniteSet(Horizon)
    /\ \A s \in Sale : SaleDate[s] \in Horizon
    /\ \A t \in Horizon : \E y, z \in YearStarts : Midnight(y) <= t /\ t < Midnight(z)

LEMMA DayBounds ==
  ASSUME NEW t \in Nat
  PROVE  Day(t) \in Nat /\ Midnight(Day(t)) <= t /\ t < Midnight(Day(t) + 1)
  BY ClockAssumption DEF Day, Midnight

LEMMA MidnightMonotone ==
  /\ \A d \in Int : Midnight(d) \in Int
  /\ \A d, e \in Int : d <= e <=> Midnight(d) <= Midnight(e)
  <1>1. \A d, e, n \in Int : n > 0 => (d <= e <=> d * n <= e * n)
    OBVIOUS
  <1> QED
    BY <1>1, ClockAssumption DEF Midnight

(* A time is at or after the start of a day iff its own day is not earlier. *)
LEMMA DayAfter ==
  ASSUME NEW t \in Nat, NEW d \in Int
  PROVE  Midnight(d) <= t <=> d <= Day(t)
  <1>1. Day(t) \in Nat /\ Midnight(Day(t)) <= t /\ t < Midnight(Day(t) + 1)
    BY DayBounds
  <1>2. /\ Midnight(d) \in Int /\ Midnight(Day(t)) \in Int /\ Midnight(Day(t) + 1) \in Int
        /\ d <= Day(t) <=> Midnight(d) <= Midnight(Day(t))
        /\ Day(t) + 1 <= d <=> Midnight(Day(t) + 1) <= Midnight(d)
    BY <1>1, MidnightMonotone
  <1> QED
    BY <1>1, <1>2

LEMMA DayWindows ==
  ASSUME NEW t \in Nat, NEW u \in Nat
  PROVE  /\ Within(t, Around("today", t))
         /\ Within(t, Around("today", u)) => Around("today", u) = Around("today", t)
  <1>1. \A v \in Nat : Around("today", v) = [from |-> Midnight(Day(v)),
                                             to |-> Midnight(Day(v) + 1) - 1]
    BY DEF Around, StartOfDay, EndOfDay
  <1>2. /\ Day(t) \in Nat /\ Day(u) \in Nat
        /\ Midnight(Day(t) + 1) \in Int /\ Midnight(Day(u) + 1) \in Int
        /\ Midnight(Day(t)) <= t /\ t < Midnight(Day(t) + 1)
    BY DayBounds, MidnightMonotone
  <1>3. Within(t, Around("today", t))
    BY <1>1, <1>2 DEF Within
  <1>4. ASSUME Within(t, Around("today", u)) PROVE Day(t) = Day(u)
    <2>1. Midnight(Day(u)) <= t /\ t < Midnight(Day(u) + 1)
      BY <1>1, <1>2, <1>4 DEF Within
    <2>2. Day(u) <= Day(t) /\ ~(Day(u) + 1 <= Day(t))
      BY <1>2, <2>1, DayAfter
    <2> QED
      BY <1>2, <2>2
  <1> QED
    BY <1>1, <1>3, <1>4

LEMMA WeekWindows ==
  ASSUME NEW t \in Nat, NEW u \in Nat
  PROVE  /\ Within(t, Around("this_week", t))
         /\ Within(t, Around("this_week", u)) => Around("this_week", u) = Around("this_week", t)
  <1> DEFINE first(v) == Day(v) - (Day(v) % 7)
  <1>1. \A v \in Nat : /\ Day(v) \in Nat /\ first(v) \in Nat
                       /\ first(v) % 7 = 0 /\ first(v) <= Day(v) /\ Day(v) < first(v) + 7
    BY DayBounds
  <1>2. \A v \in Nat : Midnight(first(v)) \in Int /\ Midnight(first(v) + 7) \in Int
    BY <1>1, MidnightMonotone
  <1>3. ASSUME NEW v \in Nat
        PROVE  Around("this_week", v) = [from |-> Midnight(first(v)),
                                         to |-> Midnight(first(v) + 7) - 1]
    <2>1. Around("this_week", v) = [from |-> Midnight(first(v)),
                                    to |-> Midnight(first(v)) + 7 * TicksPerDay - 1]
      BY DEF Around, StartOfWeek, EndOfWeek
    <2>2. \A d \in Int : Midnight(d) + 7 * TicksPerDay = Midnight(d + 7)
      BY ClockAssumption DEF Midnight
    <2>3. Midnight(first(v)) + 7 * TicksPerDay = Midnight(first(v) + 7)
      BY <1>1, <2>2
    <2> HIDE DEF first
    <2> QED
      BY <1>2, <2>1, <2>3, ClockAssumption
  <1> HIDE DEF first
  <1>4. \A v \in Nat : Within(t, Around("this_week", v))
                          <=> Midnight(first(v)) <= t /\ ~(Midnight(first(v) + 7) <= t)
    <2> SUFFICES ASSUME NEW v \in Nat
                 PROVE  Within(t, Around("this_week", v))
                          <=> Midnight(first(v)) <= t /\ ~(Midnight(first(v) + 7) <= t)
      OBVIOUS
    <2>1. PICK w : w = Around("this_week", v)
      OBVIOUS
    <2>2. w.from = Midnight(first(v)) /\ w.to = Midnight(first(v) + 7) - 1
      BY <1>3, <2>1
    <2>3. Within(t, w) <=> Midnight(first(v)) <= t /\ t <= Midnight(first(v) + 7) - 1
      BY <2>2 DEF Within
    <2>4. Midnight(first(v) + 7) \in Int
      BY <1>2
    <2>5. t <= Midnight(first(v) + 7) - 1 <=> ~(Midnight(first(v) + 7) <= t)
      BY <2>4
    <2> QED
      BY <2>1, <2>3, <2>5
  <1>5. \A v \in Nat : Within(t, Around("this_week", v))
                          <=> first(v) <= Day(t) /\ Day(t) < first(v) + 7
    <2> SUFFICES ASSUME NEW v \in Nat
                 PROVE  /\ Midnight(first(v)) <= t <=> first(v) <= Day(t)
                        /\ Midnight(first(v) + 7) <= t <=> first(v) + 7 <= Day(t)
      BY <1>1, <1>4
    <2>1. PICK d \in Int : d = first(v)
      BY <1>1
    <2>2. Midnight(d) <= t <=> d <= Day(t)
      BY DayAfter
    <2>3. PICK e \in Int : e = d + 7
      OBVIOUS
    <2>4. Midnight(e) <= t <=> e <= Day(t)
      BY DayAfter
    <2> QED
      BY <2>1, <2>2, <2>3, <2>4
  <1>6. Within(t, Around("this_week", t))
    BY <1>1, <1>5
  <1>7. ASSUME Within(t, Around("this_week", u)) PROVE first(t) = first(u)
    <2>1. first(u) <= Day(t) /\ Day(t) < first(u) + 7
      BY <1>5, <1>7
    <2>2. first(t) < first(u) + 7 /\ first(u) < first(t) + 7
      BY <1>1, <2>1
    <2>3. \A a, b \in Nat : a % 7 = 0 /\ b % 7 = 0 /\ a < b + 7 /\ b < a + 7 => a = b
      OBVIOUS
    <2> QED
      BY <1>1, <2>2, <2>3
  <1> QED
    BY <1>3, <1>6, <1>7

(* The year that a day is in. *)
YearOf(t, a, b) ==
    /\ a \in YearStarts /\ a <= Day(t) /\ \A y \in YearStarts : y <= Day(t) => y <= a
    /\ b \in YearStarts /\ Day(t) < b /\ \A y \in YearStarts : Day(t) < y => b <= y

LEMMA YearFound ==
  ASSUME CalendarCovers, NEW t \in Horizon
  PROVE  /\ YearOf(t, StartIn(YearStarts, Day(t)), StartAfter(YearStarts, Day(t)))
         /\ YearStarts \subseteq Nat /\ t \in Nat /\ Day(t) \in Nat
  <1> DEFINE past == {y \in YearStarts : y <= Day(t)}
             next == {y \in YearStarts : y > Day(t)}
  <1>1. YearStarts \subseteq Nat /\ t \in Nat
    BY CalendarAssumption DEF CalendarCovers
  <1>2. Day(t) \in Nat
    BY <1>1, DayBounds
  <1>3. PICK y \in YearStarts, z \in YearStarts : Midnight(y) <= t /\ t < Midnight(z)
    BY DEF CalendarCovers
  <1>4. y <= Day(t) /\ Day(t) < z
    <2>1. y \in Int /\ z \in Int /\ Midnight(z) \in Int
      BY <1>1, MidnightMonotone
    <2>2. (Midnight(y) <= t <=> y <= Day(t)) /\ (Midnight(z) <= t <=> z <= Day(t))
      BY <1>1, <2>1, DayAfter
    <2> QED
      BY <1>1, <1>2, <1>3, <2>1, <2>2
  <1>5. past \subseteq Int /\ past # {} /\ next \subseteq Nat /\ next # {}
    <2>1. y \in past /\ z \in next
      BY <1>3, <1>4
    <2>2. \A x \in YearStarts : x \in Nat /\ x \in Int
      BY <1>1
    <2>3. past \subseteq Int /\ next \subseteq Nat
      BY <2>2
    <2> QED
      BY <2>1, <2>3
  <1>6. past \in SUBSET Nat /\ \A x \in past : x <= Day(t)
    BY <1>1
  <1>7. IsFiniteSet(past)
    <2> HIDE DEF past
    <2> QED
      BY <1>2, <1>6, FS_BoundedSetOfNaturals
  <1>8. Max(past) \in past /\ \A x \in past : Max(past) >= x
    <2> HIDE DEF past
    <2> QED
      BY <1>5, <1>7, GreatestOf
  <1>9. Min(next) \in next /\ \A x \in next : Min(next) <= x
    <2> HIDE DEF next
    <2> QED
      BY <1>5, LeastOf
  <1>10. StartIn(YearStarts, Day(t)) = Max(past) /\ StartAfter(YearStarts, Day(t)) = Min(next)
    BY DEF StartIn, StartAfter
  <1>11. YearOf(t, Max(past), Min(next))
    <2>1. Max(past) \in YearStarts /\ Max(past) <= Day(t)
      BY <1>8
    <2>2. Min(next) \in YearStarts /\ Day(t) < Min(next)
      BY <1>9, <1>1, <1>2
    <2>3. \A x \in YearStarts : x <= Day(t) => x <= Max(past)
      BY <1>1, <1>8, <2>1
    <2>4. \A x \in YearStarts : Day(t) < x => Min(next) <= x
      BY <1>1, <1>2, <1>9
    <2> QED
      BY <2>1, <2>2, <2>3, <2>4 DEF YearOf
  <1> QED
    BY <1>1, <1>2, <1>10, <1>11

LEMMA YearWindows ==
  ASSUME CalendarCovers, NEW t \in Horizon, NEW u \in Horizon
  PROVE  /\ Within(t, Around("this_year", t))
         /\ Within(t, Around("this_year", u)) => Around("this_year", u) = Around("this_year", t)
  <1> DEFINE first(v) == StartIn(YearStarts, Day(v))
             after(v) == StartAfter(YearStarts, Day(v))
  <1>1. ASSUME NEW v \in Horizon
        PROVE  /\ YearOf(v, first(v), after(v)) /\ v \in Nat /\ Day(v) \in Nat
               /\ first(v) \in Nat /\ after(v) \in Nat
    <2>1. YearOf(v, first(v), after(v)) /\ v \in Nat /\ Day(v) \in Nat /\ YearStarts \subseteq Nat
      BY YearFound
    <2> QED
      BY <2>1 DEF YearOf
  <1>2. \A v \in Horizon : Around("this_year", v) = [from |-> Midnight(first(v)),
                                                     to |-> Midnight(after(v)) - 1]
    BY DEF Around, StartOfYear, EndOfYear
  <1> HIDE DEF first, after
  <1>3. ASSUME NEW v \in Horizon
        PROVE  Within(t, Around("this_year", v)) <=> first(v) <= Day(t) /\ Day(t) < after(v)
    <2>1. PICK w : w = Around("this_year", v)
      OBVIOUS
    <2>2. w.from = Midnight(first(v)) /\ w.to = Midnight(after(v)) - 1
      BY <1>2, <2>1
    <2>3. Within(t, w) <=> Midnight(first(v)) <= t /\ t <= Midnight(after(v)) - 1
      BY <2>2 DEF Within
    <2>4. Midnight(after(v)) \in Int /\ t \in Nat /\ Day(t) \in Nat /\ after(v) \in Int
      BY <1>1, MidnightMonotone
    <2>5. t <= Midnight(after(v)) - 1 <=> ~(Midnight(after(v)) <= t)
      BY <2>4
    <2>6. /\ Midnight(first(v)) <= t <=> first(v) <= Day(t)
          /\ Midnight(after(v)) <= t <=> after(v) <= Day(t)
      BY <1>1, DayAfter
    <2> QED
      BY <2>1, <2>3, <2>4, <2>5, <2>6
  <1>4. Within(t, Around("this_year", t))
    BY <1>1, <1>3 DEF YearOf
  <1>5. ASSUME Within(t, Around("this_year", u)) PROVE first(u) = first(t) /\ after(u) = after(t)
    <2>1. first(u) <= Day(t) /\ Day(t) < after(u)
      BY <1>3, <1>5
    <2>2. YearStarts \subseteq Nat
      BY CalendarAssumption
    <2> QED
      BY <1>1, <2>1, <2>2 DEF YearOf
  <1> QED
    BY <1>2, <1>4, <1>5

(* The windows of an alias part the sales of all time. *)
WholeHistory(windows) ==
    SumOver(windows, LAMBDA w : SalesAggregates(w).revenue) = SalesAggregates(AllTime).revenue

LEMMA WindowsAddUp ==
  ASSUME GoodsInv, CalendarCovers, NEW alias,
         \A t \in Horizon : Within(t, Around(alias, t)),
         \A t, u \in Horizon : Within(t, Around(alias, u)) => Around(alias, u) = Around(alias, t)
  PROVE  WholeHistory({Around(alias, t) : t \in Horizon})
  <1> DEFINE B == {Around(alias, t) : t \in Horizon}
             S == SalesIn(AllTime)
             part == [w \in B |-> SalesIn(w)]
             f == [w \in B |-> SalesAggregates(w).revenue]
  <1>1. S \subseteq Sale /\ IsFiniteSet(S)
    BY SalesInFinite
  <1>2. Horizon \subseteq Nat /\ IsFiniteSet(Horizon) /\ \A s \in Sale : SaleDate[s] \in Horizon
    BY DEF CalendarCovers
  <1>3. IsFiniteSet(B)
    <2> DEFINE onto == [t \in Horizon |-> Around(alias, t)]
    <2>1. onto \in Surjection(Horizon, B)
      BY DEF Surjection
    <2> HIDE DEF onto, B
    <2> QED
      BY <1>2, <2>1, FS_Surjection
  <1>4. \A w \in B : SalesIn(w) \subseteq S
    <2> SUFFICES ASSUME NEW s \in Sale PROVE Within(SaleDate[s], AllTime)
      BY DEF SalesIn
    <2>1. SaleDate[s] \in Horizon /\ SaleDate[s] \in Nat
      BY <1>2
    <2>2. Horizon \subseteq Int /\ Horizon # {}
      BY <1>2, <2>1
    <2>3. Max(Horizon) \in Horizon /\ \A y \in Horizon : Max(Horizon) >= y
      BY <1>2, <2>2, GreatestOf
    <2> QED
      BY <1>2, <2>1, <2>3 DEF Within, AllTime
  <1>5. \A s \in S : \E w \in B : s \in part[w] /\ \A v \in B : s \in part[v] => v = w
    <2> SUFFICES ASSUME NEW s \in S
                 PROVE  \E w \in B : s \in part[w] /\ \A v \in B : s \in part[v] => v = w
      OBVIOUS
    <2>1. SaleDate[s] \in Horizon /\ Reported(s) /\ s \in Sale
      BY <1>1, <1>2 DEF SalesIn
    <2> DEFINE w == Around(alias, SaleDate[s])
    <2>2. w \in B /\ s \in part[w]
      BY <2>1 DEF SalesIn
    <2>3. \A v \in B : s \in part[v] => v = w
      BY <2>1 DEF SalesIn
    <2> QED
      BY <2>2, <2>3
  <1>6. \A w \in B : part[w] \subseteq S /\ f[w] = SumFunctionOnSet(Revenue, part[w])
    <2> SUFFICES ASSUME NEW w \in B
                 PROVE  SalesAggregates(w).revenue = SumFunctionOnSet(Revenue, SalesIn(w))
      BY <1>4
    <2> QED
      BY SalesReportSums
  <1>7. SumOver(B, LAMBDA w : SalesAggregates(w).revenue) = SumFunction(f) /\ DOMAIN f = B
    BY DEF SumOver
  <1>8. \A s \in S : Revenue[s] \in Int
    BY <1>1, NetNat
  <1>9. SalesAggregates(AllTime).revenue = SumFunctionOnSet(Revenue, S)
    BY SalesReportSums
  <1> HIDE DEF S, part, f
  <1>10. SumFunction(f) = SumFunctionOnSet(f, B)
    <2> HIDE DEF B
    <2> QED
      BY <1>7, SumWhole
  <1>11. SumFunctionOnSet(f, B) = SumFunctionOnSet(Revenue, S)
    <2> HIDE DEF B
    <2> QED
      BY ONLY <1>1, <1>3, <1>5, <1>6, <1>8, SumParts
  <1> QED
    BY <1>7, <1>9, <1>10, <1>11 DEF WholeHistory

LEMMA GoodsPeriodsAddUp == GoodsInv /\ CalendarCovers => PeriodsAddUp
  <1> SUFFICES ASSUME GoodsInv, CalendarCovers,
                      NEW alias \in {"today", "this_week", "this_year"}
               PROVE  WholeHistory(WindowsOf[alias])
    BY DEF PeriodsAddUp, WholeHistory
  <1>1. WindowsOf[alias] = {Around(alias, t) : t \in Horizon}
    BY DEF WindowsOf, Alias
  <1>2. Horizon \subseteq Nat
    BY DEF CalendarCovers
  <1>3. /\ \A t \in Horizon : Within(t, Around(alias, t))
        /\ \A t, u \in Horizon :
              Within(t, Around(alias, u)) => Around(alias, u) = Around(alias, t)
    <2>1. CASE alias = "today"
      BY <1>2, <2>1, DayWindows
    <2>2. CASE alias = "this_week"
      BY <1>2, <2>2, WeekWindows
    <2>3. CASE alias = "this_year"
      BY <2>3, YearWindows
    <2> QED
      BY <2>1, <2>2, <2>3
  <1>4. WholeHistory({Around(alias, t) : t \in Horizon})
    BY <1>3, WindowsAddUp
  <1> QED
    BY <1>1, <1>4

-----------------------------------------------------------------------------
(* Interleaved requests *)

Holds(r, s) == txn[r].op \in LocksSale /\ txn[r].sale = s
HoldsReturn(r, x) == txn[r].op \in {"return", "cancelReturn"} /\ txn[r].ret = x

LocksExclusive ==
    \A r1, r2 \in Request : r1 # r2 =>
        /\ \A s \in Sale : ~(Holds(r1, s) /\ Holds(r2, s))
        /\ \A x \in Return : ~(HoldsReturn(r1, x) /\ HoldsReturn(r2, x))

RequestInv ==
    /\ TypeOK
    /\ DocInv
    /\ LocksExclusive
    /\ DecisionsStayValid

(* A transaction's record has the fields of its operation. *)
LEMMA TxnFields ==
  ASSUME TypeOK, NEW r \in Request
  PROVE  /\ txn[r].op \in LocksSale \cup {"idle", "cancelReturn"}
         /\ txn[r].op \in LocksSale => txn[r].sale \in Sale
         /\ txn[r].op \in {"pay", "refund"} => txn[r].amount \in Amount
         /\ txn[r].op \in {"return", "cancelReturn"} => txn[r].ret \in Return
         /\ txn[r].op = "return" => txn[r].qty \in Asked
  <1>1. txn[r] \in Txn
    BY DEF TypeOK
  <1> QED
    BY <1>1 DEF Txn, Idle, LocksSale

(* Two open transactions hold different sales and different returns. *)
LEMMA OtherLocks ==
  ASSUME TypeOK, LocksExclusive, NEW r \in Request, NEW o \in Request, o # r
  PROVE  /\ txn[r].op \in LocksSale /\ txn[o].op \in LocksSale => txn[o].sale # txn[r].sale
         /\ txn[r].op \in {"return", "cancelReturn"} /\ txn[o].op \in {"return", "cancelReturn"}
               => txn[o].ret # txn[r].ret
  BY TxnFields DEF LocksExclusive, Holds, HoldsReturn

(* Ending a transaction frees its rows. *)
LEMMA FinishKeepsLocks ==
  ASSUME TypeOK, LocksExclusive, NEW r \in Request, Finish(r)
  PROVE  /\ txn' \in [Request -> Txn]
         /\ LocksExclusive'
  <1>1. txn' \in [Request -> Txn] /\ txn'[r].op = "idle"
    BY DEF TypeOK, Finish, Txn, Idle
  <1>2. \A o \in Request : o # r => txn'[o] = txn[o]
    BY DEF TypeOK, Finish
  <1>3. LocksExclusive'
    BY <1>1, <1>2 DEF LocksExclusive, Holds, HoldsReturn, LocksSale
  <1> QED
    BY <1>1, <1>3

(* The decision of a transaction on a sale survives what is committed for   *)
(* another sale, as long as that leaves the lines of its sale alone.        *)
LEMMA OtherSaleKept ==
  ASSUME NEW o \in Request, TypeOK, NamesOwnLines, InFlight(o), txn'[o] = txn[o],
         txn[o].op \in LocksSale,
         status'[txn[o].sale] = status[txn[o].sale],
         paid'[txn[o].sale] = paid[txn[o].sale],
         refunded'[txn[o].sale] = refunded[txn[o].sale],
         HasActiveReturn(txn[o].sale)' => HasActiveReturn(txn[o].sale),
         txn[o].op = "return" => retState'[txn[o].ret] = retState[txn[o].ret],
         \A l \in LinesOf(txn[o].sale) :
            /\ issue'[l] = issue[l]
            /\ reversal'[l] = reversal[l]
            /\ Returned(l)' = Returned(l)
  PROVE  InFlight(o)'
  <1> DEFINE s == txn[o].sale
  <1>1. s \in Sale /\ txn[o].op # "cancelReturn"
    BY TxnFields DEF LocksSale
  <1>2. (txn[o].op = "post" => CanPost(s))'
    BY DEF InFlight, CanPost, LinesOf
  <1>3. (txn[o].op = "pay" => CanPay(s, txn[o].amount))'
    BY DEF InFlight, CanPay, Settles, MayBecome, Transition
  <1>4. (txn[o].op = "refund" => CanRefund(s, txn[o].amount))'
    BY DEF InFlight, CanRefund
  <1>5. (txn[o].op = "cancel" => CanCancel(s))'
    BY ListedLines, <1>1 DEF InFlight, CanCancel
  <1>6. (txn[o].op = "return" => CanReturn(s, txn[o].ret, txn[o].qty))'
    BY <1>1 DEF InFlight, CanReturn, NamesOwnLines
  <1> QED
    BY <1>1, <1>2, <1>3, <1>4, <1>5, <1>6 DEF InFlight

(* The decision to cancel a return survives what leaves that return alone. *)
LEMMA OtherReturnKept ==
  ASSUME NEW o \in Request, InFlight(o), txn'[o] = txn[o],
         txn[o].op = "cancelReturn",
         retState'[txn[o].ret] = retState[txn[o].ret],
         retQty'[txn[o].ret] = retQty[txn[o].ret],
         unrestock'[txn[o].ret] = unrestock[txn[o].ret]
  PROVE  InFlight(o)'
  BY DEF InFlight, CanCancelReturn

(* Sums over the same return lines are equal. *)
LEMMA ReturnedKept ==
  ASSUME NEW l \in Line, \A x \in Return : retQty'[x][l] = retQty[x][l]
  PROVE  Returned(l)' = Returned(l)
  <1>1. [x \in Return |-> retQty'[x][l]] = [x \in Return |-> retQty[x][l]]
    OBVIOUS
  <1> QED
    BY <1>1 DEF Returned

(* A decision on rows that did not change still holds. *)
LEMMA UnchangedKept ==
  ASSUME NEW o \in Request, InFlight(o), txn'[o] = txn[o], UNCHANGED docVars
  PROVE  InFlight(o)'
  <1>1. (txn[o].op = "post" => CanPost(txn[o].sale))'
    BY DEF InFlight, CanPost, docVars
  <1>2. (txn[o].op = "pay" => CanPay(txn[o].sale, txn[o].amount))'
    BY DEF InFlight, CanPay, Settles, docVars
  <1>3. (txn[o].op = "refund" => CanRefund(txn[o].sale, txn[o].amount))'
    BY DEF InFlight, CanRefund, docVars
  <1>4. (txn[o].op = "cancel" => CanCancel(txn[o].sale))'
    BY DEF InFlight, CanCancel, HasActiveReturn, docVars
  <1>5. (txn[o].op = "return" => CanReturn(txn[o].sale, txn[o].ret, txn[o].qty))'
    BY DEF InFlight, CanReturn, Returned, docVars
  <1>6. (txn[o].op = "cancelReturn" => CanCancelReturn(txn[o].ret))'
    BY DEF InFlight, CanCancelReturn, docVars
  <1> QED
    BY <1>1, <1>2, <1>3, <1>4, <1>5, <1>6 DEF InFlight

(* Opening a transaction on free rows, with a decision that holds. *)
LEMMA StartKeepsRequestInv ==
  ASSUME NEW r \in Request, NEW t \in Txn, RequestInv, Start(r, t),
         t.op \in LocksSale => SaleIsFree(t.sale),
         t.op \in {"return", "cancelReturn"} => ReturnIsFree(t.ret),
         InFlight(r)'
  PROVE  RequestInv' /\ UNCHANGED docVars
  <1>1. /\ txn' \in [Request -> Txn]
        /\ txn'[r] = t
        /\ \A o \in Request : o # r => txn'[o] = txn[o]
        /\ UNCHANGED docVars
        /\ UNCHANGED cash
    BY DEF RequestInv, TypeOK, Start
  <1>2. DocInv' /\ TypeOK'
    <2>1. DocInv /\ [DocNext]_docVars
      BY <1>1 DEF RequestInv
    <2>2. DocInv'
      BY <2>1, NextKeepsDocInv
    <2> QED
      BY <1>1, <2>2 DEF RequestInv, TypeOK, DocInv
  <1>3. LocksExclusive'
    <2>1. \A o \in Request, s \in Sale : o # r => ~(Holds(o, s)' /\ Holds(r, s)')
      BY <1>1 DEF Holds, SaleIsFree
    <2>2. \A o \in Request, x \in Return : o # r => ~(HoldsReturn(o, x)' /\ HoldsReturn(r, x)')
      BY <1>1 DEF HoldsReturn, ReturnIsFree
    <2>3. \A o \in Request, s \in Sale : o # r => Holds(o, s)' = Holds(o, s)
      BY <1>1 DEF Holds
    <2>4. \A o \in Request, x \in Return : o # r => HoldsReturn(o, x)' = HoldsReturn(o, x)
      BY <1>1 DEF HoldsReturn
    <2> QED
      BY <2>1, <2>2, <2>3, <2>4 DEF RequestInv, LocksExclusive
  <1>4. ASSUME NEW o \in Request, o # r PROVE InFlight(o)'
    BY <1>1, <1>4, UnchangedKept DEF RequestInv, DecisionsStayValid
  <1>5. DecisionsStayValid'
    BY <1>4 DEF DecisionsStayValid
  <1> QED
    BY <1>1, <1>2, <1>3, <1>5 DEF RequestInv

(* Every Begin action opens a transaction in that way. *)
LEMMA BeginKeepsRequestInv ==
  ASSUME NEW r \in Request, RequestInv, Begin(r)
  PROVE  RequestInv' /\ UNCHANGED docVars
  <1> USE DEF LocksSale
  <1>0. ASSUME NEW t, Start(r, t) PROVE txn'[r] = t /\ UNCHANGED docVars
    BY <1>0 DEF Start, RequestInv, TypeOK
  <1>1. ASSUME NEW s \in Sale, BeginPost(r, s) PROVE RequestInv' /\ UNCHANGED docVars
    <2> DEFINE t == [op |-> "post", sale |-> s]
    <2>1. Start(r, t) /\ SaleIsFree(s) /\ CanPost(s) /\ t \in Txn
      BY <1>1 DEF BeginPost, Txn
    <2>2. InFlight(r)'
      BY <1>0, <2>1 DEF InFlight, CanPost, docVars
    <2> QED
      BY <2>1, <2>2, StartKeepsRequestInv
  <1>2. ASSUME NEW s \in Sale, BeginCancel(r, s) PROVE RequestInv' /\ UNCHANGED docVars
    <2> DEFINE t == [op |-> "cancel", sale |-> s]
    <2>1. Start(r, t) /\ SaleIsFree(s) /\ CanCancel(s) /\ t \in Txn
      BY <1>2 DEF BeginCancel, Txn
    <2>2. InFlight(r)'
      BY <1>0, <2>1 DEF InFlight, CanCancel, HasActiveReturn, docVars
    <2> QED
      BY <2>1, <2>2, StartKeepsRequestInv
  <1>3. ASSUME NEW s \in Sale, NEW a \in Amount, NEW m \in Method, BeginPay(r, s, a, m)
        PROVE  RequestInv' /\ UNCHANGED docVars
    <2> DEFINE t == [op |-> "pay", sale |-> s, amount |-> a, method |-> m]
    <2>1. Start(r, t) /\ SaleIsFree(s) /\ CanPay(s, a) /\ t \in Txn
      BY <1>3 DEF BeginPay, Txn
    <2>2. InFlight(r)'
      BY <1>0, <2>1 DEF InFlight, CanPay, Settles, docVars
    <2> QED
      BY <2>1, <2>2, StartKeepsRequestInv
  <1>4. ASSUME NEW s \in Sale, NEW a \in Amount, NEW m \in Method, BeginRefund(r, s, a, m)
        PROVE  RequestInv' /\ UNCHANGED docVars
    <2> DEFINE t == [op |-> "refund", sale |-> s, amount |-> a, method |-> m]
    <2>1. Start(r, t) /\ SaleIsFree(s) /\ CanRefund(s, a) /\ t \in Txn
      BY <1>4 DEF BeginRefund, Txn
    <2>2. InFlight(r)'
      BY <1>0, <2>1 DEF InFlight, CanRefund, docVars
    <2> QED
      BY <2>1, <2>2, StartKeepsRequestInv
  <1>5. ASSUME NEW s \in Sale, NEW x \in Return, NEW q \in Asked, BeginReturn(r, s, x, q)
        PROVE  RequestInv' /\ UNCHANGED docVars
    <2> DEFINE t == [op |-> "return", sale |-> s, ret |-> x, qty |-> q]
    <2>1. Start(r, t) /\ SaleIsFree(s) /\ ReturnIsFree(x) /\ CanReturn(s, x, q) /\ t \in Txn
      BY <1>5 DEF BeginReturn, Txn
    <2>2. InFlight(r)'
      BY <1>0, <2>1 DEF InFlight, CanReturn, Returned, docVars
    <2> QED
      BY <2>1, <2>2, StartKeepsRequestInv
  <1>6. ASSUME NEW x \in Return, BeginCancelReturn(r, x)
        PROVE  RequestInv' /\ UNCHANGED docVars
    <2> DEFINE t == [op |-> "cancelReturn", ret |-> x]
    <2>1. Start(r, t) /\ ReturnIsFree(x) /\ CanCancelReturn(x) /\ t \in Txn
      BY <1>6 DEF BeginCancelReturn, Txn
    <2>2. InFlight(r)'
      BY <1>0, <2>1 DEF InFlight, CanCancelReturn, docVars
    <2> QED
      BY <2>1, <2>2, StartKeepsRequestInv
  <1> QED
    BY <1>1, <1>2, <1>3, <1>4, <1>5, <1>6 DEF Begin

(* What is left to show of a transaction that ends. *)
LEMMA FinishKeepsRequestInv ==
  ASSUME NEW r \in Request, RequestInv, Finish(r), DocInv', cash' \in Int,
         \A o \in Request \ {r} : InFlight(o)'
  PROVE  RequestInv'
  <1>1. LocksExclusive' /\ TypeOK'
    BY FinishKeepsLocks DEF RequestInv, TypeOK, DocInv
  <1>2. InFlight(r)'
    BY DEF RequestInv, TypeOK, Finish, Idle, InFlight
  <1>3. DecisionsStayValid'
    BY <1>2 DEF DecisionsStayValid
  <1> QED
    BY <1>1, <1>3 DEF RequestInv


(* A commit on one sale leaves the decisions of the other open transactions *)
(* true if it writes nothing of other sales and of returns not its own.     *)
LEMMA SaleCommitKeepsOthers ==
  ASSUME NEW r \in Request, RequestInv, NamesOwnLines, Finish(r),
         txn[r].op \in LocksSale,
         \A t \in Sale : t # txn[r].sale =>
            /\ status'[t] = status[t]
            /\ paid'[t] = paid[t]
            /\ refunded'[t] = refunded[t]
            /\ HasActiveReturn(t)' => HasActiveReturn(t),
         \A l \in Line : SaleOf[l] # txn[r].sale =>
            /\ issue'[l] = issue[l]
            /\ reversal'[l] = reversal[l]
            /\ Returned(l)' = Returned(l),
         \A x \in Return : ~HoldsReturn(r, x) =>
            /\ retState'[x] = retState[x]
            /\ retQty'[x] = retQty[x]
            /\ unrestock'[x] = unrestock[x]
  PROVE  \A o \in Request \ {r} : InFlight(o)'
  <1> SUFFICES ASSUME NEW o \in Request, o # r PROVE InFlight(o)'
    OBVIOUS
  <1>1. TypeOK /\ LocksExclusive /\ InFlight(o) /\ txn'[o] = txn[o]
    BY DEF RequestInv, DecisionsStayValid, TypeOK, Finish
  <1>2. txn[o].op \in {"return", "cancelReturn"} => ~HoldsReturn(r, txn[o].ret)
    BY <1>1, OtherLocks DEF HoldsReturn
  <1>3. CASE txn[o].op \in LocksSale
    <2>1. txn[o].sale \in Sale /\ txn[o].sale # txn[r].sale
      BY <1>1, <1>3, TxnFields, OtherLocks
    <2>2. \A l \in LinesOf(txn[o].sale) : l \in Line /\ SaleOf[l] # txn[r].sale
      BY <2>1 DEF LinesOf
    <2>3. txn[o].op = "return" => retState'[txn[o].ret] = retState[txn[o].ret]
      BY <1>1, <1>2, TxnFields
    <2> QED
      BY <1>1, <1>3, <2>1, <2>2, <2>3, OtherSaleKept
  <1>4. CASE txn[o].op = "cancelReturn"
    <2>1. txn[o].ret \in Return
      BY <1>1, <1>4, TxnFields
    <2> QED
      BY <1>1, <1>2, <1>4, <2>1, OtherReturnKept
  <1>5. CASE txn[o].op = "idle"
    BY <1>1, <1>5 DEF InFlight
  <1> QED
    BY <1>1, <1>3, <1>4, <1>5, TxnFields

(* Each commit is a step of the sequential document that leaves the         *)
(* decisions of the other open transactions true.                           *)
LEMMA CommitPostRefines ==
  ASSUME NEW r \in Request, RequestInv, NamesOwnLines, CommitPost(r)
  PROVE  DocNext /\ RequestInv'
  <1> DEFINE s == txn[r].sale
  <1>1. s \in Sale /\ txn[r].op \in LocksSale /\ Finish(r) /\ cash' \in Int
    BY TxnFields DEF CommitPost, RequestInv, TypeOK, LocksSale
  <1>2. DocPost(s)
    BY DEF CommitPost, DocPost, RequestInv, DecisionsStayValid, InFlight
  <1>3. DocInv' /\ DocNext
    BY <1>1, <1>2, PostKeepsDocInv DEF RequestInv, DocNext
  <1>4. \A o \in Request \ {r} : InFlight(o)'
    <2>1. \A l \in Line : SaleOf[l] # s => issue'[l] = issue[l] /\ reversal'[l] = reversal[l]
      BY <1>1, <1>2, ListedLines DEF DocPost, PostWrites, LinesOf
    <2>2. \A l \in Line : Returned(l)' = Returned(l)
      BY <1>2, ReturnedKept DEF DocPost, PostWrites
    <2>3. \A t \in Sale : t # s => status'[t] = status[t]
      BY <1>2 DEF DocPost, PostWrites, RequestInv, DocInv, DocTypeOK
    <2> QED
      BY <1>1, <1>2, <2>1, <2>2, <2>3, SaleCommitKeepsOthers
         DEF DocPost, PostWrites, HasActiveReturn
  <1> QED
    BY <1>1, <1>3, <1>4, FinishKeepsRequestInv

LEMMA CommitPayRefines ==
  ASSUME NEW r \in Request, RequestInv, NamesOwnLines, CommitPay(r)
  PROVE  DocNext /\ RequestInv'
  <1> DEFINE s == txn[r].sale
             a == txn[r].amount
  <1>1. s \in Sale /\ a \in Amount /\ txn[r].op \in LocksSale /\ Finish(r)
    BY TxnFields DEF CommitPay, RequestInv, LocksSale
  <1>2. cash' \in Int
    BY <1>1 DEF CommitPay, CashEffect, RequestInv, TypeOK
  <1>3. DocPay(s, a)
    BY DEF CommitPay, DocPay, RequestInv, DecisionsStayValid, InFlight
  <1>4. DocInv' /\ DocNext
    BY <1>1, <1>3, PayKeepsDocInv DEF RequestInv, DocNext
  <1>5. \A o \in Request \ {r} : InFlight(o)'
    <2>1. \A l \in Line : Returned(l)' = Returned(l)
      BY <1>3, ReturnedKept DEF DocPay, PayWrites
    <2>2. \A t \in Sale : t # s => status'[t] = status[t] /\ paid'[t] = paid[t]
      BY <1>3 DEF DocPay, PayWrites, RequestInv, DocInv, DocTypeOK
    <2> QED
      BY <1>1, <1>3, <2>1, <2>2, SaleCommitKeepsOthers
         DEF DocPay, PayWrites, HasActiveReturn
  <1> QED
    BY <1>1, <1>2, <1>4, <1>5, FinishKeepsRequestInv

LEMMA CommitRefundRefines ==
  ASSUME NEW r \in Request, RequestInv, NamesOwnLines, CommitRefund(r)
  PROVE  DocNext /\ RequestInv'
  <1> DEFINE s == txn[r].sale
             a == txn[r].amount
  <1>1. s \in Sale /\ a \in Amount /\ txn[r].op \in LocksSale /\ Finish(r)
    BY TxnFields DEF CommitRefund, RequestInv, LocksSale
  <1>2. cash' \in Int
    BY <1>1 DEF CommitRefund, CashEffect, RequestInv, TypeOK
  <1>3. DocRefund(s, a)
    BY DEF CommitRefund, DocRefund, RequestInv, DecisionsStayValid, InFlight
  <1>4. DocInv' /\ DocNext
    BY <1>1, <1>3, RefundKeepsDocInv DEF RequestInv, DocNext
  <1>5. \A o \in Request \ {r} : InFlight(o)'
    <2>1. \A l \in Line : Returned(l)' = Returned(l)
      BY <1>3, ReturnedKept DEF DocRefund, RefundWrites
    <2>2. \A t \in Sale : t # s => refunded'[t] = refunded[t]
      BY <1>3 DEF DocRefund, RefundWrites, RequestInv, DocInv, DocTypeOK
    <2> QED
      BY <1>1, <1>3, <2>1, <2>2, SaleCommitKeepsOthers
         DEF DocRefund, RefundWrites, HasActiveReturn
  <1> QED
    BY <1>1, <1>2, <1>4, <1>5, FinishKeepsRequestInv

LEMMA CommitCancelRefines ==
  ASSUME NEW r \in Request, RequestInv, NamesOwnLines, CommitCancel(r)
  PROVE  DocNext /\ RequestInv'
  <1> DEFINE s == txn[r].sale
  <1>1. s \in Sale /\ txn[r].op \in LocksSale /\ Finish(r) /\ cash' \in Int
    BY TxnFields DEF CommitCancel, RequestInv, TypeOK, LocksSale
  <1>2. DocCancel(s)
    BY DEF CommitCancel, DocCancel, RequestInv, DecisionsStayValid, InFlight
  <1>3. DocInv' /\ DocNext
    BY <1>1, <1>2, CancelKeepsDocInv DEF RequestInv, DocNext
  <1>4. \A o \in Request \ {r} : InFlight(o)'
    <2>1. \A l \in Line : SaleOf[l] # s => issue'[l] = issue[l] /\ reversal'[l] = reversal[l]
      BY <1>1, <1>2, ListedLines
         DEF DocCancel, CancelWrites, LinesOf, RequestInv, DocInv, DocTypeOK
    <2>2. \A l \in Line : Returned(l)' = Returned(l)
      BY <1>2, ReturnedKept DEF DocCancel, CancelWrites
    <2>3. \A t \in Sale : t # s => status'[t] = status[t]
      BY <1>2 DEF DocCancel, CancelWrites, RequestInv, DocInv, DocTypeOK
    <2> QED
      BY <1>1, <1>2, <2>1, <2>2, <2>3, SaleCommitKeepsOthers
         DEF DocCancel, CancelWrites, HasActiveReturn
  <1> QED
    BY <1>1, <1>3, <1>4, FinishKeepsRequestInv


LEMMA CommitReturnRefines ==
  ASSUME NEW r \in Request, RequestInv, NamesOwnLines, CommitReturn(r)
  PROVE  DocNext /\ RequestInv'
  <1> DEFINE s == txn[r].sale
             x == txn[r].ret
             q == txn[r].qty
  <1>1. /\ s \in Sale /\ x \in Return /\ q \in Asked
        /\ txn[r].op \in LocksSale /\ HoldsReturn(r, x)
        /\ Finish(r) /\ cash' \in Int
    BY TxnFields DEF CommitReturn, RequestInv, TypeOK, LocksSale, HoldsReturn
  <1>2. DocReturn(s, x, q)
    BY DEF CommitReturn, DocReturn, RequestInv, DecisionsStayValid, InFlight
  <1>3. DocInv' /\ DocNext
    BY <1>1, <1>2, ReturnKeepsDocInv DEF RequestInv, DocNext
  <1>4. \A o \in Request \ {r} : InFlight(o)'
    <2>1. /\ retState' = [retState EXCEPT ![x] = "posted"]
          /\ retSale' = [retSale EXCEPT ![x] = s]
          /\ retQty' = [retQty EXCEPT ![x] = q]
          /\ UNCHANGED <<paid, refunded, issue, reversal, unrestock>>
      BY <1>2 DEF DocReturn, ReturnWrites
    <2>2. \A y \in Return : y # x =>
             retState'[y] = retState[y] /\ retSale'[y] = retSale[y] /\ retQty'[y] = retQty[y]
      BY <2>1 DEF RequestInv, DocInv, DocTypeOK
    <2>3. \A l \in Line : SaleOf[l] # s => Returned(l)' = Returned(l)
      <3> SUFFICES ASSUME NEW l \in Line, SaleOf[l] # s PROVE Returned(l)' = Returned(l)
        OBVIOUS
      <3>1. q[l] = 0
        BY <1>1, <1>2 DEF DocReturn, CanReturn, NamesOwnLines, LinesOf, Asked
      <3>2. retQty[x][l] = 0
        BY <1>1, <1>2 DEF DocReturn, CanReturn, RequestInv, DocInv, UncreatedIsEmpty, NoQuantity
      <3>3. retQty'[x][l] = q[l]
        BY <1>1, <2>1 DEF RequestInv, DocInv, DocTypeOK
      <3> QED
        BY <2>2, <3>1, <3>2, <3>3, ReturnedKept
    <2>4. \A t \in Sale : t # s => (HasActiveReturn(t)' => HasActiveReturn(t))
      BY <1>1, <2>1, <2>2 DEF HasActiveReturn, RequestInv, DocInv, DocTypeOK
    <2>5. \A t \in Sale : t # s => status'[t] = status[t]
      BY <1>2 DEF DocReturn, ReturnWrites, RequestInv, DocInv, DocTypeOK
    <2>6. \A y \in Return : ~HoldsReturn(r, y) => y # x
      BY <1>1
    <2> QED
      BY <1>1, <2>1, <2>2, <2>3, <2>4, <2>5, <2>6, SaleCommitKeepsOthers
  <1> QED
    BY <1>1, <1>3, <1>4, FinishKeepsRequestInv

LEMMA CommitCancelReturnRefines ==
  ASSUME NEW r \in Request, RequestInv, NamesOwnLines, CommitCancelReturn(r)
  PROVE  DocNext /\ RequestInv'
  <1> DEFINE x == txn[r].ret
  <1>1. x \in Return /\ Finish(r) /\ cash' \in Int
    BY TxnFields DEF CommitCancelReturn, RequestInv, TypeOK
  <1>2. DocCancelReturn(x)
    BY DEF CommitCancelReturn, DocCancelReturn, RequestInv, DecisionsStayValid, InFlight
  <1>3. DocInv' /\ DocNext
    BY <1>1, <1>2, CancelReturnKeepsDocInv DEF RequestInv, DocNext
  <1>4. ASSUME NEW o \in Request \ {r} PROVE InFlight(o)'
    <2>1. TypeOK /\ LocksExclusive /\ InFlight(o) /\ txn'[o] = txn[o]
      BY <1>1 DEF RequestInv, DecisionsStayValid, TypeOK, Finish
    <2>2. txn[o].op \in {"return", "cancelReturn"} => txn[o].ret \in Return /\ txn[o].ret # x
      BY <2>1, OtherLocks, TxnFields DEF CommitCancelReturn
    <2>3. /\ UNCHANGED <<status, paid, refunded, retSale, retQty, issue, reversal>>
          /\ \A y \in Return : y # x => retState'[y] = retState[y] /\ unrestock'[y] = unrestock[y]
          /\ retState'[x] # "posted"
      BY <1>1, <1>2 DEF DocCancelReturn, CancelReturnWrites, RequestInv, DocInv, DocTypeOK
    <2>4. CASE txn[o].op \in LocksSale
      <3>1. \A l \in Line : Returned(l)' = Returned(l)
        BY <2>3, ReturnedKept
      <3>2. \A t \in Sale : HasActiveReturn(t)' => HasActiveReturn(t)
        BY <2>3 DEF HasActiveReturn
      <3>3. \A l \in LinesOf(txn[o].sale) : l \in Line
        BY DEF LinesOf
      <3>4. txn[o].sale \in Sale
        BY <2>1, <2>4, TxnFields
      <3>5. txn[o].op = "return" => retState'[txn[o].ret] = retState[txn[o].ret]
        BY <2>2, <2>3
      <3> QED
        BY <2>1, <2>3, <2>4, <3>1, <3>2, <3>3, <3>4, <3>5, OtherSaleKept
    <2>5. CASE txn[o].op = "cancelReturn"
      BY <2>1, <2>2, <2>3, <2>5, OtherReturnKept
    <2>6. CASE txn[o].op = "idle"
      BY <2>1, <2>6 DEF InFlight
    <2> QED
      BY <2>1, <2>4, <2>5, <2>6, TxnFields
  <1> QED
    BY <1>1, <1>3, <1>4, FinishKeepsRequestInv

(* A rolled back transaction leaves no trace. *)
LEMMA RollbackKeepsRequestInv ==
  ASSUME NEW r \in Request, RequestInv, Rollback(r)
  PROVE  RequestInv' /\ UNCHANGED docVars
  <1>1. Finish(r) /\ UNCHANGED docVars /\ UNCHANGED cash
    BY DEF Rollback
  <1>2. DocInv /\ [DocNext]_docVars
    BY <1>1 DEF RequestInv
  <1>3. DocInv'
    BY <1>2, NextKeepsDocInv
  <1>4. ASSUME NEW o \in Request \ {r} PROVE InFlight(o)'
    <2>1. InFlight(o) /\ txn'[o] = txn[o]
      BY <1>1 DEF RequestInv, DecisionsStayValid, TypeOK, Finish
    <2> QED
      BY <1>1, <2>1, UnchangedKept
  <1>5. cash' \in Int
    BY <1>1 DEF RequestInv, TypeOK
  <1> QED
    BY <1>1, <1>3, <1>4, <1>5, FinishKeepsRequestInv

LEMMA InitRequestInv == Init => RequestInv
  <1> SUFFICES ASSUME Init PROVE RequestInv
    OBVIOUS
  <1>1. DocInv
    BY InitDocInv DEF Init
  <1>2. \A r \in Request : txn[r].op = "idle"
    BY DEF Init, Idle
  <1>3. TypeOK
    BY <1>1, OpeningCashAssumption DEF Init, TypeOK, DocInv, Txn
  <1>4. LocksExclusive
    BY <1>2 DEF LocksExclusive, Holds, HoldsReturn, LocksSale
  <1>5. DecisionsStayValid
    BY <1>2 DEF DecisionsStayValid, InFlight
  <1> QED
    BY <1>1, <1>3, <1>4, <1>5 DEF RequestInv

(* Every step is a step of the sequential document or none. *)
LEMMA StepRefines ==
  ASSUME RequestInv, NamesOwnLines, [Next]_vars
  PROVE  RequestInv' /\ [DocNext]_docVars
  <1>1. CASE UNCHANGED vars
    <2>1. UNCHANGED docVars /\ UNCHANGED txn /\ UNCHANGED cash
      BY <1>1 DEF vars
    <2>2. DocInv /\ [DocNext]_docVars
      BY <2>1 DEF RequestInv
    <2>3. DocInv'
      BY <2>2, NextKeepsDocInv
    <2>4. TypeOK'
      BY <2>1, <2>3 DEF RequestInv, TypeOK, DocInv
    <2>5. LocksExclusive'
      BY <2>1 DEF RequestInv, LocksExclusive, Holds, HoldsReturn
    <2>6. DecisionsStayValid'
      BY <2>1, UnchangedKept DEF RequestInv, DecisionsStayValid
    <2> QED
      BY <2>2, <2>3, <2>4, <2>5, <2>6 DEF RequestInv
  <1>2. ASSUME NEW r \in Request, Begin(r) PROVE RequestInv' /\ [DocNext]_docVars
    BY <1>2, BeginKeepsRequestInv
  <1>3. ASSUME NEW r \in Request, Commit(r) PROVE RequestInv' /\ [DocNext]_docVars
    BY <1>3, CommitPostRefines, CommitPayRefines, CommitRefundRefines, CommitCancelRefines,
       CommitReturnRefines, CommitCancelReturnRefines DEF Commit
  <1>4. ASSUME NEW r \in Request, Rollback(r) PROVE RequestInv' /\ [DocNext]_docVars
    BY <1>4, RollbackKeepsRequestInv
  <1> QED
    BY <1>1, <1>2, <1>3, <1>4 DEF Next

(* The invariant holds of every interleaving of requests. *)
LEMMA RequestInvariant == ASSUME NamesOwnLines PROVE Spec => []RequestInv
  <1>1. RequestInv /\ [Next]_vars => RequestInv'
    BY StepRefines
  <1> QED
    BY <1>1, InitRequestInv, PTL DEF Spec

(* The row lock each request takes is enough: interleaved requests on sales *)
(* and returns do to the document tables what some sequence of requests,    *)
(* served one at a time, does.                                              *)
THEOREM SalesImplementDocument == ASSUME NamesOwnLines PROVE Spec => DocSpec
  <1>1. RequestInv /\ [Next]_vars => [DocNext]_docVars
    BY StepRefines
  <1>2. Init => DocInit
    BY DEF Init
  <1> QED
    BY <1>1, <1>2, RequestInvariant, PTL DEF Spec, DocSpec

(* The types of the tables and of the open transactions. *)
THEOREM SalesTypeOK == ASSUME NamesOwnLines PROVE Spec => []TypeOK
  <1>1. RequestInv => TypeOK
    BY DEF RequestInv
  <1> QED
    BY <1>1, RequestInvariant, PTL

(* What a transaction read under its lock is still true when it commits     *)
(* (get_for_update in every operation of SaleService and RefundService).    *)
THEOREM SalesDecisionsStayValid ==
  ASSUME NamesOwnLines PROVE Spec => []DecisionsStayValid
  <1>1. RequestInv => DecisionsStayValid
    BY DEF RequestInv
  <1> QED
    BY <1>1, RequestInvariant, PTL

(* Payments never exceed the total of a sale nor refunds its payments, with *)
(* any number of cashiers.                                                  *)
THEOREM SalesMoneyBounded == ASSUME NamesOwnLines PROVE Spec => []MoneyBounded
  <1>1. RequestInv => MoneyBounded
    BY DEF RequestInv, DocInv
  <1> QED
    BY <1>1, RequestInvariant, PTL

(* A line leaves stock once when its sale is posted and comes back once, in *)
(* full, when it is cancelled; a return likewise.                           *)
THEOREM SalesMovements ==
  ASSUME NamesOwnLines PROVE Spec => [](SaleMovements /\ ReturnMovements)
  <1>1. RequestInv => SaleMovements /\ ReturnMovements
    BY DEF RequestInv, DocInv
  <1> QED
    BY <1>1, RequestInvariant, PTL

(* A cancelled sale never has an active return, however cancel_sale and     *)
(* create_return are interleaved.                                           *)
THEOREM SalesCancelledHasNoReturn ==
  ASSUME NamesOwnLines PROVE Spec => []CancelledHasNoReturn
  <1>1. RequestInv => CancelledHasNoReturn
    BY DEF RequestInv, DocInv
  <1> QED
    BY <1>1, RequestInvariant, PTL

(* Nor do concurrent returns and cancellations put more back than was taken *)
(* or return more than was sold.                                            *)
THEOREM SalesNeverOverRestocked ==
  ASSUME NamesOwnLines PROVE Spec => [](NeverOverRestocked /\ ReturnsBounded)
  BY SalesImplementDocument, DocNeverOverRestocked, PTL

(* Whatever requests have been served so far, the goods invariant holds,    *)
(* and the reports are computed from the rows alone.                        *)
LEMMA SalesGoodsInv == ASSUME NamesOwnLines PROVE Spec => []GoodsInv
  <1>1. GoodsInv /\ [DocNext]_docVars => GoodsInv'
    BY NextKeepsGoodsInv
  <1>2. DocSpec => []GoodsInv
    BY <1>1, InitGoodsInv, PTL DEF DocSpec
  <1> QED
    BY <1>2, SalesImplementDocument, PTL

(* The sales report, the profit and loss and the chart of the dashboard     *)
(* state the same revenue and the same cost of goods of sales without a     *)
(* discount, although each nets, bounds and groups the sales its own way.   *)
THEOREM SalesReportsAgree == ASSUME NamesOwnLines PROVE Spec => []ReportsAgree
  <1>1. GoodsInv => ReportsAgree
    BY GoodsReportsAgree
  <1> QED
    BY <1>1, SalesGoodsInv, PTL

(* The reports of all days, of all weeks or of all years add up to the      *)
(* whole history, in any calendar that covers the sales (resolve_period).   *)
THEOREM SalesPeriodsAddUp ==
  ASSUME NamesOwnLines, CalendarCovers PROVE Spec => []PeriodsAddUp
  <1>1. GoodsInv => PeriodsAddUp
    BY GoodsPeriodsAddUp
  <1> QED
    BY <1>1, SalesGoodsInv, PTL

(* INV-05 with concurrent requests: "cancelled" is final. *)
THEOREM SalesCancelIsFinal == ASSUME NamesOwnLines PROVE Spec => CancelIsFinal
  BY SalesImplementDocument, DocCancelIsFinal, PTL

=============================================================================
