------------------------- MODULE StockLedgerProofs --------------------------
(***************************************************************************)
(* Proofs about module StockLedger, for every set of products, documents   *)
(* and requests. What a transaction was told about a product it locked     *)
(* stays true only because of what every other transaction holds: the      *)
(* inductive invariant adds to AcceptedStays that a lock FOR UPDATE        *)
(* excludes every other lock on the row, that a movement is either still   *)
(* to be inserted or its product is locked, that a movement decided under  *)
(* a lock has not lost it, and that one request at a time works on an      *)
(* event, so that the ids a reversal compares with stay the same.          *)
(***************************************************************************)
EXTENDS StockLedger, SumTheorems, TLAPS

(* The movements that are decided under the lock of their product.         *)
Guarded(t, p) ==
    \/ t.op \in {"produce", "adjust"} /\ t.move[p] < 0
    \/ t.op = "unsort" /\ p \in Sortings(t.doc)

(* What holds of one transaction by itself.                                *)
Kept(t) ==
    /\ IF t.pc = "open" THEN t.op # "none" ELSE t = NoTxn \/ t = Ended
    /\ t.op \in {"issue", "unissue"} => t.doc \in Sale
    /\ t.op \in {"produce", "unproduce"} => t.doc \in Run
    /\ t.op \in {"sort", "unsort"} => t.doc \in Event
    /\ \A p \in Product :
        /\ t.move[p] # 0 \/ t.id[p] # 0 => p \in t.insert \/ t.held[p] # "none"
        /\ Guarded(t, p) => p \in t.lock \/ t.held[p] = "update"

(* FOR UPDATE is held alone.                                               *)
Exclusive ==
    \A r, o \in Request, p \in Product :
        r # o /\ txn[r].held[p] = "update" => txn[o].held[p] = "none"

(* A sorting event is worked on by one request.                            *)
OnEvent(t) == t.op \in {"sort", "unsort"}
OneEach ==
    \A r, o \in Request :
        r # o /\ OnEvent(txn[r]) /\ OnEvent(txn[o]) => txn[r].doc # txn[o].doc

IInv ==
    /\ TypeOK
    /\ \A r \in Request : Kept(txn[r])
    /\ Exclusive
    /\ OneEach
    /\ AcceptedStays

(* A transaction that may take the place of txn[r].                        *)
Fits(r, u) ==
    /\ u \in Txn
    /\ Kept(u)
    /\ OnEvent(u) => \A o \in Request \ {r} : OnEvent(txn[o]) => txn[o].doc # u.doc
    /\ \A p \in Product :
        /\ u.held[p] = "update" =>
              Accepts(u, p) /\ \A o \in Request \ {r} : txn[o].held[p] = "none"
        /\ u.held[p] # "none" => \A o \in Request \ {r} : txn[o].held[p] # "update"

-----------------------------------------------------------------------------

(* The movements of an operation are numbers.                              *)
LEMMA MovementType ==
    ASSUME NEW op \in DocumentOp \cup {"adjust"}, NEW d, NEW delta \in Int,
           op \in {"issue", "unissue"} => d \in Sale,
           op \in {"produce", "unproduce"} => d \in Run,
           op \in {"sort", "unsort"} => d \in Event
    PROVE  Movement(op, d, delta) \in [Product -> Int]
<1>1. \A x \in Sale, p \in Product : Sold[x][p] \in Int
    BY SoldAssumption
<1>2. \A x \in Run, p \in Product : Consumed[x][p] \in Int /\ Made[x] \in Int
    BY ConsumedAssumption, MadeAssumption
<1>3. \A x \in Event, p \in Product : Sorted[x][p] \in Int
    BY SortedAssumption
<1> QED BY <1>1, <1>2, <1>3 DEF Movement, DocumentOp

(* Replacing one transaction by one that fits keeps the invariant, as long *)
(* as nothing is committed.                                                *)
LEMMA Replace ==
    ASSUME IInv, NEW r \in Request, NEW u, Fits(r, u),
           txn' = [txn EXCEPT ![r] = u], UNCHANGED committed
    PROVE  IInv'
<1>1. \A o \in Request : txn'[o] = IF o = r THEN u ELSE txn[o]
    BY DEF IInv, TypeOK
<1>2. TypeOK'
    BY DEF IInv, TypeOK, Fits, committed
<1>3. \A o \in Request : Kept(txn'[o])
    BY <1>1 DEF IInv, Fits
<1>4. Exclusive'
    <2> SUFFICES ASSUME NEW o \in Request, NEW q \in Request, NEW p \in Product,
                        o # q, txn'[o].held[p] = "update"
                 PROVE  txn'[q].held[p] = "none"
        BY DEF Exclusive
    <2>1. CASE o = r
        BY <2>1, <1>1 DEF Fits
    <2>2. CASE q = r
        BY <2>2, <1>1 DEF Fits
    <2>3. CASE o # r /\ q # r
        BY <2>3, <1>1 DEF IInv, Exclusive
    <2> QED BY <2>1, <2>2, <2>3
<1>5. AcceptedStays'
    BY <1>1 DEF IInv, AcceptedStays, Fits, Accepts, committed
<1>6. OneEach'
    BY <1>1 DEF IInv, OneEach, OnEvent, Fits
<1> QED BY <1>2, <1>3, <1>4, <1>5, <1>6 DEF IInv, Kept, Guarded

(* A transaction that ended fits everywhere.                               *)
LEMMA EndedFits ==
    ASSUME NEW r \in Request
    PROVE  Fits(r, Ended)
BY DEF Fits, Ended, NoTxn, Txn, Kept, Guarded, OnEvent, Unlocked, Nothing, DocumentOp

(* Releasing without committing: refusals, deadlocks and rollbacks.        *)
LEMMA ReleaseStep ==
    ASSUME IInv, NEW r \in Request, Release(r), UNCHANGED committed
    PROVE  IInv'
BY EndedFits, Replace DEF Release

(* A transaction opens without a lock, its guarded movements to be locked. *)
LEMMA OpenStep ==
    ASSUME IInv, NEW r \in Request, NEW op \in DocumentOp \cup {"adjust"}, NEW delta \in Int,
           NEW d \in Document \cup Product,
           op \in {"issue", "unissue"} => d \in Sale,
           op \in {"produce", "unproduce"} => d \in Run,
           op \in {"sort", "unsort"} => d \in Event,
           op = "adjust" => d \in Product,
           op \in {"sort", "unsort"} => DocumentFree(d),
           Open(r, op, d, delta), UNCHANGED committed
    PROVE  IInv'
<1> DEFINE m == Movement(op, d, delta)
           u == [pc |-> "open", op |-> op, doc |-> d, move |-> m, id |-> Nothing, held |-> Unlocked,
                 lock |-> Locks(op, d), seen |-> {}, insert |-> {p \in Product : m[p] # 0}]
<1>1. m \in [Product -> Int]
    BY MovementType
<1>2. Locks(op, d) \subseteq Product
    BY DEF Locks, Inputs, Sortings, DocumentOp
<1>3. u \in Txn
    BY <1>1, <1>2 DEF Txn, Unlocked, Nothing
<1>4. ASSUME NEW p \in Product, Guarded(u, p)
      PROVE  p \in u.lock
    <2>1. CASE op = "adjust"
        BY <2>1, <1>4 DEF Guarded, Locks, Movement
    <2>2. CASE op = "unsort"
        BY <2>2, <1>4 DEF Guarded, Locks
    <2>3. CASE op = "produce"
        <3>1. m[p] < 0
            BY <2>3, <1>4 DEF Guarded
        <3>2. m[p] = IF p = Output[d] THEN Made[d] ELSE - Consumed[d][p]
            BY <2>3 DEF Movement
        <3>3. Made[d] \in Nat /\ Made[d] > 0 /\ Consumed[d][p] \in Nat
            BY <2>3, MadeAssumption, ConsumedAssumption
        <3>4. p # Output[d]
            BY <3>1, <3>2, <3>3
        <3>5. m[p] = - Consumed[d][p]
            BY <3>2, <3>4
        <3> HIDE DEF m
        <3>6. Consumed[d][p] > 0
            BY <3>1, <3>3, <3>5
        <3> QED BY <3>6, <2>3 DEF Locks, Inputs
    <2> QED BY <2>1, <2>2, <2>3, <1>4 DEF Guarded
<1>5. Kept(u)
    BY <1>4 DEF Kept, Unlocked, Nothing, DocumentOp
<1>6. Fits(r, u)
    BY <1>3, <1>5 DEF Fits, Unlocked, OnEvent, DocumentFree
<1>7. txn' = [txn EXCEPT ![r] = u]
    BY DEF Open
<1> QED BY <1>6, <1>7, Replace

(* Opening a request on a document or on a product.                        *)
LEMMA StartStep ==
    ASSUME IInv, NEW r \in Request, Start(r)
    PROVE  IInv'
<1>1. CASE \E d \in Sale : BeginIssue(r, d) \/ BeginUnissue(r, d)
    BY <1>1, OpenStep DEF BeginIssue, BeginUnissue, Begin, Document, DocumentOp
<1>2. CASE \E d \in Run : BeginProduce(r, d) \/ BeginUnproduce(r, d)
    BY <1>2, OpenStep DEF BeginProduce, BeginUnproduce, Begin, Document, DocumentOp
<1>3. CASE \E d \in Event : BeginSort(r, d) \/ BeginUnsort(r, d)
    BY <1>3, OpenStep DEF BeginSort, BeginUnsort, Begin, Document, DocumentOp
<1>4. CASE \E p \in Product, delta \in Delta : BeginAdjust(r, p, delta)
    BY <1>4, OpenStep, DeltaAssumption DEF BeginAdjust
<1> QED BY <1>1, <1>2, <1>3, <1>4 DEF Start

(* The lock on a product is granted when nobody holds any on it, and the   *)
(* operation accepted what it read.                                        *)
LEMMA LockStep ==
    ASSUME IInv, NEW r \in Request, NEW p \in Product, LockProduct(r, p)
    PROVE  IInv'
<1> DEFINE t == txn[r]
           u == [t EXCEPT !.lock = @ \ {p}, !.held[p] = "update"]
<1>1. t \in Txn /\ Kept(t)
    BY DEF IInv, TypeOK
<1>2. txn' = [txn EXCEPT ![r] = u]
    BY DEF LockProduct
<1>3. u \in Txn
    BY <1>1 DEF Txn
<1>4. /\ u.pc = t.pc /\ u.op = t.op /\ u.doc = t.doc /\ u.move = t.move
      /\ u.insert = t.insert /\ u.lock = t.lock \ {p} /\ u.id = t.id
      /\ \A q \in Product : u.held[q] = IF q = p THEN "update" ELSE t.held[q]
    BY <1>1 DEF Txn
<1>5. t.pc = "open"
    BY <1>1 DEF LockProduct, LocksNext, Kept, NoTxn, Ended
<1>6. Kept(u)
    BY <1>1, <1>4, <1>5 DEF Kept, Guarded
<1>7. \A q \in Product : u.held[q] = "update" => Accepts(u, q)
    BY <1>4 DEF LockProduct, Accepts, IInv, AcceptedStays
<1>8. Fits(r, u)
    BY <1>3, <1>4, <1>6, <1>7 DEF Fits, LockProduct, MayUpdate, IInv, Exclusive, OneEach, OnEvent
<1>9. UNCHANGED committed
    BY DEF LockProduct
<1> HIDE DEF u
<1> QED BY <1>2, <1>8, <1>9, Replace

(* Reading the stock of a line takes no lock.                              *)
LEMMA ReadStep ==
    ASSUME IInv, NEW r \in Request, NEW p \in Product, ReadStock(r, p)
    PROVE  IInv'
<1> DEFINE t == txn[r]
           u == [t EXCEPT !.seen = {p}]
<1>1. t \in Txn /\ Kept(t)
    BY DEF IInv, TypeOK
<1>2. txn' = [txn EXCEPT ![r] = u]
    BY DEF ReadStock
<1>3. u \in Txn
    BY <1>1 DEF Txn
<1>4. /\ u.pc = t.pc /\ u.op = t.op /\ u.doc = t.doc /\ u.move = t.move
      /\ u.insert = t.insert /\ u.lock = t.lock /\ u.held = t.held /\ u.id = t.id
    BY <1>1 DEF Txn
<1>5. t.pc = "open"
    BY <1>1 DEF ReadStock, Kept, NoTxn, Ended
<1>6. Kept(u)
    BY <1>1, <1>4, <1>5 DEF Kept, Guarded
<1>7. \A q \in Product : u.held[q] = "update" => Accepts(u, q)
    BY <1>4 DEF Accepts, IInv, AcceptedStays
<1>8. Fits(r, u)
    <2>1. \A q \in Product, o \in Request \ {r} :
            /\ t.held[q] = "update" => txn[o].held[q] = "none"
            /\ txn[o].held[q] = "update" => t.held[q] = "none"
        BY DEF IInv, Exclusive
    <2>2. OnEvent(t) => \A o \in Request \ {r} : OnEvent(txn[o]) => txn[o].doc # t.doc
        BY DEF IInv, OneEach
    <2> HIDE DEF u
    <2> QED BY <1>3, <1>4, <1>6, <1>7, <2>1, <2>2 DEF Fits, OnEvent
<1>9. UNCHANGED committed
    BY DEF ReadStock
<1> HIDE DEF u
<1> QED BY <1>2, <1>8, <1>9, Replace

(* An id is a number, and the movement that takes it is still to come.     *)
LEMMA DrawStep ==
    ASSUME IInv, NEW r \in Request, NEW p \in Product, DrawId(r, p)
    PROVE  IInv'
<1> DEFINE t == txn[r]
           u == [t EXCEPT !.id[p] = NextId(p)]
<1>1. t \in Txn /\ Kept(t)
    BY DEF IInv, TypeOK
<1>2. txn' = [txn EXCEPT ![r] = u]
    BY DEF DrawId
<1>3. NextId(p) \in Nat
    <2> DEFINE Drawn == {txn[o].id[p] : o \in Request}
               Ids   == {newest[p]} \cup Drawn
    <2>1. Drawn \subseteq Nat /\ newest[p] \in Nat
        BY DEF IInv, TypeOK, Txn
    <2>2. IsFiniteSet(Drawn)
        <3> DEFINE onto == [o \in Request |-> txn[o].id[p]]
        <3>1. onto \in Surjection(Request, Drawn)
            BY DEF Surjection
        <3> HIDE DEF onto, Drawn
        <3> QED BY <3>1, RequestAssumption, FS_Surjection
    <2>3. IsFiniteSet(Ids)
        <3> HIDE DEF Drawn
        <3>1. Ids = Drawn \cup {newest[p]}
            OBVIOUS
        <3> QED BY <2>2, <3>1, FS_AddElement
    <2>4. Ids \subseteq Int /\ Ids # {} /\ Ids \subseteq Nat
        BY <2>1
    <2> HIDE DEF Ids
    <2>5. Max(Ids) \in Nat
        BY <2>3, <2>4, GreatestOf
    <2> QED BY <2>5 DEF NextId, Ids
<1>4. u \in Txn
    BY <1>1, <1>3 DEF Txn
<1>5. /\ u.pc = t.pc /\ u.op = t.op /\ u.doc = t.doc /\ u.move = t.move
      /\ u.insert = t.insert /\ u.lock = t.lock /\ u.held = t.held
      /\ \A q \in Product \ {p} : u.id[q] = t.id[q]
    BY <1>1 DEF Txn
<1>6. t.pc = "open" /\ p \in t.insert
    BY <1>1 DEF DrawId, IsNext, Kept, NoTxn, Ended
<1>7. Kept(u)
    BY <1>1, <1>5, <1>6 DEF Kept, Guarded
<1>8. \A q \in Product : u.held[q] = "update" => Accepts(u, q)
    BY <1>5 DEF Accepts, IInv, AcceptedStays
<1>9. Fits(r, u)
    <2>1. \A q \in Product, o \in Request \ {r} :
            /\ t.held[q] = "update" => txn[o].held[q] = "none"
            /\ txn[o].held[q] = "update" => t.held[q] = "none"
        BY DEF IInv, Exclusive
    <2>2. OnEvent(t) => \A o \in Request \ {r} : OnEvent(txn[o]) => txn[o].doc # t.doc
        BY DEF IInv, OneEach
    <2> HIDE DEF u
    <2> QED BY <1>4, <1>5, <1>7, <1>8, <2>1, <2>2 DEF Fits, OnEvent
<1>10. UNCHANGED committed
    BY DEF DrawId
<1> HIDE DEF u
<1> QED BY <1>2, <1>9, <1>10, Replace

(* An insert takes FOR KEY SHARE, which nobody's FOR UPDATE allows, and    *)
(* never weakens a lock the transaction has.                               *)
LEMMA InsertStep ==
    ASSUME IInv, NEW r \in Request, NEW p \in Product, InsertMovement(r, p)
    PROVE  IInv'
<1> DEFINE t == txn[r]
           u == [t EXCEPT !.insert = @ \ {p}, !.seen = {},
                          !.held[p] = IF @ = "none" THEN "share" ELSE @]
<1>1. t \in Txn /\ Kept(t)
    BY DEF IInv, TypeOK
<1>2. txn' = [txn EXCEPT ![r] = u]
    BY DEF InsertMovement
<1>3. u \in Txn
    BY <1>1 DEF Txn
<1>4. /\ u.pc = t.pc /\ u.op = t.op /\ u.doc = t.doc /\ u.move = t.move
      /\ u.insert = t.insert \ {p} /\ u.lock = t.lock /\ u.id = t.id
      /\ \A q \in Product :
            u.held[q] = IF q = p /\ t.held[p] = "none" THEN "share" ELSE t.held[q]
    BY <1>1 DEF Txn
<1>5. t.pc = "open"
    BY <1>1 DEF InsertMovement, Inserting, Kept, NoTxn, Ended
<1>6. Kept(u)
    BY <1>1, <1>4, <1>5 DEF Kept, Guarded
<1>7. \A q \in Product : u.held[q] = "update" => Accepts(u, q)
    BY <1>4 DEF Accepts, IInv, AcceptedStays
<1>8. Fits(r, u)
    BY <1>3, <1>4, <1>6, <1>7 DEF Fits, InsertMovement, MayShare, IInv, Exclusive, OneEach, OnEvent
<1>9. UNCHANGED committed
    BY DEF InsertMovement
<1> HIDE DEF u
<1> QED BY <1>2, <1>8, <1>9, Replace

(* A commit moves only products it holds a lock on, so nobody else holds   *)
(* one of them FOR UPDATE.                                                 *)
LEMMA CommitStep ==
    ASSUME IInv, NEW r \in Request, Commit(r)
    PROVE  IInv'
<1> DEFINE t == txn[r]
<1>1. t \in Txn /\ Kept(t) /\ t.pc = "open" /\ t.lock = {} /\ t.insert = {}
    BY DEF IInv, TypeOK, Commit
<1>2. txn' = [txn EXCEPT ![r] = Ended]
    BY DEF Commit, Release
<1>3. \A o \in Request : txn'[o] = IF o = r THEN Ended ELSE txn[o]
    BY <1>2 DEF IInv, TypeOK
<1>4. Fits(r, Ended)
    BY EndedFits
<1>5. \A p \in Product : Ended.held[p] = "none"
    BY DEF Ended, NoTxn, Unlocked
<1>6. t.op = "sort" => t.doc \in Event
    BY <1>1 DEF Kept
<1>7. /\ stock' \in [Product -> Int] /\ newest' \in [Product -> Nat]
      /\ outputs' \in [Event -> [Product -> Nat]] /\ since' \in [Event -> SUBSET Product]
    BY <1>1, <1>6 DEF Commit, IInv, TypeOK, Txn, Sortings
<1>8. state' \in [Document -> {"open", "posted", "cancelled"}]
    BY DEF Commit, IInv, TypeOK, Becomes
<1>9. txn' \in [Request -> Txn]
    BY <1>2, <1>4 DEF Fits, IInv, TypeOK
<1>10. \A o \in Request : Kept(txn'[o])
    BY <1>3, <1>4 DEF IInv, Fits
<1>11. Exclusive'
    BY <1>3, <1>5 DEF IInv, Exclusive
<1>12. AcceptedStays'
    <2> SUFFICES ASSUME NEW o \in Request, NEW p \in Product, txn'[o].held[p] = "update"
                 PROVE  Accepts(txn[o], p)' 
        BY DEF AcceptedStays
    <2>1. o # r /\ txn'[o] = txn[o] /\ txn[o].held[p] = "update"
        BY <1>3, <1>5
    <2>2. t.held[p] = "none"
        BY <2>1 DEF IInv, Exclusive
    <2>3. t.move[p] = 0 /\ t.id[p] = 0
        BY <2>2, <1>1 DEF Kept
    <2>4. stock'[p] = stock[p] /\ newest'[p] = newest[p]
        BY <2>3 DEF Commit, IInv, TypeOK
    <2>5. Accepts(txn[o], p)
        BY <2>1 DEF IInv, AcceptedStays
    <2>6. txn[o].op = "unsort" => outputs'[txn[o].doc] = outputs[txn[o].doc]
        <3>1. ASSUME txn[o].op = "unsort" PROVE txn[o].doc \in Event
            BY <3>1 DEF IInv, Kept
        <3>2. txn[o].op = "unsort" /\ t.op = "sort" => txn[o].doc # t.doc
            BY <2>1 DEF IInv, OneEach, OnEvent
        <3> QED BY <3>1, <3>2 DEF Commit
    <2> QED BY <2>1, <2>4, <2>5, <2>6 DEF Accepts
<1>13. TypeOK'
    BY <1>7, <1>8, <1>9 DEF TypeOK
<1>14. OneEach'
    <2>1. ~OnEvent(Ended)
        BY DEF OnEvent, Ended, NoTxn
    <2> QED BY <1>3, <2>1 DEF IInv, OneEach, OnEvent
<1> QED BY <1>10, <1>11, <1>12, <1>13, <1>14 DEF IInv, Kept, Guarded

-----------------------------------------------------------------------------

LEMMA Initial == ASSUME Init PROVE IInv
<1>1. TypeOK
    BY OpeningAssumption
       DEF Init, TypeOK, Txn, NoTxn, Nothing, Unlocked
<1>2. \A r \in Request, p \in Product :
        txn[r] = NoTxn /\ txn[r].pc = "start" /\ txn[r].held[p] = "none" /\ txn[r].move[p] = 0 /\ txn[r].id[p] = 0 /\ txn[r].op = "none"
    BY DEF Init, NoTxn, Nothing, Unlocked
<1>3. \A r \in Request : Kept(txn[r])
    <2> SUFFICES ASSUME NEW r \in Request PROVE Kept(txn[r])
        OBVIOUS
    <2>1. txn[r] = NoTxn /\ txn[r].pc = "start" /\ txn[r].op = "none"
        BY DEF Init, NoTxn
    <2>2. \A p \in Product : txn[r].move[p] = 0 /\ txn[r].id[p] = 0
        BY <1>2
    <2> QED BY <2>1, <2>2 DEF Kept, Guarded
<1>4. Exclusive /\ OneEach /\ AcceptedStays
    <2>1. \A r \in Request : txn[r].op = "none"
        BY DEF Init, NoTxn
    <2> QED BY <1>2, <2>1 DEF Exclusive, OneEach, OnEvent, AcceptedStays
<1> QED BY <1>1, <1>3, <1>4 DEF IInv

LEMMA Inductive == ASSUME IInv, [Next]_vars PROVE IInv'
<1>1. CASE UNCHANGED vars
    BY <1>1 DEF vars, committed, IInv, TypeOK, Kept, Guarded, Exclusive, OneEach, OnEvent,
                AcceptedStays, Accepts
<1>2. ASSUME NEW r \in Request, Step(r) \/ Rollback(r) PROVE IInv'
    <2>1. CASE Start(r)
        BY <2>1, StartStep
    <2>2. CASE \E p \in Product : LockProduct(r, p) \/ ReadStock(r, p) \/ DrawId(r, p) \/ InsertMovement(r, p)
        BY <2>2, LockStep, ReadStep, DrawStep, InsertStep
    <2>3. CASE Commit(r)
        BY <2>3, CommitStep
    <2>4. CASE Refuse(r) \/ DetectDeadlock(r) \/ Rollback(r)
        BY <2>4, ReleaseStep DEF Refuse, DetectDeadlock, Rollback
    <2> QED BY <1>2, <2>1, <2>2, <2>3, <2>4 DEF Step
<1> QED BY <1>1, <1>2 DEF Next

THEOREM StockInvariant == Spec => []IInv
<1>1. Init => IInv
    BY Initial
<1>2. IInv /\ [Next]_vars => IInv'
    BY Inductive
<1> QED BY <1>1, <1>2, PTL DEF Spec

(* Whatever else runs, what a transaction was told about a product it has  *)
(* locked stays true until it commits.                                     *)
THEOREM StockAcceptedStays == Spec => []AcceptedStays
<1>1. IInv => AcceptedStays
    BY DEF IInv
<1> QED BY <1>1, StockInvariant, PTL

-----------------------------------------------------------------------------

(* Only a commit changes the stock and the status of a document.           *)
LEMMA OnlyCommits ==
    ASSUME [Next]_vars
    PROVE  UNCHANGED committed \/ \E r \in Request : Commit(r)
<1>1. CASE UNCHANGED vars
    BY <1>1 DEF vars, committed
<1>2. ASSUME NEW r \in Request, Step(r) \/ Rollback(r), ~Commit(r)
      PROVE  UNCHANGED committed
    <2>1. CASE Start(r)
        BY <2>1 DEF Start, BeginIssue, BeginUnissue, BeginProduce, BeginUnproduce,
                    BeginSort, BeginUnsort, BeginAdjust, Begin
    <2>2. CASE \E p \in Product : LockProduct(r, p) \/ ReadStock(r, p) \/ DrawId(r, p) \/ InsertMovement(r, p)
        BY <2>2 DEF LockProduct, ReadStock, DrawId, InsertMovement
    <2>3. CASE Refuse(r) \/ DetectDeadlock(r) \/ Rollback(r)
        BY <2>3 DEF Refuse, DetectDeadlock, Rollback
    <2> QED BY <1>2, <2>1, <2>2, <2>3 DEF Step
<1> QED BY <1>1, <1>2 DEF Next

LEMMA GuardedStep ==
    ASSUME IInv, [Next]_vars
    PROVE  \A r \in Request :
              txn[r].op \in {"produce", "adjust"} /\ txn'[r] # txn[r] =>
                  \A p \in Product \ NegativeOK : stock'[p] < stock[p] => stock'[p] >= 0
<1> SUFFICES ASSUME NEW r \in Request, txn[r].op \in {"produce", "adjust"},
                    txn'[r] # txn[r],
                    NEW p \in Product \ NegativeOK, stock'[p] < stock[p]
             PROVE  stock'[p] >= 0
    OBVIOUS
<1>1. stock \in [Product -> Int] /\ txn \in [Request -> Txn]
    BY DEF IInv, TypeOK
<1>2. stock' # stock
    BY <1>1
<1>3. PICK o \in Request : Commit(o)
    BY <1>2, OnlyCommits DEF committed
<1>4. txn' = [txn EXCEPT ![o] = Ended]
    BY <1>3 DEF Commit, Release
<1>5. o = r
    BY <1>1, <1>4
<1>6. stock'[p] = stock[p] + txn[r].move[p] /\ txn[r].lock = {}
    BY <1>1, <1>3, <1>5 DEF Commit
<1>7. txn[r].move[p] \in Int /\ stock[p] \in Int
    BY <1>1 DEF Txn
<1>8. txn[r].move[p] < 0
    BY <1>6, <1>7
<1>9. txn[r].held[p] = "update"
    BY <1>6, <1>8 DEF IInv, Kept, Guarded
<1> QED BY <1>6, <1>8, <1>9 DEF IInv, AcceptedStays, Accepts

(* No production post and no adjustment takes a product below zero, in any *)
(* interleaving with sales, reversals and sorting.                         *)
THEOREM StockGuardedNeverOverdraws == Spec => GuardedNeverOverdraws
<1>1. IInv /\ [Next]_vars =>
        [\A r \in Request :
            txn[r].op \in {"produce", "adjust"} /\ txn'[r] # txn[r] =>
                \A p \in Product \ NegativeOK : stock'[p] < stock[p] => stock'[p] >= 0]_vars
    BY GuardedStep
<1> QED BY <1>1, StockInvariant, PTL DEF Spec, GuardedNeverOverdraws

LEMMA ReversalStep ==
    ASSUME IInv, [Next]_vars
    PROVE  \A d \in Event :
              state[d] = "posted" /\ state'[d] = "cancelled" =>
                  \A p \in Sortings(d) : newest[p] <= outputs[d][p]
<1> SUFFICES ASSUME NEW d \in Event, state[d] = "posted", state'[d] = "cancelled",
                    NEW p \in Sortings(d)
             PROVE  newest[p] <= outputs[d][p]
    OBVIOUS
<1>1. PICK r \in Request : Commit(r)
    BY OnlyCommits DEF committed
<1> DEFINE t == txn[r]
<1>2. t \in Txn /\ Kept(t) /\ t.lock = {}
    BY <1>1 DEF IInv, TypeOK, Commit
<1>3. d \in Document
    BY DEF Document
<1>4. t.op # "adjust" /\ d = t.doc /\ Becomes(t.op) = "cancelled"
    BY <1>1, <1>3 DEF Commit
<1>5. t.op \in {"none", "unissue", "unproduce", "unsort"}
    BY <1>2, <1>4 DEF Becomes, Txn, DocumentOp
<1>6. t.op # "none"
    BY <1>1, <1>2 DEF Commit, Kept
<1>7. t.op = "unsort"
    BY <1>2, <1>4, <1>5, <1>6, DocumentAssumption DEF Kept
<1>8. p \in Product
    BY DEF Sortings
<1>9. t.held[p] = "update"
    BY <1>2, <1>4, <1>7, <1>8 DEF Kept, Guarded
<1> QED BY <1>4, <1>7, <1>8, <1>9 DEF IInv, AcceptedStays, Accepts

(* A sorting event is only taken back while no movement of its products    *)
(* has a higher id than its own, up to the commit of the reversal.         *)
THEOREM StockReversedUntouched == Spec => ReversedUntouched
<1>1. IInv /\ [Next]_vars =>
        [\A d \in Event :
            state[d] = "posted" /\ state'[d] = "cancelled" =>
                \A p \in Sortings(d) : newest[p] <= outputs[d][p]]_vars
    BY ReversalStep
<1> QED BY <1>1, StockInvariant, PTL DEF Spec, ReversedUntouched

=============================================================================
