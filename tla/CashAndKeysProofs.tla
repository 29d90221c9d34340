------------------------- MODULE CashAndKeysProofs --------------------------
(***************************************************************************)
(* Proofs about the cash journal and about the store of the idempotency    *)
(* keys, for every set of requests, entries, categories, methods,          *)
(* amounts, keys and bodies.                                               *)
(*                                                                         *)
(* Cash: CancelledOnce counts the movements of an entry; what makes it     *)
(* inductive is who may still write one: at most one transaction works on  *)
(* an entry that is not in "overlap", the entry is then still posted, and  *)
(* what the transaction has inserted is the opposite of what was booked.   *)
(* Then the reports: an entry that is counted adds to the journal what it  *)
(* says, and one that was cancelled adds nothing, so the sums over all     *)
(* entries agree (NetOfEntry, NetsAgree).                                  *)
(*                                                                         *)
(* Keys: whatever callers share the table, those that replay apply a       *)
(* request once per key and implement OncePerKey, and no two bodies are    *)
(* applied under one key. The inductive invariant (StoreInv) says that a   *)
(* request that got past start() either holds the uncommitted row of its   *)
(* key or, where the caller only registers, found a row with its own       *)
(* body; and that the committed row of a key is one an applied request     *)
(* left.                                                                   *)
(***************************************************************************)
EXTENDS CashReports, Idempotency, SumTheorems, TLAPS

(* What a transaction relies on. *)
Sound(t) ==
    /\ t.pc = "idle" => t = NoTxn
    /\ t.pc # "idle" => t.entry \in Entry /\ t.op \in {"create", "cancel"}
    /\ t.op = "create" =>
          /\ state[t.entry] = "none"
          /\ t.category \in Category /\ t.method \in Method /\ t.amount # 0
    /\ t.op = "create" /\ t.pc = "inserted" =>
          category[t.category] # "deleted" /\ method[t.method] # "deleted"
    /\ t.op = "cancel" =>
          /\ state[t.entry] # "none"
          /\ t.entry \notin overlap => state[t.entry] = "posted"
          /\ t.entry \notin overlap /\ t.pc = "inserted" => t.amount = - booked[t.entry]

(* Two transactions work on the same entry only if both cancel it.         *)
Apart ==
    \A r, o \in Request :
        r # o /\ txn[r].entry = txn[o].entry /\ txn[r].entry # Nothing =>
            txn[r].op = "cancel" /\ txn[r].entry \in overlap

(* An entry that exists has an amount, a category and a method.            *)
Booked ==
    \A e \in Entry : state[e] # "none" =>
        booked[e] # 0 /\ of[e] \in Category /\ by[e] \in Method

(* The payment out of the drawer that is open is covered, and is alone.    *)
Outflow(t) == t.pc = "inserted" /\ t.amount < 0

OutflowsCovered ==
    ~raced =>
        /\ cash >= 0
        /\ \A r \in Request : Outflow(txn[r]) =>
              /\ cash + txn[r].amount >= 0
              /\ \A o \in Request \ {r} : ~Outflow(txn[o])

IInv ==
    /\ TypeOK
    /\ \A r \in Request : Sound(txn[r])
    /\ Apart
    /\ Booked
    /\ OutflowsCovered
    /\ CancelledOnce
    /\ ReferencesKept

-----------------------------------------------------------------------------

LEMMA SignedAmount ==
    ASSUME NEW c \in Category, NEW a \in Amount
    PROVE  Signed(c, a) \in Int /\ Signed(c, a) # 0
BY AmountAssumption DEF Signed

LEMMA NoTxnType == NoTxn \in Txn
BY DEF NoTxn, Txn

LEMMA Initial == ASSUME Init PROVE IInv
<1>1. TypeOK
    <2>1. movements \in [Entry -> [same : Nat, opposite : Nat]]
        BY DEF Init
    <2>2. of \in [Entry -> Category \cup {Nothing}] /\ by \in [Entry -> Method \cup {Nothing}]
        BY DEF Init
    <2>3. txn \in [Request -> Txn]
        BY NoTxnType DEF Init
    <2>4. cash \in Int /\ booked \in [Entry -> Int] /\ overlap \subseteq Entry
        BY DEF Init
    <2>5. /\ state \in [Entry -> {"none", "posted", "cancelled"}]
          /\ category \in [Category -> {"active", "inactive", "deleted"}]
          /\ method \in [Method -> {"active", "inactive", "deleted"}]
        BY DEF Init
    <2>6. raced \in BOOLEAN
        BY Zenon DEF Init
    <2> QED BY <2>1, <2>2, <2>3, <2>4, <2>5, <2>6 DEF TypeOK
<1>2. \A r \in Request : Sound(txn[r])
    BY DEF Init, Sound, NoTxn
<1>3. Apart /\ Booked
    BY DEF Init, Apart, Booked, NoTxn
<1>4. OutflowsCovered
    <2>1. \A r \in Request : txn[r].pc = "idle"
        BY DEF Init, NoTxn
    <2> QED BY <2>1 DEF Init, OutflowsCovered, Outflow
<1>5. CancelledOnce /\ ReferencesKept
    BY DEF Init, CancelledOnce, ReferencesKept
<1> QED BY <1>1, <1>2, <1>3, <1>4, <1>5 DEF IInv

(* A transaction that goes idle without a commit leaves nothing behind.    *)
LEMMA RollbackStep ==
    ASSUME IInv, NEW r \in Request, Rollback(r)
    PROVE  IInv'
<1>1. \A o \in Request : txn'[o] = IF o = r THEN NoTxn ELSE txn[o]
    BY DEF IInv, TypeOK, Rollback, Idle
<1>2. UNCHANGED <<cash, state, booked, of, by, movements, category, method, overlap, raced>>
    BY DEF Rollback, books, history
<1>3. TypeOK'
    BY <1>2, NoTxnType DEF IInv, TypeOK, Rollback, Idle
<1>4. \A o \in Request : Sound(txn[o])'
    BY <1>1, <1>2 DEF IInv, Sound, NoTxn
<1>5. Apart'
    BY <1>1, <1>2 DEF IInv, Apart, NoTxn
<1>6. OutflowsCovered'
    BY <1>1, <1>2 DEF IInv, OutflowsCovered, Outflow, NoTxn
<1>7. (Booked /\ CancelledOnce /\ ReferencesKept)'
    BY <1>2 DEF IInv, Booked, CancelledOnce, ReferencesKept
<1> QED BY <1>3, <1>4, <1>5, <1>6, <1>7 DEF IInv

(* A creation starts on an entry nobody works on.                          *)
LEMMA StartCreateStep ==
    ASSUME IInv, NEW r \in Request, NEW e \in Entry, NEW c \in Category, NEW m \in Method,
           NEW a \in Amount, StartCreate(r, e, c, m, a)
    PROVE  IInv'
<1> DEFINE u == [pc |-> "started", op |-> "create", entry |-> e,
                 category |-> c, method |-> m, amount |-> Signed(c, a)]
<1>1. \A o \in Request : txn'[o] = IF o = r THEN u ELSE txn[o]
    BY DEF IInv, TypeOK, StartCreate
<1>2. UNCHANGED <<cash, state, booked, of, by, movements, category, method, overlap, raced>>
    BY DEF StartCreate, books, history
<1>3. TypeOK'
    <2>1. u \in Txn
        BY SignedAmount DEF Txn
    <2> QED BY <1>2, <2>1 DEF IInv, TypeOK, StartCreate
<1>4. \A o \in Request : Sound(txn[o])'
    <2>1. Sound(u)
        BY SignedAmount DEF Sound, StartCreate
    <2> HIDE DEF u
    <2> QED BY <1>1, <1>2, <2>1 DEF IInv, Sound
<1>5. Apart'
    BY <1>1, <1>2 DEF IInv, Apart, StartCreate
<1>6. OutflowsCovered'
    BY <1>1, <1>2 DEF IInv, OutflowsCovered, Outflow
<1>7. (Booked /\ CancelledOnce /\ ReferencesKept)'
    BY <1>2 DEF IInv, Booked, CancelledOnce, ReferencesKept
<1> QED BY <1>3, <1>4, <1>5, <1>6, <1>7 DEF IInv

(* The row goes in: its movement is covered by what is committed.          *)
LEMMA InsertEntryStep ==
    ASSUME IInv, NEW r \in Request, InsertEntry(r)
    PROVE  IInv'
<1> DEFINE t == txn[r]
           u == [t EXCEPT !.pc = "inserted"]
<1>1. t \in Txn /\ Sound(t)
    BY DEF IInv, TypeOK
<1>2. txn' = [txn EXCEPT ![r] = u]
    BY DEF InsertEntry
<1>3. /\ u \in Txn /\ u.pc = "inserted" /\ u.op = t.op /\ u.entry = t.entry
      /\ u.category = t.category /\ u.method = t.method /\ u.amount = t.amount
    BY <1>1 DEF Txn
<1> HIDE DEF u
<1>4. \A o \in Request : txn'[o] = IF o = r THEN u ELSE txn[o]
    BY <1>2 DEF IInv, TypeOK
<1>5. UNCHANGED <<cash, state, booked, of, by, movements, category, method, overlap>>
    BY DEF InsertEntry, books
<1>6. TypeOK'
    BY <1>2, <1>3, <1>5 DEF IInv, TypeOK, InsertEntry, Remember, OpenOutflow
<1>7. \A o \in Request : Sound(txn[o])'
    <2>1. Sound(u)
        BY <1>1, <1>3 DEF Sound, InsertEntry
    <2> QED BY <1>4, <1>5, <2>1 DEF IInv, Sound
<1>8. Apart'
    BY <1>3, <1>4, <1>5 DEF IInv, Apart
<1>9. OutflowsCovered'
    <2>1. \A o \in Request : txn[o].amount \in Int
        BY DEF IInv, TypeOK, Txn
    <2>2. t.amount < 0 => cash + t.amount >= 0
        BY DEF InsertEntry, Covers
    <2>3. ~raced' => ~raced /\ (t.amount < 0 => \A o \in Request \ {r} : ~Outflow(txn[o]))
        BY DEF InsertEntry, Remember, OpenOutflow, Outflow
    <2> QED BY <1>3, <1>4, <1>5, <2>1, <2>2, <2>3 DEF IInv, OutflowsCovered, Outflow
<1>10. (Booked /\ CancelledOnce /\ ReferencesKept)'
    BY <1>5 DEF IInv, Booked, CancelledOnce, ReferencesKept
<1> QED BY <1>6, <1>7, <1>8, <1>9, <1>10 DEF IInv

(* A commit ends the only payment out of the drawer, or adds to it.        *)
LEMMA CommittedCovered ==
    ASSUME IInv, NEW r \in Request, txn[r].pc = "inserted",
           cash' = cash + txn[r].amount, txn' = [txn EXCEPT ![r] = NoTxn], UNCHANGED raced
    PROVE  OutflowsCovered'
<1>1. \A o \in Request : txn[o].amount \in Int
    BY DEF IInv, TypeOK, Txn
<1>2. cash \in Int
    BY DEF IInv, TypeOK
<1>3. \A o \in Request : txn'[o] = IF o = r THEN NoTxn ELSE txn[o]
    BY DEF IInv, TypeOK
<1>4. \A o \in Request : Outflow(txn'[o]) => o # r /\ txn'[o] = txn[o]
    BY <1>3 DEF Outflow, NoTxn
<1>5. CASE txn[r].amount < 0
    <2>1. ~raced => \A o \in Request : ~Outflow(txn'[o])
        BY <1>4, <1>5 DEF IInv, OutflowsCovered, Outflow
    <2> QED BY <1>2, <1>5, <2>1 DEF IInv, OutflowsCovered, Outflow
<1>6. CASE txn[r].amount >= 0
    BY <1>1, <1>2, <1>3, <1>4, <1>6 DEF IInv, OutflowsCovered, Outflow
<1> QED BY <1>1, <1>5, <1>6

(* The entry appears with its movement, its category and its method.       *)
LEMMA CommitCreateStep ==
    ASSUME IInv, NEW r \in Request, CommitCreate(r)
    PROVE  IInv'
<1> DEFINE t == txn[r]
           x == t.entry
<1>1. /\ t \in Txn /\ x \in Entry /\ state[x] = "none" /\ t.amount \in Int /\ t.amount # 0
      /\ t.category \in Category /\ t.method \in Method
      /\ category[t.category] # "deleted" /\ method[t.method] # "deleted"
    BY DEF IInv, TypeOK, Txn, Sound, CommitCreate
<1>2. \A o \in Request : txn'[o] = IF o = r THEN NoTxn ELSE txn[o]
    BY DEF IInv, TypeOK, CommitCreate, Idle
<1>3. UNCHANGED <<category, method, overlap, raced>>
    BY DEF CommitCreate, history
<1>4. \A o \in Request : o # r => txn[o].entry # x
    BY <1>1, NothingAssumption DEF IInv, Apart, CommitCreate
<1>5. /\ \A e \in Entry : state'[e] = IF e = x THEN "posted" ELSE state[e]
      /\ \A e \in Entry : booked'[e] = IF e = x THEN t.amount ELSE booked[e]
      /\ \A e \in Entry : of'[e] = IF e = x THEN t.category ELSE of[e]
      /\ \A e \in Entry : by'[e] = IF e = x THEN t.method ELSE by[e]
    BY DEF IInv, TypeOK, CommitCreate
<1>6. \A e \in Entry : movements'[e] =
          IF e = x THEN [movements[e] EXCEPT !.same = 1] ELSE movements[e]
    BY DEF IInv, TypeOK, CommitCreate
<1>7. TypeOK'
    <2>1. movements' \in [Entry -> [same : Nat, opposite : Nat]]
        <3>1. [movements[x] EXCEPT !.same = 1] \in [same : Nat, opposite : Nat]
            BY <1>1 DEF IInv, TypeOK
        <3> QED BY <3>1 DEF IInv, TypeOK, CommitCreate
    <2>2. txn' \in [Request -> Txn]
        BY NoTxnType DEF IInv, TypeOK, CommitCreate, Idle
    <2>3. cash' \in Int
        BY <1>1 DEF IInv, TypeOK, CommitCreate
    <2> QED BY <1>1, <1>3, <2>1, <2>2, <2>3 DEF IInv, TypeOK, CommitCreate
<1>8. \A o \in Request : Sound(txn[o])'
    <2> SUFFICES ASSUME NEW o \in Request PROVE Sound(txn[o])'
        OBVIOUS
    <2>1. CASE o = r
        BY <2>1, <1>2 DEF Sound, NoTxn
    <2>2. CASE o # r
        <3>1. txn'[o] = txn[o] /\ txn[o].entry # x /\ Sound(txn[o])
            BY <2>2, <1>2, <1>4 DEF IInv
        <3>2. CASE txn[o].pc = "idle"
            BY <3>1, <3>2 DEF Sound, NoTxn
        <3>3. CASE txn[o].pc # "idle"
            BY <3>1, <3>3, <1>3, <1>5 DEF Sound
        <3> QED BY <3>2, <3>3
    <2> QED BY <2>1, <2>2
<1>9. Apart'
    BY <1>2, <1>3 DEF IInv, Apart, NoTxn
<1>10. Booked' /\ ReferencesKept'
    BY <1>1, <1>3, <1>5 DEF IInv, Booked, ReferencesKept
<1>11. OutflowsCovered'
    BY <1>3, CommittedCovered DEF CommitCreate, Idle
<1>12. CancelledOnce'
    <2>1. x \notin overlap => movements'[x] = [same |-> 1, opposite |-> 0]
        <3>1. x \notin overlap => movements[x] = [same |-> 0, opposite |-> 0]
            BY <1>1 DEF IInv, CancelledOnce
        <3> QED BY <3>1, <1>1, <1>6
    <2> QED BY <2>1, <1>1, <1>3, <1>5, <1>6 DEF IInv, CancelledOnce
<1> QED BY <1>7, <1>8, <1>9, <1>10, <1>11, <1>12 DEF IInv

-----------------------------------------------------------------------------

(* A cancellation starts on a posted entry; if somebody else works on it,  *)
(* the entry is in "overlap" from here on.                                 *)
LEMMA StartCancelStep ==
    ASSUME IInv, NEW r \in Request, NEW e \in Entry, StartCancel(r, e)
    PROVE  IInv'
<1> DEFINE u == [NoTxn EXCEPT !.pc = "started", !.op = "cancel", !.entry = e]
<1>1. /\ u \in Txn /\ u.pc = "started" /\ u.op = "cancel" /\ u.entry = e
      /\ u.category = Nothing /\ u.method = Nothing /\ u.amount = 0
    <2>1. /\ NoTxn \in Txn /\ NoTxn.amount = 0
          /\ NoTxn.category = Nothing /\ NoTxn.method = Nothing
        BY NoTxnType DEF NoTxn
    <2> QED BY <2>1 DEF Txn
<1>2. txn' = [txn EXCEPT ![r] = u]
    BY DEF StartCancel
<1> HIDE DEF u
<1>3. \A o \in Request : txn'[o] = IF o = r THEN u ELSE txn[o]
    BY <1>2 DEF IInv, TypeOK
<1>4. UNCHANGED <<cash, state, booked, of, by, movements, category, method, raced>>
    BY DEF StartCancel, books
<1>5. overlap \subseteq overlap' /\ overlap' \subseteq Entry
    BY DEF StartCancel, IInv, TypeOK
<1>6. TypeOK'
    <2> QED BY <1>1, <1>2, <1>4, <1>5 DEF IInv, TypeOK
<1>7. \A o \in Request : Sound(txn[o])'
    <2>1. Sound(u)'
        BY <1>1, <1>4 DEF Sound, StartCancel, Cancellable
    <2>2. \A o \in Request \ {r} : Sound(txn[o])'
        <3> SUFFICES ASSUME NEW o \in Request \ {r} PROVE Sound(txn[o])'
            OBVIOUS
        <3>1. txn'[o] = txn[o] /\ Sound(txn[o])
            BY <1>3 DEF IInv
        <3> QED BY <3>1, <1>4, <1>5 DEF Sound
    <2>3. \A o \in Request : txn'[o] = u \/ o # r
        BY <1>3
    <2>4. ASSUME NEW o \in Request, o = r PROVE Sound(txn[o])'
        BY <2>1, <2>4, <1>3 DEF Sound
    <2> QED BY <2>2, <2>4
<1>8. Apart'
    <2>1. \A o \in Request : txn[o].entry = e => e \in overlap' /\ txn[o].op # "create"
        BY <1>5 DEF IInv, Sound, StartCancel, Cancellable
    <2>2. \A o \in Request : txn[o].entry = e => txn[o].op = "cancel"
        BY <2>1, NothingAssumption DEF IInv, Sound, NoTxn
    <2> QED BY <1>1, <1>3, <1>5, <2>1, <2>2 DEF IInv, Apart
<1>9. OutflowsCovered'
    BY <1>1, <1>3, <1>4 DEF IInv, OutflowsCovered, Outflow
<1>10. (Booked /\ CancelledOnce /\ ReferencesKept)'
    BY <1>4, <1>5 DEF IInv, Booked, CancelledOnce, ReferencesKept
<1> QED BY <1>6, <1>7, <1>8, <1>9, <1>10 DEF IInv

(* The movement a cancellation picks is the only one there is, so what it  *)
(* inserts is the opposite of what was booked.                             *)
LEMMA InsertReversalStep ==
    ASSUME IInv, NEW r \in Request, NEW v \in Int, InsertReversal(r, v)
    PROVE  IInv'
<1> DEFINE t == txn[r]
           u == [t EXCEPT !.pc = "inserted", !.amount = v]
<1>1. t \in Txn /\ Sound(t) /\ t.op = "cancel" /\ t.entry \in Entry
    BY DEF IInv, TypeOK, InsertReversal, Sound
<1>2. txn' = [txn EXCEPT ![r] = u]
    BY DEF InsertReversal
<1>3. /\ u \in Txn /\ u.pc = "inserted" /\ u.op = t.op /\ u.entry = t.entry
      /\ u.category = t.category /\ u.method = t.method /\ u.amount = v
    BY <1>1 DEF Txn
<1> HIDE DEF u
<1>4. \A o \in Request : txn'[o] = IF o = r THEN u ELSE txn[o]
    BY <1>2 DEF IInv, TypeOK
<1>5. UNCHANGED <<cash, state, booked, of, by, movements, category, method, overlap>>
    BY DEF InsertReversal, books
<1>6. TypeOK'
    <2>1. raced' \in BOOLEAN
        BY DEF IInv, TypeOK, InsertReversal, Remember
    <2>2. txn' \in [Request -> Txn]
        BY <1>2, <1>3 DEF IInv, TypeOK
    <2> QED BY <1>5, <2>1, <2>2 DEF IInv, TypeOK
<1>7. \A o \in Request : Sound(txn[o])'
    <2>1. t.entry \notin overlap => v = - booked[t.entry]
        <3> SUFFICES ASSUME t.entry \notin overlap PROVE v = - booked[t.entry]
            OBVIOUS
        <3>1. state[t.entry] = "posted"
            BY <1>1 DEF Sound
        <3>2. movements[t.entry] = [same |-> 1, opposite |-> 0]
            BY <1>1, <3>1 DEF IInv, CancelledOnce
        <3> QED BY <3>2 DEF InsertReversal, Reversal
    <2>2. Sound(u)
        BY <1>1, <1>3, <2>1 DEF Sound
    <2> QED BY <1>4, <1>5, <2>2 DEF IInv, Sound
<1>8. Apart'
    BY <1>3, <1>4, <1>5 DEF IInv, Apart
<1>9. OutflowsCovered'
    <2>1. \A o \in Request : txn[o].amount \in Int
        BY DEF IInv, TypeOK, Txn
    <2>2. v < 0 => cash + v >= 0
        BY DEF InsertReversal, Covers
    <2>3. ~raced' => ~raced /\ (v < 0 => \A o \in Request \ {r} : ~Outflow(txn[o]))
        BY DEF InsertReversal, Remember, OpenOutflow, Outflow
    <2> QED BY <1>3, <1>4, <1>5, <2>1, <2>2, <2>3 DEF IInv, OutflowsCovered, Outflow
<1>10. (Booked /\ CancelledOnce /\ ReferencesKept)'
    BY <1>5 DEF IInv, Booked, CancelledOnce, ReferencesKept
<1> QED BY <1>6, <1>7, <1>8, <1>9, <1>10 DEF IInv

(* The commit of a cancellation that met no other adds the one movement    *)
(* that takes the entry out of the drawer.                                 *)
LEMMA CommitCancelStep ==
    ASSUME IInv, NEW r \in Request, CommitCancel(r)
    PROVE  IInv'
<1> DEFINE t == txn[r]
           x == t.entry
<1>1. /\ t \in Txn /\ Sound(t) /\ t.op = "cancel" /\ x \in Entry /\ t.amount \in Int
      /\ state[x] # "none"
    BY DEF IInv, TypeOK, Txn, Sound, CommitCancel
<1>2. \A o \in Request : txn'[o] = IF o = r THEN NoTxn ELSE txn[o]
    BY DEF IInv, TypeOK, CommitCancel, Idle
<1>3. UNCHANGED <<booked, of, by, category, method, overlap, raced>>
    BY DEF CommitCancel, history
<1>4. \A o \in Request : o # r /\ txn[o].entry = x => x \in overlap /\ txn[o].op = "cancel"
    BY <1>1, NothingAssumption DEF IInv, Apart
<1>5. \A e \in Entry : state'[e] = IF e = x THEN "cancelled" ELSE state[e]
    BY DEF IInv, TypeOK, CommitCancel
<1>6. \A e \in Entry : movements'[e] =
          IF e = x THEN WithReversal(x, t.amount) ELSE movements[e]
    BY DEF IInv, TypeOK, CommitCancel
<1>7. TypeOK'
    <2>1. WithReversal(x, t.amount) \in [same : Nat, opposite : Nat]
        BY <1>1 DEF IInv, TypeOK, WithReversal
    <2>2. movements' \in [Entry -> [same : Nat, opposite : Nat]]
        BY <2>1 DEF IInv, TypeOK, CommitCancel
    <2>3. txn' \in [Request -> Txn]
        BY NoTxnType DEF IInv, TypeOK, CommitCancel, Idle
    <2>4. cash' \in Int
        BY <1>1 DEF IInv, TypeOK, CommitCancel
    <2> QED BY <1>1, <1>3, <2>2, <2>3, <2>4 DEF IInv, TypeOK, CommitCancel
<1>8. \A o \in Request : Sound(txn[o])'
    <2> SUFFICES ASSUME NEW o \in Request PROVE Sound(txn[o])'
        OBVIOUS
    <2>1. CASE o = r
        BY <2>1, <1>2 DEF Sound, NoTxn
    <2>2. CASE o # r
        <3>1. txn'[o] = txn[o] /\ Sound(txn[o])
            BY <2>2, <1>2 DEF IInv
        <3>2. CASE txn[o].pc = "idle"
            BY <3>1, <3>2 DEF Sound, NoTxn
        <3>3. CASE txn[o].pc # "idle" /\ txn[o].entry = x
            BY <3>1, <3>3, <2>2, <1>3, <1>4, <1>5 DEF Sound
        <3>4. CASE txn[o].pc # "idle" /\ txn[o].entry # x
            <4>1. txn[o].entry \in Entry /\ state'[txn[o].entry] = state[txn[o].entry]
                BY <3>1, <3>4, <1>5 DEF Sound
            <4> QED BY <3>1, <3>4, <4>1, <1>3 DEF Sound
        <3> QED BY <3>2, <3>3, <3>4
    <2> QED BY <2>1, <2>2
<1>9. Apart'
    BY <1>2, <1>3 DEF IInv, Apart, NoTxn
<1>10. Booked' /\ ReferencesKept'
    BY <1>1, <1>3, <1>5 DEF IInv, Booked, ReferencesKept
<1>11. OutflowsCovered'
    BY <1>3, CommittedCovered DEF CommitCancel, Idle
<1>12. CancelledOnce'
    <2>1. ASSUME x \notin overlap
          PROVE  movements'[x] = [same |-> 1, opposite |-> 1]
        <3>1. state[x] = "posted" /\ t.amount = - booked[x]
            BY <1>1, <2>1 DEF Sound, CommitCancel
        <3>2. movements[x] = [same |-> 1, opposite |-> 0]
            BY <1>1, <2>1, <3>1 DEF IInv, CancelledOnce
        <3>3. t.amount # booked[x]
            <4>1. booked[x] \in Int /\ booked[x] # 0
                BY <1>1 DEF IInv, Booked, TypeOK
            <4> HIDE DEF t, x
            <4> QED BY <3>1, <4>1
        <3>4. movements'[x] = [movements[x] EXCEPT !.opposite = @ + 1]
            BY <1>1, <1>6, <3>3 DEF WithReversal
        <3> QED BY <3>2, <3>4
    <2> QED BY <2>1, <1>1, <1>3, <1>5, <1>6 DEF IInv, CancelledOnce
<1> QED BY <1>7, <1>8, <1>9, <1>10, <1>11, <1>12 DEF IInv

-----------------------------------------------------------------------------

(* Cash that other modules move.                                           *)
LEMMA OtherCashStep ==
    ASSUME IInv, NEW v \in Int, OtherCash(v)
    PROVE  IInv'
<1>1. UNCHANGED <<state, booked, of, by, movements, category, method, txn, overlap>>
    BY DEF OtherCash
<1>2. cash' = cash + v /\ cash + v >= 0 /\ cash \in Int
    BY DEF OtherCash, Covers, IInv, TypeOK
<1>3. TypeOK'
    BY <1>1, <1>2 DEF IInv, TypeOK, OtherCash
<1>4. OutflowsCovered'
    <2>1. \A o \in Request : txn[o].amount \in Int
        BY DEF IInv, TypeOK, Txn
    <2>2. ~raced' => ~raced /\ (v < 0 => \A o \in Request : ~Outflow(txn[o]))
        BY DEF OtherCash, Outflow
    <2> QED BY <1>1, <1>2, <2>1, <2>2 DEF IInv, OutflowsCovered, Outflow
<1>5. (\A r \in Request : Sound(txn[r]))' /\ Apart'
    BY <1>1 DEF IInv, Sound, Apart
<1>6. (Booked /\ CancelledOnce /\ ReferencesKept)'
    BY <1>1 DEF IInv, Booked, CancelledOnce, ReferencesKept
<1> QED BY <1>3, <1>4, <1>5, <1>6 DEF IInv

(* A category or a method changes; it is deleted only while unused.        *)
LEMMA CategoryStep ==
    ASSUME IInv, NEW c \in Category,
           DeleteCategory(c) \/ \E s \in {"active", "inactive"} : SetCategory(c, s)
    PROVE  IInv'
<1>1. UNCHANGED <<cash, state, booked, of, by, movements, method, txn, overlap, raced>>
    BY DEF DeleteCategory, SetCategory, books, history
<1>2. category' \in [Category -> {"active", "inactive", "deleted"}]
    BY DEF IInv, TypeOK, DeleteCategory, SetCategory
<1>3. \A x \in Category : category'[x] = "deleted" => category[x] = "deleted" \/ ~Used(x)
    BY DEF IInv, TypeOK, DeleteCategory, SetCategory
<1>4. TypeOK' /\ Apart' /\ Booked' /\ OutflowsCovered' /\ CancelledOnce'
    BY <1>1, <1>2 DEF IInv, TypeOK, Apart, Booked, OutflowsCovered, Outflow, CancelledOnce
<1>5. ReferencesKept'
    BY <1>1, <1>3 DEF IInv, ReferencesKept, Booked, Used
<1>6. (\A r \in Request : Sound(txn[r]))'
    BY <1>1, <1>3 DEF IInv, Sound, Used
<1> QED BY <1>4, <1>5, <1>6 DEF IInv

LEMMA MethodStep ==
    ASSUME IInv, NEW m \in Method,
           DeleteMethod(m) \/ \E s \in {"active", "inactive"} : SetMethod(m, s)
    PROVE  IInv'
<1>1. UNCHANGED <<cash, state, booked, of, by, movements, category, txn, overlap, raced>>
    BY DEF DeleteMethod, SetMethod, books, history
<1>2. method' \in [Method -> {"active", "inactive", "deleted"}]
    BY DEF IInv, TypeOK, DeleteMethod, SetMethod
<1>3. \A x \in Method : method'[x] = "deleted" => method[x] = "deleted" \/ ~Used(x)
    BY DEF IInv, TypeOK, DeleteMethod, SetMethod
<1>4. TypeOK' /\ Apart' /\ Booked' /\ OutflowsCovered' /\ CancelledOnce'
    BY <1>1, <1>2 DEF IInv, TypeOK, Apart, Booked, OutflowsCovered, Outflow, CancelledOnce
<1>5. ReferencesKept'
    BY <1>1, <1>3 DEF IInv, ReferencesKept, Booked, Used
<1>6. (\A r \in Request : Sound(txn[r]))'
    BY <1>1, <1>3 DEF IInv, Sound, Used
<1> QED BY <1>4, <1>5, <1>6 DEF IInv

LEMMA Stutter ==
    ASSUME IInv, UNCHANGED vars
    PROVE  IInv'
BY DEF vars, IInv, TypeOK, Sound, Apart, Booked, OutflowsCovered, Outflow, CancelledOnce,
       ReferencesKept

LEMMA Inductive == ASSUME IInv, [Next]_vars PROVE IInv'
<1>1. CASE UNCHANGED vars
    BY <1>1, Stutter
<1>2. CASE \E r \in Request, e \in Entry, c \in Category, m \in Method, a \in Amount :
              StartCreate(r, e, c, m, a)
    BY <1>2, StartCreateStep
<1>3. CASE \E r \in Request, e \in Entry :
              StartCancel(r, e) \/ \E v \in {booked[e], - booked[e]} : InsertReversal(r, v)
    <2>1. \A e \in Entry : booked[e] \in Int /\ - booked[e] \in Int
        BY DEF IInv, TypeOK
    <2> QED BY <1>3, <2>1, StartCancelStep, InsertReversalStep
<1>4. CASE \E r \in Request : InsertEntry(r) \/ CommitCreate(r) \/ CommitCancel(r) \/ Rollback(r)
    BY <1>4, InsertEntryStep, CommitCreateStep, CommitCancelStep, RollbackStep
<1>5. CASE \E a \in Amount : OtherCash(a) \/ OtherCash(- a)
    BY <1>5, OtherCashStep, AmountAssumption
<1>6. CASE \E c \in Category :
              DeleteCategory(c) \/ \E s \in {"active", "inactive"} : SetCategory(c, s)
    BY <1>6, CategoryStep
<1>7. CASE \E m \in Method :
              DeleteMethod(m) \/ \E s \in {"active", "inactive"} : SetMethod(m, s)
    BY <1>7, MethodStep
<1> QED BY <1>1, <1>2, <1>3, <1>4, <1>5, <1>6, <1>7 DEF Next

-----------------------------------------------------------------------------

THEOREM CashInvariant == Spec => []IInv
<1>1. Init => IInv
    BY Initial
<1>2. IInv /\ [Next]_vars => IInv'
    BY Inductive
<1> QED BY <1>1, <1>2, PTL DEF Spec

(* Asking again to cancel an entry, whatever happens in between, is        *)
(* harmless as long as two cancellations of it never meet.                 *)
THEOREM CashCancelledOnce == Spec => []CancelledOnce
<1>1. IInv => CancelledOnce
    BY DEF IInv
<1> QED BY <1>1, CashInvariant, PTL

(* No deletion takes away the category or the method of an entry.          *)
THEOREM CashReferencesKept == Spec => []ReferencesKept
<1>1. IInv => ReferencesKept
    BY DEF IInv
<1> QED BY <1>1, CashInvariant, PTL

(* The drawer is covered unless two payments out of it met.                *)
THEOREM CashAlwaysCovered == Spec => []CashCovered
<1>1. IInv => CashCovered
    BY DEF IInv, OutflowsCovered, CashCovered
<1> QED BY <1>1, CashInvariant, PTL

-----------------------------------------------------------------------------
(* The reports of the entries and the cash flow. *)

(* An entry is of an income category exactly when money came in for it.    *)
Signs ==
    /\ \A r \in Request : txn[r].op = "create" =>
          (txn[r].category \in Income <=> txn[r].amount > 0)
    /\ \A e \in Entry : state[e] # "none" => (of[e] \in Income <=> booked[e] > 0)

LEMMA SignsStep == ASSUME IInv, Signs, [Next]_vars PROVE Signs'
<1>1. CASE UNCHANGED vars
    BY <1>1 DEF Signs, vars
<1>2. CASE \E r \in Request, e \in Entry, c \in Category, m \in Method, a \in Amount :
              StartCreate(r, e, c, m, a)
    <2>1. PICK r \in Request, e \in Entry, c \in Category, m \in Method, a \in Amount :
              StartCreate(r, e, c, m, a)
        BY <1>2
    <2>2. c \in Income <=> Signed(c, a) > 0
        BY AmountAssumption DEF Signed
    <2>3. \A o \in Request : o # r => txn'[o] = txn[o]
        BY <2>1 DEF IInv, TypeOK, StartCreate
    <2>4. txn'[r].category = c /\ txn'[r].amount = Signed(c, a)
        BY <2>1 DEF IInv, TypeOK, StartCreate
    <2> QED BY <2>1, <2>2, <2>3, <2>4 DEF Signs, StartCreate, books
<1>3. CASE \E r \in Request, e \in Entry : StartCancel(r, e)
    <2>1. PICK r \in Request, e \in Entry : StartCancel(r, e)
        BY <1>3
    <2>2. \A o \in Request : txn'[o].op = "create" => txn'[o] = txn[o]
        BY <2>1 DEF IInv, TypeOK, StartCancel, NoTxn
    <2> QED BY <2>1, <2>2 DEF Signs, StartCancel, books
<1>4. CASE \E r \in Request : InsertEntry(r) \/ \E v : InsertReversal(r, v)
    <2>1. PICK r \in Request : InsertEntry(r) \/ \E v : InsertReversal(r, v)
        BY <1>4
    <2>2. \A o \in Request : /\ o # r => txn'[o] = txn[o]
                             /\ txn[o] \in Txn
        BY <2>1 DEF IInv, TypeOK, InsertEntry, InsertReversal
    <2>3. txn'[r].op = "create" =>
              txn[r].op = "create" /\ txn'[r].category = txn[r].category
              /\ txn'[r].amount = txn[r].amount
        <3>1. txn \in [Request -> Txn]
            BY DEF IInv, TypeOK
        <3> QED BY <2>1, <3>1 DEF InsertEntry, InsertReversal, Txn
    <2>4. UNCHANGED <<state, of, booked>>
        BY <2>1 DEF InsertEntry, InsertReversal, books
    <2> QED BY <2>2, <2>3, <2>4 DEF Signs
<1>5. CASE \E r \in Request : CommitCreate(r)
    <2>1. PICK r \in Request : CommitCreate(r)
        BY <1>5
    <2>2. \A o \in Request : txn'[o].op = "create" => txn'[o] = txn[o]
        BY <2>1 DEF IInv, TypeOK, CommitCreate, Idle, NoTxn
    <2>3. \A e \in Entry :
              \/ state'[e] = state[e] /\ of'[e] = of[e] /\ booked'[e] = booked[e]
              \/ of'[e] = txn[r].category /\ booked'[e] = txn[r].amount
        BY <2>1 DEF IInv, TypeOK, CommitCreate
    <2> QED BY <2>1, <2>2, <2>3 DEF Signs, CommitCreate
<1>6. CASE \E r \in Request : CommitCancel(r) \/ Rollback(r)
    <2>1. PICK r \in Request : CommitCancel(r) \/ Rollback(r)
        BY <1>6
    <2>2. \A o \in Request : txn'[o].op = "create" => txn'[o] = txn[o]
        BY <2>1 DEF IInv, TypeOK, CommitCancel, Rollback, Idle, NoTxn
    <2>3. \A e \in Entry :
              (state'[e] # "none" => state[e] # "none") /\ of'[e] = of[e] /\ booked'[e] = booked[e]
        <3>1. CASE CommitCancel(r)
            BY <3>1 DEF IInv, TypeOK, Sound, CommitCancel
        <3>2. CASE Rollback(r)
            BY <3>2 DEF Rollback, books
        <3> QED BY <2>1, <3>1, <3>2
    <2> QED BY <2>2, <2>3 DEF Signs
<1>7. CASE \E a \in Amount : OtherCash(a) \/ OtherCash(- a)
    BY <1>7 DEF Signs, OtherCash
<1>8. CASE \E c \in Category :
              DeleteCategory(c) \/ \E s \in {"active", "inactive"} : SetCategory(c, s)
    BY <1>8 DEF Signs, DeleteCategory, SetCategory, books
<1>9. CASE \E m \in Method :
              DeleteMethod(m) \/ \E s \in {"active", "inactive"} : SetMethod(m, s)
    BY <1>9 DEF Signs, DeleteMethod, SetMethod, books
<1> QED BY <1>1, <1>2, <1>3, <1>4, <1>5, <1>6, <1>7, <1>8, <1>9 DEF Next

LEMMA SignsKept == Spec => [](IInv /\ Signs)
<1>1. Init => IInv /\ Signs
    <2>1. Init => IInv
        BY Initial
    <2>2. Init => Signs
        BY DEF Init, Signs, NoTxn
    <2> QED BY <2>1, <2>2
<1>2. IInv /\ Signs /\ [Next]_vars => (IInv /\ Signs)'
    BY Inductive, SignsStep
<1> QED BY <1>1, <1>2, PTL DEF Spec

(* Every entry is dated within the horizon of the reports.                 *)
EntriesDated ==
    /\ Horizon \subseteq Nat /\ IsFiniteSet(Horizon)
    /\ \A e \in Entry : EntryDate[e] \in Horizon

(* What an entry brings into the drawer, by its status.                    *)
LEMMA NetOfEntry ==
    ASSUME IInv, Signs, overlap = {}, NEW e \in Entry
    PROVE  /\ CameIn(e) \in Int /\ WentOut(e) \in Int /\ AmountOf(e) \in Int
           /\ NetOf(e) = CameIn(e) - WentOut(e)
           /\ state[e] = "posted" =>
                NetOf(e) = IF TypeOf(e) = "income" THEN AmountOf(e) ELSE - AmountOf(e)
           /\ state[e] # "posted" => NetOf(e) = 0
<1> DEFINE a == AmountOf(e)
<1>1. /\ booked[e] \in Int /\ movements[e].same \in Nat /\ movements[e].opposite \in Nat
      /\ state[e] \in {"none", "posted", "cancelled"}
    BY DEF IInv, TypeOK
<1>2. a \in Int
    BY <1>1 DEF AmountOf
<1>3. /\ movements[e].same = IF state[e] = "none" THEN 0 ELSE 1
      /\ movements[e].opposite = IF state[e] = "cancelled" THEN 1 ELSE 0
    <2>1. e \in Entry \ overlap
        OBVIOUS
    <2>2. movements[e] = [same     |-> IF state[e] = "none" THEN 0 ELSE 1,
                          opposite |-> IF state[e] = "cancelled" THEN 1 ELSE 0]
        BY <2>1 DEF IInv, CancelledOnce
    <2> QED BY <2>2
<1>4. state[e] # "none" => (TypeOf(e) = "income" <=> booked[e] > 0)
    BY DEF Signs, TypeOf
<1> HIDE DEF a
<1>5. a * 0 = 0 /\ a * 1 = a
    BY <1>2
<1>6. /\ CameIn(e) = IF booked[e] > 0 THEN a * movements[e].same ELSE a * movements[e].opposite
      /\ WentOut(e) = IF booked[e] > 0 THEN a * movements[e].opposite ELSE a * movements[e].same
    BY DEF CameIn, WentOut, a
<1>7. NetOf(e) = CameIn(e) - WentOut(e)
    BY DEF NetOf
<1> QED BY <1>1, <1>2, <1>3, <1>4, <1>5, <1>6, <1>7 DEF a

(* The entries that are summed, in a window that has every entry.          *)
LEMMA PostedEver ==
    ASSUME EntriesDated, NEW type
    PROVE  PostedIn(type, Ever) = {e \in Entry : state[e] = "posted" /\ TypeOf(e) = type}
<1>1. ASSUME NEW e \in Entry PROVE Within(EntryDate[e], Ever)
    <2>1. Horizon # {} /\ Horizon \subseteq Int /\ IsFiniteSet(Horizon)
        BY <1>1 DEF EntriesDated
    <2>2. \A y \in Horizon : Max(Horizon) >= y
        BY <2>1, GreatestOf
    <2>3. EntryDate[e] \in Nat /\ Max(Horizon) >= EntryDate[e] /\ Max(Horizon) \in Int
        BY <2>1, <2>2, GreatestOf DEF EntriesDated
    <2> QED BY <2>3 DEF Within, Ever
<1> QED BY <1>1 DEF PostedIn, EntriesIn

(* What was posted of a type, as a sum over all entries.                   *)
LEMMA PostedSum ==
    ASSUME IInv, Signs, overlap = {}, EntriesDated, NEW type,
           NEW f \in [Entry -> Int],
           \A e \in Entry : f[e] = IF state[e] = "posted" /\ TypeOf(e) = type THEN AmountOf(e) ELSE 0
    PROVE  ManualAggregates(type, Ever).total_amount = SumFunction(f)
<1> DEFINE T == PostedIn(type, Ever)
           g == [e \in T |-> AmountOf(e)]
<1>1. T = {e \in Entry : state[e] = "posted" /\ TypeOf(e) = type}
    BY PostedEver
<1>2. ManualAggregates(type, Ever).total_amount = SumFunction(g)
    BY DEF ManualAggregates, SumOver
<1>3. T \subseteq Entry /\ g \in [T -> Int]
    BY <1>1, NetOfEntry
<1>4. (\A e \in T : g[e] = f[e]) /\ \A e \in Entry \ T : f[e] = 0
    BY <1>1
<1>5. IsFiniteSet(Entry)
    BY FiniteAssumption
<1> HIDE DEF T, g
<1>6. SumFunction(g) = SumFunction(f)
    BY ONLY <1>3, <1>4, <1>5, f \in [Entry -> Int], SumFunPart
<1> QED BY <1>2, <1>6

LEMMA NetsAgree ==
    ASSUME IInv, Signs, EntriesDated
    PROVE  ManualNetIsCashNet
<1> SUFFICES ASSUME overlap = {}
             PROVE  /\ ManualAggregates("income", Ever).total_amount
                          - ManualAggregates("expense", Ever).total_amount = CashFlowAggregates.net
                    /\ CashFlowAggregates.cash_in + CashFlowAggregates.cash_out
                          = CashFlowAggregates.net
    BY DEF ManualNetIsCashNet
<1> DEFINE came == [e \in Entry |-> CameIn(e)]
           went == [e \in Entry |-> WentOut(e)]
           net == [e \in Entry |-> NetOf(e)]
           posted(type) == [e \in Entry |->
               IF state[e] = "posted" /\ TypeOf(e) = type THEN AmountOf(e) ELSE 0]
           income == posted("income")
           expense == posted("expense")
<1>1. CashFlowAggregates.net = SumFunction(net)
    BY DEF CashFlowAggregates, SumOver
<1>2. CashFlowAggregates.cash_in = SumFunction(came)
    BY DEF CashFlowAggregates, SumOver
<1>3. CashFlowAggregates.cash_out = - SumFunction(went)
    BY DEF CashFlowAggregates, SumOver
<1>4. /\ came \in [Entry -> Int] /\ went \in [Entry -> Int] /\ net \in [Entry -> Int]
      /\ income \in [Entry -> Int] /\ expense \in [Entry -> Int]
    <2>1. \A e \in Entry : CameIn(e) \in Int /\ WentOut(e) \in Int /\ AmountOf(e) \in Int
                           /\ NetOf(e) = CameIn(e) - WentOut(e)
        BY NetOfEntry
    <2> QED BY <2>1
<1>5. \A e \in Entry : came[e] = net[e] + went[e]
    <2>1. \A e \in Entry : CameIn(e) \in Int /\ WentOut(e) \in Int
                           /\ NetOf(e) = CameIn(e) - WentOut(e)
        BY NetOfEntry
    <2> QED BY <2>1
<1>6. \A e \in Entry : income[e] = net[e] + expense[e]
    <2> SUFFICES ASSUME NEW e \in Entry PROVE income[e] = net[e] + expense[e]
        OBVIOUS
    <2>1. /\ AmountOf(e) \in Int
          /\ state[e] = "posted" =>
                NetOf(e) = IF TypeOf(e) = "income" THEN AmountOf(e) ELSE - AmountOf(e)
          /\ state[e] # "posted" => NetOf(e) = 0
        BY NetOfEntry
    <2>2. TypeOf(e) \in {"income", "expense"}
        BY DEF TypeOf
    <2> QED BY <2>1, <2>2
<1>7. ManualAggregates("income", Ever).total_amount = SumFunction(income)
    <2>1. \A e \in Entry : income[e] =
              IF state[e] = "posted" /\ TypeOf(e) = "income" THEN AmountOf(e) ELSE 0
        OBVIOUS
    <2> HIDE DEF income
    <2> QED BY <1>4, <2>1, PostedSum
<1>8. ManualAggregates("expense", Ever).total_amount = SumFunction(expense)
    <2>1. \A e \in Entry : expense[e] =
              IF state[e] = "posted" /\ TypeOf(e) = "expense" THEN AmountOf(e) ELSE 0
        OBVIOUS
    <2> HIDE DEF expense
    <2> QED BY <1>4, <2>1, PostedSum
<1>9. IsFiniteSet(Entry)
    BY FiniteAssumption
<1> HIDE DEF came, went, net, income, expense
<1>10. SumFunction(came) = SumFunction(net) + SumFunction(went)
    BY ONLY <1>4, <1>5, <1>9, SumFunPlus
<1>11. SumFunction(income) = SumFunction(net) + SumFunction(expense)
    BY ONLY <1>4, <1>6, <1>9, SumFunPlus
<1>12. /\ SumFunction(came) \in Int /\ SumFunction(went) \in Int /\ SumFunction(net) \in Int
       /\ SumFunction(income) \in Int /\ SumFunction(expense) \in Int
    BY ONLY <1>4, <1>9, SumFunInt
<1> QED BY <1>1, <1>2, <1>3, <1>7, <1>8, <1>10, <1>11, <1>12

(* The manual reports, which leave cancelled entries out, and the cash     *)
(* flow, which lists both movements of one, come to the same net figure,   *)
(* and that is what came in less what went out, as long as no two          *)
(* cancellations of an entry met.                                          *)
THEOREM CashManualNetIsCashNet ==
    ASSUME EntriesDated
    PROVE  Spec => []ManualNetIsCashNet
<1>1. IInv /\ Signs => ManualNetIsCashNet
    BY NetsAgree
<1> QED BY <1>1, SignsKept, PTL

-----------------------------------------------------------------------------
(* The store of the keys. *)

KeyReserved ==
    \A r \in Request : pc[r] \in {"lock", "work"} =>
        \/ reserver[SlotOf[r]] = r /\ row[SlotOf[r]] = NoRow
        \/ ~Replays(r) /\ row[SlotOf[r]] # NoRow /\ row[SlotOf[r]].body = BodyOf[r]

RowIsOfApplied ==
    \A s \in Slot : row[s] # NoRow =>
        /\ s \in Replaying => row[s].done
        /\ row[s].by \in applied
        /\ SlotOf[row[s].by] = s
        /\ BodyOf[row[s].by] = row[s].body

AppliedHasRow ==
    \A r \in applied :
        /\ row[SlotOf[r]] # NoRow
        /\ row[SlotOf[r]].body = BodyOf[r]
        /\ Replays(r) => row[SlotOf[r]].by = r

UnansweredBefore == \A r \in Request : pc[r] # "ended" => response[r] = NoRequest

StoreInv ==
    /\ KeyTypeOK
    /\ KeyReserved
    /\ RowIsOfApplied
    /\ AppliedHasRow
    /\ UnansweredBefore

USE SlotOfAssumption, BodyOfAssumption, ReplayingAssumption, NoRequestAssumption, NoRowAssumption

LEMMA InitStoreInv == KeyInit => StoreInv
  BY DEF KeyInit, StoreInv, KeyTypeOK, KeyReserved, RowIsOfApplied, AppliedHasRow, UnansweredBefore

(* A request that ends without a commit changes no row. *)
LEMMA ReleaseKeepsStoreInv ==
  ASSUME StoreInv, NEW r \in Request, NEW w, NEW whose \in Request \cup {NoRequest},
         w \in {"ok", "conflict", "duplicate", "failed"},
         Release(r), Tell(r, w, whose), UNCHANGED <<row, applied>>
  PROVE  StoreInv'
  <1> USE DEF Release, Tell, StoreInv
  <1>1. KeyTypeOK'
    BY DEF KeyTypeOK
  <1>2. KeyReserved'
    BY DEF KeyTypeOK, KeyReserved
  <1>3. RowIsOfApplied' /\ AppliedHasRow'
    BY DEF RowIsOfApplied, AppliedHasRow
  <1>4. UnansweredBefore'
    BY DEF KeyTypeOK, UnansweredBefore
  <1> QED
    BY <1>1, <1>2, <1>3, <1>4

LEMMA StepKeepsStoreInv ==
  ASSUME StoreInv, NEW r \in Request, Step(r) \/ RollbackKey(r)
  PROVE  StoreInv'
  <1> USE DEF StoreInv
  <1>1. CASE LookupNothing(r)
    BY <1>1 DEF LookupNothing, KeyTypeOK, KeyReserved, RowIsOfApplied, AppliedHasRow, UnansweredBefore
  <1>2. CASE LookupOtherBody(r)
    BY <1>2, ReleaseKeepsStoreInv DEF LookupOtherBody
  <1>3. CASE LookupReplay(r)
    <2>1. row[SlotOf[r]].by \in Request
      BY <1>3 DEF LookupReplay, KeyTypeOK, RowIsOfApplied
    <2> QED
      BY <1>3, <2>1, ReleaseKeepsStoreInv DEF LookupReplay
  <1>4. CASE LookupPending(r)
    <2>1. ~Replays(r) /\ pc' = [pc EXCEPT ![r] = "lock"]
      BY <1>4 DEF LookupPending, RowIsOfApplied, Replays
    <2>2. UNCHANGED <<row, reserver, holder, answer, response, applied>>
      BY <1>4 DEF LookupPending
    <2>3. KeyTypeOK' /\ UnansweredBefore'
      BY <1>4, <2>1, <2>2 DEF LookupPending, KeyTypeOK, UnansweredBefore
    <2>4. KeyReserved'
      BY <1>4, <2>1, <2>2 DEF LookupPending, KeyTypeOK, KeyReserved
    <2>5. RowIsOfApplied' /\ AppliedHasRow'
      BY <2>2 DEF RowIsOfApplied, AppliedHasRow
    <2> QED
      BY <2>3, <2>4, <2>5
  <1>5. CASE Insert(r)
    BY <1>5 DEF Insert, KeyTypeOK, KeyReserved, RowIsOfApplied, AppliedHasRow, UnansweredBefore
  <1>6. CASE InsertDuplicate(r)
    BY <1>6, ReleaseKeepsStoreInv DEF InsertDuplicate
  <1>7. CASE Lock(r)
    BY <1>7 DEF Lock, KeyTypeOK, KeyReserved, RowIsOfApplied, AppliedHasRow, UnansweredBefore
  <1>8. CASE Commit(r)
    <2> DEFINE new == [body |-> BodyOf[r], done |-> Replays(r), by |-> r]
    <2>1. /\ row' = [row EXCEPT ![SlotOf[r]] = new]
          /\ applied' = applied \cup {r}
      BY <1>8 DEF Commit
    <2>2. /\ new \in Row /\ new # NoRow
          /\ new.body = BodyOf[r] /\ new.by = r /\ (Replays(r) => new.done)
      <3>1. Replays(r) \in BOOLEAN
        BY DEF Replays
      <3>2. new \in Row
        BY <3>1, Zenon DEF Row
      <3>3. new # NoRow
        BY <3>2 DEF Row
      <3> QED
        BY <3>2, <3>3
    <2> HIDE DEF new
    <2>3. KeyTypeOK'
      BY <1>8, <2>1, <2>2 DEF Commit, Release, Tell, KeyTypeOK
    <2>4. \A o \in Request \ {r} : reserver'[SlotOf[o]] = o \/ reserver[SlotOf[o]] # o
      BY <1>8 DEF Commit, Release, KeyTypeOK
    <2>5. \A s \in Slot : row'[s] = IF s = SlotOf[r] THEN new ELSE row[s]
      BY <2>1 DEF KeyTypeOK
    <2>6. \/ reserver[SlotOf[r]] = r /\ row[SlotOf[r]] = NoRow
          \/ ~Replays(r) /\ row[SlotOf[r]] # NoRow /\ row[SlotOf[r]].body = BodyOf[r]
      BY <1>8 DEF Commit, KeyReserved
    <2>7. KeyReserved'
      <3> SUFFICES ASSUME NEW o \in Request, pc'[o] \in {"lock", "work"}
                   PROVE  \/ reserver'[SlotOf[o]] = o /\ row'[SlotOf[o]] = NoRow
                          \/ /\ ~Replays(o) /\ row'[SlotOf[o]] # NoRow
                             /\ row'[SlotOf[o]].body = BodyOf[o]
        BY DEF KeyReserved, Replays
      <3>1. o # r /\ pc[o] \in {"lock", "work"}
        BY <1>8 DEF Commit, Release, KeyTypeOK
      <3>2. CASE SlotOf[o] # SlotOf[r]
        BY <3>1, <3>2, <2>4, <2>5 DEF KeyReserved
      <3>3. CASE SlotOf[o] = SlotOf[r]
        <4>1. row[SlotOf[r]] # NoRow /\ row[SlotOf[r]].body = BodyOf[o] /\ ~Replays(o)
          BY <3>1, <3>3, <2>6 DEF KeyReserved
        <4> QED
          BY <3>3, <4>1, <2>2, <2>5, <2>6
      <3> QED
        BY <3>2, <3>3
    <2>8. RowIsOfApplied'
      BY <2>1, <2>2, <2>5 DEF RowIsOfApplied, Replays
    <2>9. AppliedHasRow'
      <3> SUFFICES ASSUME NEW o \in applied \cup {r}
                   PROVE  /\ row'[SlotOf[o]] # NoRow
                          /\ row'[SlotOf[o]].body = BodyOf[o]
                          /\ Replays(o) => row'[SlotOf[o]].by = o
        BY <2>1 DEF AppliedHasRow, Replays
      <3>1. o \in Request /\ SlotOf[o] \in Slot
        BY DEF KeyTypeOK
      <3>2. CASE SlotOf[o] = SlotOf[r] /\ o # r
        BY <3>1, <3>2, <2>2, <2>5, <2>6 DEF AppliedHasRow, Replays
      <3>3. CASE SlotOf[o] # SlotOf[r]
        BY <3>1, <3>3, <2>5 DEF AppliedHasRow
      <3>4. CASE o = r
        BY <3>1, <3>4, <2>2, <2>5
      <3> QED
        BY <3>2, <3>3, <3>4
    <2>10. UnansweredBefore'
      BY <1>8 DEF Commit, Release, Tell, UnansweredBefore, KeyTypeOK
    <2> QED
      BY <2>3, <2>7, <2>8, <2>9, <2>10
  <1>9. CASE RollbackKey(r)
    BY <1>9, ReleaseKeepsStoreInv DEF RollbackKey
  <1> QED
    BY <1>1, <1>2, <1>3, <1>4, <1>5, <1>6, <1>7, <1>8, <1>9 DEF Step

LEMMA PruneKeepsStoreInv ==
  ASSUME StoreInv, NEW s \in Slot, Prune(s)
  PROVE  StoreInv'
  <1> USE DEF StoreInv, Prune
  <1>1. KeyTypeOK' /\ UnansweredBefore'
    BY DEF KeyTypeOK, UnansweredBefore
  <1>2. KeyReserved'
    BY DEF KeyTypeOK, KeyReserved, InFlight
  <1>3. RowIsOfApplied' /\ AppliedHasRow'
    BY DEF KeyTypeOK, RowIsOfApplied, AppliedHasRow
  <1> QED
    BY <1>1, <1>2, <1>3

LEMMA StoreInvariant == KeySpec => []StoreInv
  <1>1. StoreInv /\ [KeyNext]_keyVars => StoreInv'
    <2> SUFFICES ASSUME StoreInv, [KeyNext]_keyVars PROVE StoreInv'
      OBVIOUS
    <2>1. CASE UNCHANGED keyVars
      BY <2>1 DEF keyVars, StoreInv, KeyTypeOK, KeyReserved, RowIsOfApplied, AppliedHasRow,
                  UnansweredBefore
    <2>2. CASE KeyNext
      BY <2>2, StepKeepsStoreInv, PruneKeepsStoreInv DEF KeyNext
    <2> QED
      BY <2>1, <2>2
  <1> QED
    BY <1>1, InitStoreInv, PTL DEF KeySpec

(* The rows and the state of the requests have their types. *)
THEOREM StoreTypeOK == KeySpec => []KeyTypeOK
  <1>1. StoreInv => KeyTypeOK
    BY DEF StoreInv
  <1> QED
    BY <1>1, StoreInvariant, PTL

(* No interleaving, failure or retry applies two requests of one key.       *)
THEOREM StoreAppliedOnce == KeySpec => []AppliedOnce
  <1>1. StoreInv => AppliedOnce
    BY DEF StoreInv, AppliedHasRow, AppliedOnce, Replays
  <1> QED
    BY <1>1, StoreInvariant, PTL

(* Nor does one of a caller that only registers apply two different ones.   *)
THEOREM StoreOneBodyPerKey == KeySpec => []OneBodyPerKey
  <1>1. StoreInv => OneBodyPerKey
    BY DEF StoreInv, AppliedHasRow, OneBodyPerKey
  <1> QED
    BY <1>1, StoreInvariant, PTL

(* No key is kept without its response, nothing is applied without its key. *)
THEOREM StoreNoOrphan == KeySpec => []NoOrphan
  <1>1. StoreInv => NoOrphan
    BY DEF StoreInv, KeyTypeOK, RowIsOfApplied, AppliedHasRow, NoOrphan
  <1> QED
    BY <1>1, StoreInvariant, PTL

(* The services that replay keep the promise of OncePerKey, whatever the    *)
(* others do with the same table.                                           *)
THEOREM StoreImplementsOnce == KeySpec => OnceSpec
  <1> DEFINE served == {r \in Request : Replays(r)}
             first == [s \in Replaying |-> IF row[s] = NoRow THEN NoRequest ELSE row[s].by]
             told == [r \in served |-> response[r]]
  <1>1. KeyInit => Once!OnceInit
    BY DEF KeyInit, Once!OnceInit
  <1>2. StoreInv /\ [KeyNext]_keyVars => [Once!OnceNext]_(Once!onceVars)
    <2> SUFFICES ASSUME StoreInv, [KeyNext]_keyVars
                 PROVE  Once!OnceNext \/ (first' = first /\ told' = told)
      BY DEF Once!onceVars
    <2> USE DEF StoreInv
    <2>1. ASSUME NEW r \in Request, Release(r), Tell(r, "failed", NoRequest) \/
                   Tell(r, "conflict", NoRequest) \/ Tell(r, "duplicate", NoRequest),
                 pc[r] # "ended", row' = row
          PROVE  first' = first /\ told' = told
      <3>1. response' = response
        BY <2>1 DEF Tell, KeyTypeOK, UnansweredBefore
      <3> QED
        BY <2>1, <3>1 DEF Replays
    <2>2. ASSUME NEW r \in Request, LookupReplay(r) PROVE Once!Replay(r) /\ r \in served
      <3>1. /\ row[SlotOf[r]].by \in Request /\ SlotOf[r] \in Replaying
            /\ first[SlotOf[r]] = row[SlotOf[r]].by /\ first' = first
        BY <2>2 DEF LookupReplay, KeyTypeOK, RowIsOfApplied, Replays
      <3>2. told' = [told EXCEPT ![r] = row[SlotOf[r]].by] /\ told[r] = NoRequest
        BY <2>2 DEF LookupReplay, Tell, KeyTypeOK, UnansweredBefore, Replays
      <3>3. BodyOf[row[SlotOf[r]].by] = BodyOf[r] /\ r \in served
        BY <2>2 DEF LookupReplay, RowIsOfApplied
      <3> QED
        BY <3>1, <3>2, <3>3 DEF Once!Replay
    <2>3. ASSUME NEW r \in Request, Commit(r), Replays(r) PROVE Once!Apply(r)
      <3> DEFINE new == [body |-> BodyOf[r], done |-> Replays(r), by |-> r]
      <3>1. /\ row[SlotOf[r]] = NoRow /\ SlotOf[r] \in Replaying
            /\ row' = [row EXCEPT ![SlotOf[r]] = new]
        BY <2>3 DEF Commit, KeyReserved, Replays
      <3>2. new \in Row
        <4>1. Replays(r) \in BOOLEAN
          BY DEF Replays
        <4> QED
          BY <4>1, Zenon DEF Row
      <3>3. new # NoRow /\ new.by = r
        BY <3>2 DEF Row
      <3> HIDE DEF new
      <3>4. first' = [first EXCEPT ![SlotOf[r]] = r]
        BY <3>1, <3>3 DEF KeyTypeOK
      <3>5. told' = [told EXCEPT ![r] = r] /\ told[r] = NoRequest
        BY <2>3 DEF Commit, Tell, KeyTypeOK, UnansweredBefore, Replays
      <3> QED
        BY <3>1, <3>4, <3>5 DEF Once!Apply
    <2>4. ASSUME NEW r \in Request, Commit(r), ~Replays(r) PROVE first' = first /\ told' = told
      <3>1. SlotOf[r] \notin Replaying
        BY <2>4 DEF Replays
      <3>2. \A s \in Replaying : row'[s] = row[s]
        BY <2>4, <3>1 DEF Commit, KeyTypeOK
      <3>3. \A o \in served : response'[o] = response[o]
        BY <2>4 DEF Commit, Tell, KeyTypeOK
      <3> QED
        BY <3>2, <3>3 DEF Replays
    <2>5. ASSUME NEW s \in Slot, Prune(s) PROVE Once!OnceNext \/ (first' = first /\ told' = told)
      <3>1. told' = told
        BY <2>5 DEF Prune, Replays
      <3>2. CASE s \in Replaying
        <4>1. first' = [first EXCEPT ![s] = NoRequest]
          BY <2>5 DEF Prune, KeyTypeOK
        <4> QED
          BY <3>1, <3>2, <4>1 DEF Once!Forget, Once!OnceNext
      <3>3. CASE s \notin Replaying
        BY <2>5, <3>1, <3>3 DEF Prune, KeyTypeOK
      <3> QED
        BY <3>2, <3>3
    <2>6. ASSUME NEW r \in Request, Step(r) \/ RollbackKey(r)
          PROVE  Once!OnceNext \/ (first' = first /\ told' = told)
      <3>1. CASE LookupOtherBody(r) \/ InsertDuplicate(r) \/ RollbackKey(r)
        BY <2>1, <3>1 DEF LookupOtherBody, InsertDuplicate, RollbackKey
      <3>2. CASE LookupNothing(r) \/ LookupPending(r) \/ Insert(r) \/ Lock(r)
        BY <3>2 DEF LookupNothing, LookupPending, Insert, Lock, Replays
      <3>3. CASE LookupReplay(r)
        BY <2>2, <3>3 DEF Once!OnceNext
      <3>4. CASE Commit(r)
        BY <2>3, <2>4, <3>4 DEF Once!OnceNext
      <3> QED
        BY <2>6, <3>1, <3>2, <3>3, <3>4 DEF Step
    <2>7. CASE UNCHANGED keyVars
      BY <2>7 DEF keyVars, Replays
    <2> QED
      BY <2>5, <2>6, <2>7 DEF KeyNext
  <1> QED
    BY <1>1, <1>2, StoreInvariant, PTL DEF KeySpec, OnceSpec, Once!OnceSpec

=============================================================================
