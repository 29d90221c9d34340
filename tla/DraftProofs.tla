---------------------------- MODULE DraftProofs -----------------------------
(***************************************************************************)
(* Proofs about the drafts of sales, for any number of lines and           *)
(* concurrent requests: the movements of a posted sale match its lines.    *)
(* An edit takes the lock of a line before that of the sale and a post     *)
(* the other way round, so the argument is not that one lock protects the  *)
(* lines: it is that an edit has changed nothing before it holds both      *)
(* (EditLocks, PostLocks), and that the lines an open edit will change     *)
(* have no movement (EditsUnmoved).                                        *)
(***************************************************************************)
EXTENDS SaleDraft, TLAPS

(* The part of TypeOK the argument needs. *)
ShapeOK ==
    /\ status \in {"draft", "posted", "gone"}
    /\ quantity \in [Line -> Nat]
    /\ number \in [Line -> Nat]
    /\ fresh \in SUBSET Line
    /\ moved \in [Line -> Nat]
    /\ txn \in [Request -> Txn]

(* The edit has done its statement on the line. *)
Wrote(r) == txn[r].op \in {"add", "update", "delete"}
            /\ txn[r].pc \in {"sum", "readDiscount", "total", "commit"}

(* Locks conflict. *)
LocksExclude ==
    \A r, o \in Request : r # o =>
        /\ txn[r].doc = "update" => txn[o].doc = "none"
        /\ txn[r].held \cap txn[o].held = {}

EditLocks ==
    \A r \in Request :
        /\ txn[r].pc \in {"sum", "readDiscount", "total"} => Wrote(r)
        /\ txn[r].pc = "insert" => txn[r].op = "add"
        /\ txn[r].pc = "write" => txn[r].op \in {"update", "delete"}
        /\ txn[r].pc = "discount" => txn[r].op = "discount"
        /\ Wrote(r) => IF txn[r].op = "add" THEN txn[r].doc # "none"
                                            ELSE txn[r].line \subseteq txn[r].held
        /\ txn[r].pc = "commit" => txn[r].doc = "nokey"

(* A post or a deletion holds the sale, and the lines are as it read them.  *)
PostLocks ==
    \A r \in Request :
        txn[r].pc = "lines" =>
            /\ txn[r].doc = "update"
            /\ txn[r].read = quantity
            /\ status = "draft"

(* Ids not given yet have no row and no movement, and no edit is on them.   *)
FreshUnused ==
    /\ \A l \in fresh : quantity[l] = 0 /\ moved[l] = 0
    /\ \A r \in Request : txn[r].line \cap fresh = {}

EditsUnmoved == \A r \in Request : Wrote(r) => \A l \in txn[r].line : moved[l] = 0

MovedOncePosted == status # "posted" => moved = NoRows

DraftInv ==
    ShapeOK /\ LocksExclude /\ EditLocks /\ PostLocks /\ FreshUnused
    /\ EditsUnmoved /\ MovedOncePosted /\ MovedAsSold

-----------------------------------------------------------------------------

LEMMA NoTxnShape == NoTxn \in Txn /\ Ended \in Txn
  BY DEF NoTxn, Ended, Edit, Txn, NoRows

(* The draft is created with its lines and no request has begun. *)
LEMMA InitDraftInv == Init => DraftInv
  <1> SUFFICES ASSUME Init PROVE DraftInv
    OBVIOUS
  <1> USE DEF Init, NoTxn, Edit, NoRows
  <1>1. ShapeOK
    <2>1. quantity \in [Line -> Nat] /\ number \in [Line -> Nat]
      BY OpeningAssumption
    <2> QED BY <2>1, NoTxnShape DEF ShapeOK
  <1>2. LocksExclude /\ EditLocks /\ PostLocks
    BY DEF LocksExclude, EditLocks, PostLocks, Wrote
  <1>3. FreshUnused /\ EditsUnmoved /\ MovedOncePosted /\ MovedAsSold
    BY DEF FreshUnused, EditsUnmoved, MovedOncePosted, MovedAsSold, Wrote
  <1> QED BY <1>1, <1>2, <1>3 DEF DraftInv

(* A request that ends is on no line and frees its locks. *)
LEMMA ReleaseFreesLocks ==
  ASSUME DraftInv, NEW r \in Request, Release(r)
  PROVE  /\ txn' \in [Request -> Txn] /\ \A o \in Request \ {r} : txn'[o] = txn[o]
         /\ txn'[r].pc = "ended" /\ txn'[r].line = {} /\ ~Wrote(r)'
         /\ LocksExclude' /\ EditLocks'
  <1>1. txn \in [Request -> Txn] /\ txn' = [txn EXCEPT ![r] = Ended] /\ Ended \in Txn
    BY NoTxnShape DEF DraftInv, ShapeOK, Release
  <1>2. /\ Ended.op = "none" /\ Ended.pc = "ended" /\ Ended.line = {}
        /\ Ended.doc = "none" /\ Ended.held = {}
    BY DEF Ended, Edit
  <1>3. txn' \in [Request -> Txn] /\ txn'[r] = Ended /\ \A o \in Request \ {r} : txn'[o] = txn[o]
    BY <1>1
  <1>4. LocksExclude'
    BY <1>2, <1>3 DEF DraftInv, LocksExclude
  <1>5. EditLocks'
    BY <1>2, <1>3 DEF DraftInv, EditLocks, Wrote
  <1> QED BY <1>2, <1>3, <1>4, <1>5 DEF Wrote

(* A request that ends and changes neither the status nor a line. *)
LEMMA ReleaseKeepsDraftInv ==
  ASSUME DraftInv, NEW r \in Request, Release(r),
         UNCHANGED <<status, quantity, number, fresh, moved>>
  PROVE  DraftInv'
  <1> USE DEF DraftInv
  <1>1. ShapeOK' /\ LocksExclude' /\ EditLocks'
    BY ReleaseFreesLocks DEF ShapeOK
  <1>2. PostLocks'
    BY ReleaseFreesLocks DEF PostLocks
  <1>3. FreshUnused' /\ MovedOncePosted' /\ MovedAsSold'
    BY ReleaseFreesLocks DEF FreshUnused, MovedOncePosted, MovedAsSold, NoRows
  <1>4. EditsUnmoved'
    BY ReleaseFreesLocks DEF EditsUnmoved, Wrote
  <1> QED BY <1>1, <1>2, <1>3, <1>4

(* A request that goes on without committing: it keeps or takes locks       *)
(* nobody else holds, and may take an id of a line from the sequence.       *)
LEMMA GoesOnKeepsDraftInv ==
  ASSUME DraftInv, NEW r \in Request,
         UNCHANGED <<status, quantity, number, moved>>, fresh' \subseteq fresh,
         txn' \in [Request -> Txn], \A o \in Request \ {r} : txn'[o] = txn[o],
         \A o \in Request \ {r} :
            /\ txn'[r].doc = "update" => txn[o].doc = "none"
            /\ txn[o].doc = "update" => txn'[r].doc = "none"
            /\ txn'[r].held \cap txn[o].held = {},
         txn'[r].pc \in {"sum", "readDiscount", "total"} => Wrote(r)',
         txn'[r].pc = "insert" => txn'[r].op = "add",
         txn'[r].pc = "write" => txn'[r].op \in {"update", "delete"},
         txn'[r].pc = "discount" => txn'[r].op = "discount",
         Wrote(r)' => IF txn'[r].op = "add" THEN txn'[r].doc # "none"
                                            ELSE txn'[r].line \subseteq txn'[r].held,
         txn'[r].pc = "commit" => txn'[r].doc = "nokey",
         txn'[r].pc = "lines" =>
            txn'[r].doc = "update" /\ txn'[r].read = quantity /\ status = "draft",
         txn'[r].line \cap fresh' = {},
         Wrote(r)' => \A l \in txn'[r].line : moved[l] = 0
  PROVE  DraftInv'
  <1> USE DEF DraftInv
  <1>1. ShapeOK'
    BY DEF ShapeOK
  <1>2. LocksExclude'
    BY DEF LocksExclude
  <1>3. EditLocks'
    BY DEF EditLocks, Wrote
  <1>4. PostLocks'
    BY DEF PostLocks
  <1>5. FreshUnused'
    BY DEF FreshUnused
  <1>6. EditsUnmoved'
    BY DEF EditsUnmoved, Wrote
  <1>7. MovedOncePosted' /\ MovedAsSold'
    BY DEF MovedOncePosted, MovedAsSold, NoRows
  <1> QED BY <1>1, <1>2, <1>3, <1>4, <1>5, <1>6, <1>7

(* The first read of a request. *)
LEMMA StartKeepsDraftInv ==
  ASSUME DraftInv, NEW r \in Request, Start(r)
  PROVE  DraftInv'
  <1> USE DEF Starts, rows
  <1>0. /\ txn \in [Request -> Txn] /\ fresh \in SUBSET Line /\ quantity \in [Line -> Nat]
        /\ number \in [Line -> Nat]
        /\ NoRows \in [Line -> Nat]
    BY DEF DraftInv, ShapeOK, NoRows
  <1>1. ASSUME NEW t \in Txn, txn' = [txn EXCEPT ![r] = t], UNCHANGED rows,
               t.doc = "none", t.held = {}, t.line \cap fresh = {},
               \/ t.pc = "insert" /\ t.op = "add"
               \/ t.pc = "write" /\ t.op \in {"update", "delete"}
               \/ t.pc = "discount" /\ t.op = "discount"
        PROVE  DraftInv'
    <2>1. txn' \in [Request -> Txn] /\ txn'[r] = t /\ \A o \in Request \ {r} : txn'[o] = txn[o]
      BY <1>0, <1>1
    <2> QED BY <1>1, <2>1, GoesOnKeepsDraftInv DEF Wrote
  <1>2. ASSUME NEW op \in {"post", "drop"}, op \in Operation, DocFree(r, "update"),
               status = "draft", txn' = [txn EXCEPT ![r] = SaleLocked(op)], UNCHANGED rows
        PROVE  DraftInv'
    <2>1. SaleLocked(op) \in Txn
      BY <1>0, <1>2 DEF SaleLocked, Txn
    <2>2. /\ txn' \in [Request -> Txn] /\ txn'[r] = SaleLocked(op)
          /\ \A o \in Request \ {r} : txn'[o] = txn[o]
      BY <1>0, <1>2, <2>1
    <2>3. \A o \in Request \ {r} : txn[o].doc = "none"
      BY <1>0, <1>2 DEF DocFree, DocHeldBy, Conflicts, Txn
    <2>4. /\ txn'[r].doc = "update" /\ txn'[r].held = {} /\ txn'[r].line = {}
          /\ txn'[r].pc = "lines" /\ txn'[r].read = quantity
      BY <2>2 DEF SaleLocked
    <2> QED BY <1>2, <2>2, <2>3, <2>4, GoesOnKeepsDraftInv DEF Wrote
  <1>3. ASSUME NEW q \in Quantity, StartAdd(r, q) PROVE DraftInv'
    <2> PICK n \in {1} \cup {number[l] + 1 : l \in Rows} :
            txn' = [txn EXCEPT ![r] = Edit("add", "insert", {}, q, n)]
      BY <1>3 DEF StartAdd
    <2>1. n \in Nat
      BY <1>0 DEF Rows
    <2>2. Edit("add", "insert", {}, q, n) \in Txn
      BY <1>0, <1>3, <2>1, QuantityAssumption DEF Edit, Txn, StartAdd
    <2> QED BY <1>1, <1>3, <2>2 DEF Edit, StartAdd
  <1>4. ASSUME NEW l \in Line, NEW q \in Quantity, StartUpdate(r, l, q) PROVE DraftInv'
    <2>1. l \notin fresh
      BY <1>4 DEF StartUpdate, Rows, DraftInv, FreshUnused
    <2>2. Edit("update", "write", {l}, q, 0) \in Txn
      BY <1>0, <1>4, QuantityAssumption DEF Edit, Txn, StartUpdate
    <2> QED BY <1>1, <1>4, <2>1, <2>2 DEF Edit, StartUpdate
  <1>5. ASSUME NEW l \in Line, StartDelete(r, l) PROVE DraftInv'
    <2>1. l \notin fresh
      BY <1>5 DEF StartDelete, Rows, DraftInv, FreshUnused
    <2>2. Edit("delete", "write", {l}, 0, 0) \in Txn
      BY <1>0, <1>5 DEF Edit, Txn, StartDelete
    <2> QED BY <1>1, <1>5, <2>1, <2>2 DEF Edit, StartDelete
  <1>6. ASSUME NEW d \in Discount, StartDiscount(r, d) PROVE DraftInv'
    <2>1. Edit("discount", "discount", {}, d, 0) \in Txn
      BY <1>0, <1>6, DiscountAssumption DEF Edit, Txn, StartDiscount
    <2> QED BY <1>1, <1>6, <2>1 DEF Edit, StartDiscount
  <1>7. CASE StartPost(r)
    BY <1>2, <1>7 DEF StartPost
  <1>8. CASE StartDrop(r)
    BY <1>2, <1>8 DEF StartDrop
  <1> QED BY <1>3, <1>4, <1>5, <1>6, <1>7, <1>8 DEF Start

(* The statements of an edit, and the lines a post or a deletion locks. *)
LEMMA StatementKeepsDraftInv ==
  ASSUME DraftInv, NEW r \in Request,
         \/ InsertLine(r) \/ WriteLine(r) \/ SumLines(r) \/ ReadDiscount(r)
         \/ WriteTotal(r) \/ WriteDiscount(r) \/ \E l \in Line : LockLine(r, l)
  PROVE  DraftInv'
  <1> USE DEF rows
  <1>0. /\ txn \in [Request -> Txn] /\ txn[r] \in Txn /\ fresh \in SUBSET Line
        /\ \A o \in Request \ {r} :
              /\ txn[r].doc = "update" => txn[o].doc = "none"
              /\ txn[o].doc = "update" => txn[r].doc = "none"
              /\ txn[r].held \cap txn[o].held = {}
        /\ txn[r].line \cap fresh = {}
    BY DEF DraftInv, ShapeOK, LocksExclude, FreshUnused
  <1>1. ASSUME InsertLine(r) PROVE DraftInv'
    <2> PICK l \in fresh :
            /\ fresh' = fresh \ {l}
            /\ txn' = [txn EXCEPT ![r].pc = "sum", ![r].line = {l}, ![r].doc = "share"]
      BY <1>1 DEF InsertLine
    <2>1. /\ txn' \in [Request -> Txn] /\ \A o \in Request \ {r} : txn'[o] = txn[o]
          /\ txn'[r].pc = "sum" /\ txn'[r].line = {l} /\ txn'[r].doc = "share"
          /\ txn'[r].op = txn[r].op /\ txn'[r].held = txn[r].held
      BY <1>0 DEF Txn
    <2>2. \A o \in Request \ {r} : txn[o].doc # "update"
      BY <1>1 DEF InsertLine, DocFree, DocHeldBy, Conflicts
    <2>3. txn[r].op = "add" /\ moved[l] = 0
      BY <1>1 DEF InsertLine, DraftInv, EditLocks, FreshUnused
    <2>4. UNCHANGED <<status, quantity, number, moved>> /\ fresh' \subseteq fresh
          /\ txn'[r].line \cap fresh' = {}
      BY <1>1, <2>1 DEF InsertLine
    <2>5. Wrote(r)' /\ \A k \in txn'[r].line : moved[k] = 0
      BY <2>1, <2>3 DEF Wrote
    <2>6. \A o \in Request \ {r} : txn'[r].held \cap txn[o].held = {}
      BY <1>0, <2>1
    <2> QED BY <2>1, <2>2, <2>3, <2>4, <2>5, <2>6, GoesOnKeepsDraftInv
  <1>2. ASSUME WriteLine(r) PROVE DraftInv'
    <2>1. /\ txn' \in [Request -> Txn] /\ \A o \in Request \ {r} : txn'[o] = txn[o]
          /\ txn'[r].pc = "sum" /\ txn'[r].line = txn[r].line /\ txn'[r].doc = txn[r].doc
          /\ txn'[r].op = txn[r].op /\ txn'[r].held = txn[r].line
      BY <1>0, <1>2 DEF WriteLine, Txn
    <2>2. \A o \in Request \ {r} : txn[r].line \cap txn[o].held = {}
      BY <1>2 DEF WriteLine, LineFree
    <2>3. txn[r].op \in {"update", "delete"}
      BY <1>2 DEF WriteLine, DraftInv, EditLocks
    <2>4. ASSUME NEW l \in txn[r].line PROVE moved[l] = 0
      <3>1. l \in Line /\ moved[l] \in Nat /\ quantity[l] \in Nat
        BY <1>0 DEF Txn, DraftInv, ShapeOK
      <3>2. CASE l \in Rows
        BY <1>2, <3>1, <3>2 DEF WriteLine, LineMutable, DraftInv, MovedOncePosted, NoRows
      <3>3. CASE l \notin Rows
        BY <3>1, <3>3 DEF Rows, DraftInv, MovedAsSold
      <3> QED BY <3>2, <3>3
    <2> QED BY <1>0, <1>2, <2>1, <2>2, <2>3, <2>4, GoesOnKeepsDraftInv DEF WriteLine, Wrote
  <1>3. ASSUME NEW p \in {"readDiscount", "total"}, UNCHANGED rows, Wrote(r),
               txn' = [txn EXCEPT ![r].pc = p]
        PROVE  DraftInv'
    <2>1. /\ txn' \in [Request -> Txn] /\ \A o \in Request \ {r} : txn'[o] = txn[o]
          /\ txn'[r].pc = p /\ txn'[r].line = txn[r].line /\ txn'[r].doc = txn[r].doc
          /\ txn'[r].op = txn[r].op /\ txn'[r].held = txn[r].held
      BY <1>0, <1>3 DEF Txn
    <2>2. /\ IF txn[r].op = "add" THEN txn[r].doc # "none" ELSE txn[r].line \subseteq txn[r].held
          /\ \A l \in txn[r].line : moved[l] = 0
      BY <1>3 DEF DraftInv, EditLocks, EditsUnmoved
    <2> QED BY <1>0, <1>3, <2>1, <2>2, GoesOnKeepsDraftInv DEF Wrote
  <1>4. CASE SumLines(r)
    BY <1>3, <1>4 DEF SumLines, DraftInv, EditLocks
  <1>5. CASE ReadDiscount(r)
    BY <1>3, <1>5 DEF ReadDiscount, DraftInv, EditLocks
  <1>6. ASSUME WriteTotal(r) \/ WriteDiscount(r) PROVE DraftInv'
    <2>0. txn' = [txn EXCEPT ![r].pc = "commit", ![r].doc = "nokey"]
      BY <1>6 DEF WriteTotal, WriteDiscount
    <2>1. /\ txn' \in [Request -> Txn] /\ \A o \in Request \ {r} : txn'[o] = txn[o]
          /\ txn'[r].pc = "commit" /\ txn'[r].line = txn[r].line /\ txn'[r].doc = "nokey"
          /\ txn'[r].op = txn[r].op /\ txn'[r].held = txn[r].held
      BY <1>0, <2>0 DEF Txn
    <2>2. \A o \in Request \ {r} : txn[o].doc # "update"
      BY <1>6 DEF WriteTotal, WriteDiscount, DocFree, DocHeldBy, Conflicts
    <2>3. Wrote(r)' => Wrote(r)
      BY <1>6, <2>1 DEF WriteTotal, WriteDiscount, Wrote, DraftInv, EditLocks
    <2>4. Wrote(r) =>
            /\ txn[r].op = "add" \/ txn[r].line \subseteq txn[r].held
            /\ \A l \in txn[r].line : moved[l] = 0
      BY DEF DraftInv, EditLocks, EditsUnmoved
    <2>5. UNCHANGED <<status, quantity, number, moved, fresh>>
      BY <1>6 DEF WriteTotal, WriteDiscount
    <2> QED BY <1>0, <2>1, <2>2, <2>3, <2>4, <2>5, GoesOnKeepsDraftInv
  <1>7. ASSUME NEW l \in Line, LockLine(r, l) PROVE DraftInv'
    <2>0. txn' = [txn EXCEPT ![r].held = @ \cup {l}] /\ txn[r].pc = "lines"
          /\ UNCHANGED rows
      BY <1>7 DEF LockLine
    <2>1. /\ txn' \in [Request -> Txn] /\ \A o \in Request \ {r} : txn'[o] = txn[o]
          /\ txn'[r].pc = "lines" /\ txn'[r].line = txn[r].line /\ txn'[r].doc = txn[r].doc
          /\ txn'[r].read = txn[r].read /\ txn'[r].held = txn[r].held \cup {l}
      <3> DEFINE u == [txn[r] EXCEPT !.held = @ \cup {l}]
      <3>1. txn[r] \in Txn
        BY <1>0
      <3>2. /\ u \in Txn /\ u.pc = txn[r].pc /\ u.line = txn[r].line /\ u.doc = txn[r].doc
            /\ u.read = txn[r].read /\ u.held = txn[r].held \cup {l}
        BY <3>1 DEF Txn
      <3>3. txn' = [txn EXCEPT ![r] = u]
        BY <2>0
      <3> HIDE DEF u
      <3> QED BY <1>0, <2>0, <3>2, <3>3
    <2>2. \A o \in Request \ {r} : l \notin txn[o].held
      BY <1>7 DEF LockLine, LineFree
    <2>3. txn[r].doc = "update" /\ txn[r].read = quantity /\ status = "draft"
      BY <1>7 DEF LockLine, DraftInv, PostLocks
    <2>4. \A o \in Request \ {r} : txn'[r].held \cap txn[o].held = {}
      BY <1>0, <2>1, <2>2
    <2>5. ~Wrote(r)'
      BY <2>1 DEF Wrote
    <2>6. UNCHANGED <<status, quantity, number, moved, fresh>>
      BY <2>0
    <2> QED BY <1>0, <2>1, <2>3, <2>4, <2>5, <2>6, GoesOnKeepsDraftInv
  <1> QED BY <1>1, <1>2, <1>4, <1>5, <1>6, <1>7

(* An edit holds the sale when it commits, so no post has read the lines it *)
(* changes, and none of them has a movement.                               *)
LEMMA CommitEditKeepsDraftInv ==
  ASSUME DraftInv, NEW r \in Request, CommitEdit(r)
  PROVE  DraftInv'
  <1>1. /\ txn[r].pc = "commit" /\ txn[r].op \in {"add", "update", "delete"}
        /\ quantity' = Seen(r) /\ Release(r)
        /\ UNCHANGED <<status, fresh, moved>>
    BY DEF CommitEdit
  <1>2. txn[r] \in Txn /\ txn[r].doc = "nokey" /\ txn[r].line \cap fresh = {}
        /\ \A l \in txn[r].line : moved[l] = 0
    BY <1>1 DEF DraftInv, ShapeOK, EditLocks, FreshUnused, EditsUnmoved, Wrote
  <1>3. \A l \in Line : l \notin txn[r].line => quantity'[l] = quantity[l]
    BY <1>1 DEF Seen
  <1>4. ShapeOK'
    <2>1. quantity' \in [Line -> Nat]
      BY <1>1, <1>2 DEF Seen, Txn, DraftInv, ShapeOK
    <2>2. number' \in [Line -> Nat]
      BY <1>2 DEF CommitEdit, Txn, DraftInv, ShapeOK
    <2> QED BY <1>1, <2>1, <2>2, ReleaseFreesLocks DEF DraftInv, ShapeOK
  <1>5. LocksExclude' /\ EditLocks'
    BY <1>1, ReleaseFreesLocks
  <1>6. PostLocks'
    <2>1. \A o \in Request : txn[o].pc # "lines"
      BY <1>1, <1>2 DEF DraftInv, LocksExclude, PostLocks
    <2> QED BY <1>1, <2>1, ReleaseFreesLocks DEF PostLocks
  <1>7. FreshUnused'
    <2>1. \A l \in fresh : l \in Line /\ quantity'[l] = 0 /\ moved[l] = 0
      BY <1>2, <1>3 DEF DraftInv, ShapeOK, FreshUnused
    <2> QED BY <1>1, <2>1, ReleaseFreesLocks DEF DraftInv, FreshUnused
  <1>8. EditsUnmoved'
    BY <1>1, ReleaseFreesLocks DEF DraftInv, EditsUnmoved, Wrote
  <1>9. MovedOncePosted' /\ MovedAsSold'
    BY <1>1, <1>2, <1>3 DEF DraftInv, MovedOncePosted, MovedAsSold, NoRows
  <1> QED BY <1>4, <1>5, <1>6, <1>7, <1>8, <1>9 DEF DraftInv

(* A post or a deletion has the sale and all its lines when it commits: the *)
(* open edits have written none of them.                                   *)
LEMMA CommitPostKeepsDraftInv ==
  ASSUME DraftInv, NEW r \in Request, CommitPost(r)
  PROVE  DraftInv'
  <1>1. /\ txn[r].pc = "lines" /\ LinesLocked(r) /\ Release(r)
        /\ status' = "posted" /\ moved' = txn[r].read
        /\ UNCHANGED <<quantity, number, fresh>>
    BY DEF CommitPost
  <1>2. /\ txn[r].doc = "update" /\ txn[r].read = quantity /\ quantity \in [Line -> Nat]
        /\ \A o \in Request \ {r} : txn[o].doc = "none" /\ txn[r].held \cap txn[o].held = {}
    BY <1>1 DEF DraftInv, ShapeOK, PostLocks, LocksExclude
  <1>3. ShapeOK' /\ LocksExclude' /\ EditLocks'
    BY <1>1, <1>2, ReleaseFreesLocks DEF DraftInv, ShapeOK
  <1>4. PostLocks'
    <2>1. \A o \in Request \ {r} : txn[o].pc # "lines"
      BY <1>2 DEF DraftInv, PostLocks
    <2> QED BY <1>1, <2>1, ReleaseFreesLocks DEF PostLocks
  <1>5. FreshUnused'
    BY <1>1, <1>2, ReleaseFreesLocks DEF DraftInv, FreshUnused
  <1>6. EditsUnmoved'
    <2>1. ASSUME NEW o \in Request \ {r}, Wrote(o), NEW l \in txn[o].line
          PROVE  moved'[l] = 0
      <3>1. l \in txn[o].held /\ l \in Line
        BY <1>2, <2>1 DEF DraftInv, ShapeOK, EditLocks, Txn
      <3>2. l \notin txn[r].held
        BY <1>2, <3>1
      <3> QED BY <1>1, <1>2, <3>1, <3>2 DEF LinesLocked
    <2> QED BY <1>1, <2>1, ReleaseFreesLocks DEF EditsUnmoved, Wrote
  <1>7. MovedOncePosted' /\ MovedAsSold'
    BY <1>1, <1>2 DEF MovedOncePosted, MovedAsSold
  <1> QED BY <1>3, <1>4, <1>5, <1>6, <1>7 DEF DraftInv

LEMMA CommitDropKeepsDraftInv ==
  ASSUME DraftInv, NEW r \in Request, CommitDrop(r)
  PROVE  DraftInv'
  <1>1. /\ txn[r].pc = "lines" /\ Release(r) /\ status' = "gone" /\ quantity' = NoRows
        /\ UNCHANGED <<number, fresh, moved>>
    BY DEF CommitDrop
  <1>2. /\ txn[r].doc = "update" /\ status = "draft" /\ moved = NoRows
        /\ \A o \in Request \ {r} : txn[o].doc = "none"
    BY <1>1 DEF DraftInv, PostLocks, LocksExclude, MovedOncePosted
  <1>3. \A l \in Line : quantity'[l] = 0 /\ moved[l] = 0
    BY <1>1, <1>2 DEF NoRows
  <1>4. ShapeOK' /\ LocksExclude' /\ EditLocks'
    <2>1. quantity' \in [Line -> Nat]
      BY <1>1 DEF NoRows
    <2> QED BY <1>1, <2>1, ReleaseFreesLocks DEF DraftInv, ShapeOK
  <1>5. PostLocks'
    <2>1. \A o \in Request \ {r} : txn[o].pc # "lines"
      BY <1>2 DEF DraftInv, PostLocks
    <2> QED BY <1>1, <2>1, ReleaseFreesLocks DEF PostLocks
  <1>6. FreshUnused'
    BY <1>1, <1>3, ReleaseFreesLocks DEF DraftInv, ShapeOK, FreshUnused
  <1>7. EditsUnmoved'
    BY <1>1, ReleaseFreesLocks DEF DraftInv, EditsUnmoved, Wrote
  <1>8. MovedOncePosted' /\ MovedAsSold'
    BY <1>1, <1>2, <1>3 DEF MovedOncePosted, MovedAsSold, NoRows
  <1> QED BY <1>4, <1>5, <1>6, <1>7, <1>8 DEF DraftInv

LEMMA NextKeepsDraftInv == DraftInv /\ [Next]_vars => DraftInv'
  <1> SUFFICES ASSUME DraftInv, [Next]_vars PROVE DraftInv'
    OBVIOUS
  <1>1. CASE UNCHANGED vars
    BY <1>1 DEF vars, DraftInv, ShapeOK, LocksExclude, EditLocks, PostLocks, FreshUnused,
                EditsUnmoved, MovedOncePosted, MovedAsSold, Wrote
  <1>2. ASSUME NEW r \in Request, Step(r) \/ Rollback(r) PROVE DraftInv'
    <2>1. CASE Start(r)
      BY <2>1, StartKeepsDraftInv
    <2>2. CASE \/ InsertLine(r) \/ WriteLine(r) \/ SumLines(r) \/ ReadDiscount(r)
               \/ WriteTotal(r) \/ WriteDiscount(r) \/ \E l \in Line : LockLine(r, l)
      BY <2>2, StatementKeepsDraftInv
    <2>3. CASE CommitEdit(r)
      BY <2>3, CommitEditKeepsDraftInv
    <2>4. CASE CommitPost(r)
      BY <2>4, CommitPostKeepsDraftInv
    <2>5. CASE CommitDrop(r)
      BY <2>5, CommitDropKeepsDraftInv
    <2>6. CASE CommitDiscount(r) \/ Refuse(r) \/ DetectDeadlock(r) \/ Rollback(r)
      BY <2>6, ReleaseKeepsDraftInv DEF CommitDiscount, Refuse, DetectDeadlock, Rollback, rows
    <2> QED BY <1>2, <2>1, <2>2, <2>3, <2>4, <2>5, <2>6 DEF Step
  <1> QED BY <1>1, <1>2 DEF Next

(* However many clients edit a draft while it is posted or deleted, and     *)
(* whichever request dies: a line that has a movement keeps the quantity    *)
(* the movement was made for.  No edit that began before the post takes     *)
(* effect on a line after it.                                              *)
THEOREM DraftMovedAsSold == Spec => []MovedAsSold
  <1>1. DraftInv => MovedAsSold
    BY DEF DraftInv
  <1> QED BY <1>1, InitDraftInv, NextKeepsDraftInv, PTL DEF Spec

=============================================================================
