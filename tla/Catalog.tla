------------------------------- MODULE Catalog -------------------------------
(***************************************************************************)
(* Master data: products with their prices, and the categories, units,     *)
(* attributes, contacts and cost types that rows refer to.                 *)
(*                                                                         *)
(* Every request reads and checks first, without a lock, and writes one    *)
(* row at the end, in the same transaction: a create, an edit, a           *)
(* deactivation and a hard delete are each a start and a commit, and       *)
(* other requests run in between.  Foreign keys and unique indexes judge   *)
(* the write.  An edit of a row with an "updated_at" must present the tag  *)
(* of the copy its client read, or "*"; the tag is compared with the row   *)
(* as it is read, not as it is written.  An import creates its rows one    *)
(* after the other, each in a transaction of its own.                      *)
(***************************************************************************)
EXTENDS Requests, Naturals, Sequences, FiniteSets

CONSTANTS
    Product, Category, Unit, Attribute, Contact, CostType,  \* ids
    Code,           \* product codes
    Price,          \* price lists: the six price columns of a product but one
    NoValue,        \* NULL
    Unused,         \* an id no row has had yet
    Deleted,        \* an id whose row was deleted; ids are never reused
    NewProduct,     \* rows clients ask to create
    ProductPatch,   \* fields clients ask to change, with their values
    File,           \* files clients import: sequences of rows
    Seed            \* the rows a run begins with

(* Bound: transactions begun, which is also the clock. *)
CONSTANT MaxTime

ASSUME MaxTimeAssumption == MaxTime \in Nat

VARIABLES
    rows,      \* the committed row of each id
    history,   \* product_price_history: the prices recorded for each product
    used,      \* products, contacts and cost types that documents refer to
    copy,      \* what the client of a request has read
    txn,       \* the transaction of each request
    now        \* time: the number of transactions begun

catalogVars == <<rows, history, used, copy, txn, now>>

Id == Product \cup Category \cup Unit \cup Attribute \cup Contact \cup CostType
Kind == {"jenis", "size", "kualitas"}
Dimension == {"mass", "count"}

(* Rows with an "updated_at", from which the tag is made. *)
Tagged == Product \cup Category \cup Attribute \cup Contact

ProductRow ==
    [code : Code \cup {NoValue}, price : Price, override : Price \cup {NoValue},
     category : Category \cup {NoValue}, unit : Unit \cup {NoValue},
     jenis : Attribute \cup {NoValue}, size : Attribute \cup {NoValue},
     kualitas : Attribute \cup {NoValue}, active : BOOLEAN, at : Nat]

(* The columns a client of a product fills in, with the values they take. *)
ProductColumn ==
    [code |-> Code \cup {NoValue}, price |-> Price, override |-> Price \cup {NoValue},
     category |-> Category \cup {NoValue}, unit |-> Unit \cup {NoValue},
     jenis |-> Attribute \cup {NoValue}, size |-> Attribute \cup {NoValue},
     kualitas |-> Attribute \cup {NoValue}, active |-> BOOLEAN]

CategoryRow == [parent : Category \cup {NoValue}, active : BOOLEAN, at : Nat]

UnitRow == [dimension : Dimension \cup {NoValue}, base : Unit \cup {NoValue}, active : BOOLEAN]

AttributeRow == [kind : Kind, active : BOOLEAN, at : Nat]

ContactRow == [type : {"customer", "supplier", "both"}, active : BOOLEAN, at : Nat]

CostTypeRow == [active : BOOLEAN]

Table(id) ==
    CASE id \in Product -> ProductRow
      [] id \in Category -> CategoryRow
      [] id \in Unit -> UnitRow
      [] id \in Attribute -> AttributeRow
      [] id \in Contact -> ContactRow
      [] id \in CostType -> CostTypeRow

(* Each table has ids of its own, and an id without a row is no row. *)
ASSUME IdAssumption ==
    /\ {NoValue, Unused, Deleted} \cap Id = {}
    /\ Unused # Deleted
    /\ Product \cap (Category \cup Unit \cup Attribute \cup Contact \cup CostType) = {}
    /\ Category \cap (Unit \cup Attribute \cup Contact \cup CostType) = {}
    /\ Unit \cap (Attribute \cup Contact \cup CostType) = {}
    /\ Attribute \cap (Contact \cup CostType) = {}
    /\ Contact \cap CostType = {}
    /\ \A id \in Id : Unused \notin Table(id) /\ Deleted \notin Table(id)

(* What clients ask for has the columns of a product. *)
ASSUME ClientAssumption ==
    /\ \A row \in NewProduct \cup UNION {{file[i] : i \in DOMAIN file} : file \in File} :
        /\ DOMAIN row = DOMAIN ProductColumn
        /\ \A f \in DOMAIN row : row[f] \in ProductColumn[f]
    /\ \A file \in File : DOMAIN file = 1 .. Len(file)
    /\ \A fields \in ProductPatch :
        /\ DOMAIN fields \subseteq DOMAIN ProductColumn
        /\ \A f \in DOMAIN fields : fields[f] \in ProductColumn[f]

Exists(id) == rows[id] \notin {Unused, Deleted}

Existing == {id \in Id : Exists(id)}

(* What a row's foreign keys point at. *)
Refers(row) ==
    {row[f] : f \in {"category", "unit", "jenis", "size", "kualitas", "parent", "base"}
                        \cap DOMAIN row} \ {NoValue}

(* ON DELETE RESTRICT: the rows and documents that hold "id". *)
Held(id) ==
    \/ id \in used
    \/ \E other \in Existing : id \in Refers(rows[other])
    \/ id \in Product /\ history[id] # <<>>

(* The rows a run begins with are those of a database that keeps its foreign keys. *)
ASSUME SeedAssumption ==
    LET there == {id \in Id : Seed[id] # Unused} IN
    /\ Seed = [id \in Id |-> Seed[id]]
    /\ \A id \in there :
        /\ Seed[id] \in Table(id)
        /\ id \in Tagged => Seed[id].at = 0
        /\ Refers(Seed[id]) \subseteq there
    /\ \A p \in Product \cap there, k \in Kind :
        Seed[p][k] # NoValue => Seed[Seed[p][k]].kind = k

Prices(row) == <<row.price, row.override>>

(* The unique indexes on the code and on the full combination. *)
Clashes(p, row) ==
    \E other \in Product \ {p} : Exists(other) /\
        \/ row.code # NoValue /\ rows[other].code = row.code
        \/ \A k \in Kind : row[k] # NoValue /\ rows[other][k] = row[k]

-----------------------------------------------------------------------------
(* Checks made while a request is open, on rows as they are then. *)

CodeTaken(code) == code # NoValue /\ \E p \in Product : Exists(p) /\ rows[p].code = code

(* Mutation: the kind of an attribute is not looked at. *)
AttributesExist(fields) ==
    \A k \in Kind \cap DOMAIN fields : fields[k] # NoValue => Exists(fields[k])

AttributesFit(fields) ==
    \A k \in Kind \cap DOMAIN fields :
        fields[k] # NoValue => Exists(fields[k]) /\ rows[fields[k]].kind = k

ParentsExist(row) == {row.category, row.unit} \ {NoValue} \subseteq Existing

SameDimension(base, dimension) ==
    base # NoValue =>
        /\ Exists(base)
        /\ rows[base].dimension = dimension \/ NoValue \in {rows[base].dimension, dimension}

NoTxn == [op |-> "none"]
NoCopy == [id |-> NoValue]

Idle(r) == txn[r].op = "none"

Open(r, request) ==
    /\ Idle(r)
    /\ now < MaxTime
    /\ now' = now + 1
    /\ txn' = [txn EXCEPT ![r] = request]
    /\ UNCHANGED <<rows, history, used, copy>>

Begin(r, op, id, fields) ==
    Open(r, [op |-> op, at |-> now + 1, id |-> id, fields |-> fields,
             seen |-> rows[id], copy |-> copy[r]])

Close(r) ==
    /\ txn' = [txn EXCEPT ![r] = NoTxn]
    /\ copy' = [copy EXCEPT ![r] = NoCopy]
    /\ now' = now

-----------------------------------------------------------------------------
(* A client reads a row, and later presents the tag of that copy; one that *)
(* has no copy presents "*".                                               *)

Read(r, id) ==
    /\ Idle(r)
    /\ now < MaxTime
    /\ Exists(id)
    /\ copy[r] # [id |-> id, row |-> rows[id]]
    /\ copy' = [copy EXCEPT ![r] = [id |-> id, row |-> rows[id]]]
    /\ UNCHANGED <<rows, history, used, txn, now>>

(* "If-Match: *" matches any row there is. *)
AnyTag(r) == copy[r] = NoCopy

TagMatches(r, id) ==
    /\ Exists(id)
    /\ AnyTag(r) \/ (copy[r].id = id /\ copy[r].row.at = rows[id].at)

-----------------------------------------------------------------------------
(* Creation. *)

Fresh(ids) == {id \in ids : rows[id] = Unused}

BeginCreate(r, table, row) ==
    Open(r, [op |-> "create", at |-> now + 1, table |-> table, fields |-> row])

(* The handler takes an override, the service does not hand it on. *)
Created(row) == [row EXCEPT !.override = NoValue]

CreateProduct(r) == \E row \in NewProduct :
    /\ ~ CodeTaken(row.code)
    /\ ParentsExist(row)
    /\ AttributesFit(row)
    /\ BeginCreate(r, Product, Created(row))

NewCategory(parent) == [parent |-> parent, active |-> TRUE]
NewUnit(dimension, base) == [dimension |-> dimension, base |-> base, active |-> TRUE]
NewAttribute(kind) == [kind |-> kind, active |-> TRUE]
NewContact(type) == [type |-> type, active |-> TRUE]
NewCostType == [active |-> TRUE]

CreateCategory(r) == \E parent \in Category \cup {NoValue} :
    BeginCreate(r, Category, NewCategory(parent))

CreateUnit(r) == \E dimension \in Dimension, base \in Unit \cup {NoValue} :
    /\ SameDimension(base, dimension)
    /\ BeginCreate(r, Unit, NewUnit(dimension, base))

CreateAttribute(r) == \E kind \in Kind : BeginCreate(r, Attribute, NewAttribute(kind))
CreateContact(r) == \E type \in {"customer", "supplier"} : BeginCreate(r, Contact, NewContact(type))
CreateCostType(r) == BeginCreate(r, CostType, NewCostType)

-----------------------------------------------------------------------------
(* Edits.  Units and cost types have no tag. *)

EditProduct(r, p) == \E fields \in ProductPatch :
    /\ TagMatches(r, p)
    /\ AttributesFit(fields)
    /\ Begin(r, "edit", p, fields)

CategoryPatch == {[parent |-> p] : p \in Category} \cup {[active |-> TRUE]}
AttributePatch == {[active |-> TRUE]}
ContactPatch == {[type |-> type] : type \in {"customer", "both"}}
CostTypePatch == {[active |-> TRUE]}

EditCategory(r, c) == \E fields \in CategoryPatch :
    /\ TagMatches(r, c)
    /\ Begin(r, "edit", c, fields)

EditAttribute(r, a) == \E fields \in AttributePatch :
    /\ TagMatches(r, a)
    /\ Begin(r, "edit", a, fields)

EditContact(r, c) == \E fields \in ContactPatch :
    /\ TagMatches(r, c)
    /\ Begin(r, "edit", c, fields)

EditUnit(r, u) ==
    /\ Exists(u)
    /\ \/ \E dimension \in Dimension : Begin(r, "edit", u, [dimension |-> dimension])
       \/ \E base \in Unit \ {u} :
            /\ SameDimension(base, rows[u].dimension)
            /\ Begin(r, "edit", u, [base |-> base])

EditCostType(r, t) == \E fields \in CostTypePatch : Exists(t) /\ Begin(r, "edit", t, fields)

(* Mutation: only the price list is compared. *)
PriceListChanges(fields, seen) == "price" \in DOMAIN fields /\ fields.price # seen.price

(* "price_changed": decided against the row the request read. *)
PriceChanges(fields, seen) ==
    \E f \in {"price", "override"} \cap DOMAIN fields : fields[f] # seen[f]

-----------------------------------------------------------------------------
(* Deactivation, and deletion with the checks some services make first. *)

(* Mutation: the deactivation of a contact keeps its "updated_at". *)
TouchedButContacts(id, row, at) ==
    IF id \in Product \cup Category THEN [row EXCEPT !.at = at] ELSE row

(* The trigger on "updated_at"; product_attributes has none. *)
Touched(id, row, at) ==
    IF id \in Product \cup Category \cup Contact THEN [row EXCEPT !.at = at] ELSE row

DeactivateProduct(r, p) == Exists(p) /\ Begin(r, "deactivate", p, [active |-> FALSE])
DeactivateCategory(r, c) == Exists(c) /\ Begin(r, "deactivate", c, [active |-> FALSE])
DeactivateUnit(r, u) == Exists(u) /\ Begin(r, "deactivate", u, [active |-> FALSE])
DeactivateAttribute(r, a) == Exists(a) /\ Begin(r, "deactivate", a, [active |-> FALSE])
DeactivateContact(r, c) == Exists(c) /\ Begin(r, "deactivate", c, [active |-> FALSE])
DeactivateCostType(r, t) == Exists(t) /\ Begin(r, "deactivate", t, [active |-> FALSE])

DeleteProduct(r, p) == Exists(p) /\ Begin(r, "delete", p, <<>>)

DeleteCategory(r, c) ==
    /\ Exists(c)
    /\ \A child \in Category : Exists(child) => rows[child].parent # c
    /\ Begin(r, "delete", c, <<>>)

DeleteUnit(r, u) == Exists(u) /\ Begin(r, "delete", u, <<>>)

DeleteAttribute(r, a) ==
    /\ Exists(a)
    /\ \A p \in Product : Exists(p) => a \notin Refers(rows[p])
    /\ Begin(r, "delete", a, <<>>)

DeleteContact(r, c) == Exists(c) /\ Begin(r, "delete", c, <<>>)
DeleteCostType(r, t) == Exists(t) /\ Begin(r, "delete", t, <<>>)

-----------------------------------------------------------------------------
(* The write at the end of a request, and its commit. *)

(* The columns "fields" names take its values, the others keep theirs. *)
Patched(row, fields) ==
    [f \in DOMAIN row \cup DOMAIN fields |-> IF f \in DOMAIN fields THEN fields[f] ELSE row[f]]

Stored(id, row, at) == IF id \in Tagged THEN Patched(row, [at |-> at]) ELSE row

CommitCreate(r) ==
    LET t == txn[r] IN
    /\ t.op = "create"
    /\ Fresh(t.table) # {}
    /\ LET id == CHOOSE fresh \in Fresh(t.table) : TRUE IN
       /\ Refers(t.fields) \subseteq Existing
       /\ id \in Product => ~ Clashes(id, t.fields)
       /\ rows' = [rows EXCEPT ![id] = Stored(id, t.fields, t.at)]
    /\ Close(r)
    /\ UNCHANGED <<history, used>>

CommitEdit(r) ==
    LET t == txn[r]
        row == Stored(t.id, Patched(rows[t.id], t.fields), t.at)
    IN  /\ t.op = "edit"
        /\ Exists(t.id)
        /\ Refers(row) \subseteq Existing
        /\ t.id \in Product => ~ Clashes(t.id, row)
        /\ rows' = [rows EXCEPT ![t.id] = row]
        /\ history' = IF t.id \in Product /\ PriceChanges(t.fields, t.seen)
                      THEN [history EXCEPT ![t.id] = Append(@, Prices(row))]
                      ELSE history
        /\ Close(r)
        /\ UNCHANGED used

CommitDeactivate(r) ==
    LET t == txn[r] IN
    /\ t.op = "deactivate"
    /\ Exists(t.id)
    /\ rows' = [rows EXCEPT ![t.id] = Touched(t.id, [@ EXCEPT !.active = FALSE], t.at)]
    /\ Close(r)
    /\ UNCHANGED <<history, used>>

CommitDelete(r) ==
    LET t == txn[r] IN
    /\ t.op = "delete"
    /\ Exists(t.id)
    /\ ~ Held(t.id)
    /\ rows' = [rows EXCEPT ![t.id] = Deleted]
    /\ Close(r)
    /\ UNCHANGED <<history, used>>

(* A write the database refuses, an error, a crash. *)
Rollback(r) ==
    /\ ~ Idle(r)
    /\ Close(r)
    /\ UNCHANGED <<rows, history, used>>

(* A document line, a document or a cost line refers to the row. *)
Use(id) ==
    /\ Exists(id)
    /\ id \notin used
    /\ used' = used \cup {id}
    /\ UNCHANGED <<rows, history, copy, txn, now>>

-----------------------------------------------------------------------------
(* Import. *)

(* An import hands on neither an override nor an attribute. *)
Imported(row) ==
    [Created(row) EXCEPT !.jenis = NoValue, !.size = NoValue, !.kualitas = NoValue]

(* Rows of a file that pass validation. *)
Valid(file) ==
    {i \in DOMAIN file :
        /\ ~ CodeTaken(file[i].code)
        /\ \A j \in DOMAIN file \ {i} : file[i].code # NoValue => file[j].code # file[i].code
        /\ ParentsExist(file[i])}

StartImport(r) == \E file \in File :
    Open(r, [op |-> "import", at |-> now + 1, file |-> file, valid |-> Valid(file), i |-> 1,
             checked |-> FALSE, aborted |-> FALSE, result |-> <<>>])

Report(r, what, aborted) ==
    txn' = [txn EXCEPT ![r].result = Append(@, what), ![r].i = @ + 1,
                       ![r].checked = FALSE, ![r].aborted = aborted]

(* The checks of "create" for the next row; in an aborted transaction every statement fails. *)
ImportCheck(r) ==
    LET t == txn[r] IN
    /\ t.op = "import"
    /\ ~ t.checked
    /\ t.i <= Len(t.file)
    /\ LET row == t.file[t.i] IN
       IF t.i \in t.valid /\ ~ t.aborted /\ ~ CodeTaken(row.code) /\ ParentsExist(row)
       THEN txn' = [txn EXCEPT ![r].checked = TRUE]
       ELSE Report(r, NoValue, t.aborted)
    /\ UNCHANGED <<rows, history, used, copy, now>>

(* The insert of the row and its commit; the next row begins a transaction of its own. *)
ImportInsert(r) ==
    LET t == txn[r] IN
    /\ t.op = "import"
    /\ t.checked
    /\ Fresh(Product) # {}
    /\ LET row == Imported(t.file[t.i])
           p == CHOOSE fresh \in Fresh(Product) : TRUE
       IN IF Refers(row) \subseteq Existing /\ ~ Clashes(p, row)
          THEN /\ now < MaxTime
               /\ now' = now + 1
               /\ rows' = [rows EXCEPT ![p] = Stored(p, row, t.at)]
               /\ txn' = [txn EXCEPT ![r].result = Append(@, p), ![r].i = @ + 1,
                                     ![r].checked = FALSE, ![r].at = now + 1]
          ELSE Report(r, NoValue, TRUE) /\ UNCHANGED <<rows, now>>
    /\ UNCHANGED <<history, used, copy>>

EndImport(r) ==
    /\ txn[r].op = "import"
    /\ txn[r].i > Len(txn[r].file)
    /\ Close(r)
    /\ UNCHANGED <<rows, history, used>>

-----------------------------------------------------------------------------
Starts(r) ==
    \/ \E id \in Tagged : Read(r, id)
    \/ CreateProduct(r) \/ CreateCategory(r) \/ CreateUnit(r)
    \/ CreateAttribute(r) \/ CreateContact(r) \/ CreateCostType(r)
    \/ StartImport(r)
    \/ \E p \in Product : EditProduct(r, p) \/ DeactivateProduct(r, p) \/ DeleteProduct(r, p)
    \/ \E c \in Category : EditCategory(r, c) \/ DeactivateCategory(r, c) \/ DeleteCategory(r, c)
    \/ \E u \in Unit : EditUnit(r, u) \/ DeactivateUnit(r, u) \/ DeleteUnit(r, u)
    \/ \E a \in Attribute : EditAttribute(r, a) \/ DeactivateAttribute(r, a) \/ DeleteAttribute(r, a)
    \/ \E c \in Contact : EditContact(r, c) \/ DeactivateContact(r, c) \/ DeleteContact(r, c)
    \/ \E t \in CostType : EditCostType(r, t) \/ DeactivateCostType(r, t) \/ DeleteCostType(r, t)

Commits(r) ==
    \/ CommitCreate(r) \/ CommitEdit(r) \/ CommitDeactivate(r) \/ CommitDelete(r)
    \/ ImportCheck(r) \/ ImportInsert(r) \/ EndImport(r)
    \/ Rollback(r)

CatalogNext ==
    \/ \E r \in Request : Starts(r) \/ Commits(r)
    \/ \E id \in Product \cup Contact \cup CostType : Use(id)

(* Rows as they are seeded, with which a run begins. *)
CatalogInit ==
    /\ rows = Seed
    /\ history = [p \in Product |-> <<>>]
    /\ used = {}
    /\ copy = [r \in Request |-> NoCopy]
    /\ txn = [r \in Request |-> NoTxn]
    /\ now = 0

CatalogSpec == CatalogInit /\ [][CatalogNext]_catalogVars

-----------------------------------------------------------------------------
CatalogTypeOK ==
    /\ DOMAIN rows = Id
    /\ \A id \in Existing : rows[id] \in Table(id)
    /\ history \in [Product -> Seq(Price \X (Price \cup {NoValue}))]
    /\ used \subseteq Id
    /\ now \in 0 .. MaxTime

(* A row that documents or other rows refer to stays, and an attribute a     *)
(* product names is of the kind of the column, although a deletion checks    *)
(* and a reference is written at different times.                            *)
ReferencesHold ==
    /\ used \subseteq Existing
    /\ \A id \in Existing : Refers(rows[id]) \subseteq Existing
    /\ \A p \in Product, k \in Kind :
        Exists(p) /\ rows[p][k] # NoValue => rows[rows[p][k]].kind = k

PresentsTag(r) == txn[r].op = "edit" /\ txn[r].copy.id = txn[r].id

(* A tag stands for the content of its row, however writes of the row        *)
(* overlap.  When an edit with a tag is let in, the row it reads is the one  *)
(* its client saw; and the row it then patches is that one too, or carries   *)
(* another tag by now.  The edit does not compare the tag again, so it can   *)
(* patch a row of another tag: see EditsWhatClientSaw.  Attributes are left  *)
(* out: see AttributeTagTellsContent.                                        *)
TagTellsContent ==
    \A r \in Request :
        PresentsTag(r) /\ txn[r].id \in Product \cup Category \cup Contact =>
            LET seen == txn[r].copy.row
                row  == rows[txn[r].id]
            IN  /\ txn[r].seen = seen
                /\ Exists(txn[r].id) /\ row.at = seen.at => row = seen

PricesMove(p) == Exists(p) /\ Exists(p)' /\ Prices(rows[p])' # Prices(rows[p])

Recorded(p) == history[p]' = Append(history[p], Prices(rows[p])')

(* A commit that changes a product's prices records the prices it leaves,    *)
(* and none is recorded that the product does not have, unless the row was   *)
(* changed between the reading of the request and its write.                 *)
PriceChangesRecorded ==
    [][ \A p \in Product :
            /\ history[p]' # history[p] => Recorded(p)
            /\ PricesMove(p) =>
                Recorded(p) \/ \E r \in Request :
                    txn[r].op = "edit" /\ txn[r].id = p /\ txn[r].seen # rows[p] ]_catalogVars

(* What the documents say: every price change is recorded. *)
EveryPriceChangeRecorded == [][ \A p \in Product : PricesMove(p) => Recorded(p) ]_catalogVars

(* What the version's docstring says a row lock ensures: two edits with one  *)
(* tag never both pass, so an edit patches the row its client saw.           *)
EditsWhatClientSaw ==
    [][ \A r \in Request :
            PresentsTag(r) /\ txn'[r] = NoTxn /\ rows'[txn[r].id] # rows[txn[r].id] =>
                rows[txn[r].id] = txn[r].copy.row ]_catalogVars

(* An attribute's tag does not change when it is deactivated. *)
AttributeTagTellsContent ==
    \A r \in Request :
        PresentsTag(r) /\ txn[r].id \in Attribute => txn[r].copy.row = txn[r].seen

(* "updated_at" only moves forward. *)
VersionsGrow ==
    [][ \A id \in Tagged : Exists(id) /\ Exists(id)' => rows[id].at <= rows'[id].at ]_catalogVars

(* A unit and its base measure the same. *)
SameDimensionAsBase ==
    \A u \in Unit : Exists(u) => SameDimension(rows[u].base, rows[u].dimension)

(* No category lies below itself. *)
CategoriesAcyclic ==
    LET Above == {<<c, rows[c].parent>> : c \in {d \in Category : Exists(d)}} IN
    ~ \E C \in SUBSET Category : C # {} /\ \A c \in C : \E d \in C : <<c, d>> \in Above

=============================================================================
