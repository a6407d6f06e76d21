--------------------------- MODULE CatalogImport ---------------------------
(***************************************************************************)
(* Bulk import and bulk prices: src/src/modules/catalog/service.ts, with    *)
(* the mutations of single products that can run beside them.               *)
(*                                                                         *)
(* Both work row by row, some statements a row, without a transaction, and  *)
(* count a row that fails as skipped.  Nothing makes the name of a product  *)
(* or of a supplier unique (the slug of a new product ends in the time);    *)
(* the slug of a category is.  The maps in which an import remembers        *)
(* categories and suppliers save lookups, no more, as nothing here deletes  *)
(* one.                                                                     *)
(***************************************************************************)
EXTENDS Integers, FiniteSets, Sequences

CONSTANTS
  Jobs,        \* mutations under way, each made once
  Orders,      \* what they may ask for, taken together
  Names,       \* of products
  Labels,      \* of categories and of suppliers
  Nobody,      \* not a label: a row without a supplier
  MaxProducts, \* bound: products ever there
  Stocked,     \* products when the behaviour starts
  MaxErrors    \* bound: statements that fail

(* A price of 0 stands for all that makes a row invalid. *)
Rows == [name : Names, price : Nat, category : Labels, supplier : Labels \cup {Nobody}]
Products == [name : Names, price : Nat, suppliers : SUBSET Labels]
Ids == 1 .. MaxProducts
Kinds == [kind : {"import"}, rows : Seq(Rows)]
           \cup [kind : {"raise", "fix"}, rows : Seq(Ids), value : Int]
           \cup [kind : {"create"}, name : Names, price : Nat]
           \cup [kind : {"update"}, id : Ids, name : Names, price : Nat]
           \cup [kind : {"delete"}, id : Ids]

ASSUME ImportConstants ==
  /\ Nobody \notin Labels
  /\ \A o \in Orders : DOMAIN o = Jobs /\ \A j \in Jobs : o[j] \in Kinds
  /\ MaxProducts \in Nat /\ MaxErrors \in Nat
  /\ Stocked \in Seq(Products) /\ Len(Stocked) <= MaxProducts

VARIABLES
  order,      \* order[j]: the request of job j
  shelf,      \* shelf[i]: the product with id i, for the ids there are
  minted,     \* ids given so far
  categories, \* slugs of Category
  suppliers,  \* suppliers[l]: rows of Supplier with name l
  stage,      \* stage[j]: progress of job j
  line,       \* line[j]: index of the row it is at
  target,     \* target[j]: the product its row is about
  price,      \* price[j]: the price it has computed
  tally,      \* tally[j]: rows created, updated and skipped
  errors,     \* bounded by MaxErrors
  before,     \* history: before[j]: the shelf when j began
  crossed,    \* history: jobs during which another one wrote
  marred      \* history: jobs with a statement that failed

stores == <<shelf, minted, categories, suppliers, crossed>>
loop == <<stage, line, tally>>
importVars == <<order, stores, loop, target, price, errors, before, marred>>

-----------------------------------------------------------------------------
ImportInit ==
  /\ order \in Orders
  /\ shelf = Stocked /\ minted = Len(Stocked)
  /\ categories = {} /\ suppliers = [l \in Labels |-> 0]
  /\ stage = [j \in Jobs |-> "idle"]
  /\ line = [j \in Jobs |-> 1]
  /\ target = [j \in Jobs |-> 1]
  /\ price = [j \in Jobs |-> 0]
  /\ tally = [j \in Jobs |-> [created |-> 0, updated |-> 0, skipped |-> 0]]
  /\ errors = 0
  /\ before = [j \in Jobs |-> <<>>]
  /\ crossed = {} /\ marred = {}

Row(j) == order[j].rows[line[j]]
Here(i) == i \in DOMAIN shelf

Stage(j, s) == stage' = [stage EXCEPT ![j] = s] /\ UNCHANGED <<line, tally>>

(* The row is done with, and counted. *)
Count(j, outcome) ==
  /\ tally' = [tally EXCEPT ![j][outcome] = @ + 1]
  /\ line' = [line EXCEPT ![j] = @ + 1]
  /\ stage' = [stage EXCEPT ![j] = "row"]

(* Job j writes; the others that are under way notice or not. *)
Crosses(j) ==
  crossed' = crossed \cup {d \in Jobs \ {j} : stage[d] \notin {"idle", "ended"}}

Shelve(j, new) ==
  /\ shelf' = new
  /\ Crosses(j)
  /\ UNCHANGED <<minted, categories, suppliers>>

(* A new row of Product *)
Mint(j, product) ==
  /\ minted < MaxProducts
  /\ minted' = minted + 1
  /\ shelf' = [i \in DOMAIN shelf \cup {minted + 1} |->
                 IF i = minted + 1 THEN product ELSE shelf[i]]
  /\ Crosses(j)
  /\ UNCHANGED <<categories, suppliers>>

-----------------------------------------------------------------------------
Start(j) ==
  /\ stage[j] = "idle"
  /\ order[j].kind \in {"import", "raise", "fix"}
  /\ before' = [before EXCEPT ![j] = shelf]
  /\ Stage(j, "row")
  /\ UNCHANGED <<order, stores, target, price, errors, marred>>

(* The head of either loop, with the validation of an import's row. *)
NextRow(j) ==
  /\ stage[j] = "row"
  /\ IF line[j] > Len(order[j].rows) THEN Stage(j, "ended")
     ELSE IF order[j].kind # "import" THEN Stage(j, "reading")
     ELSE IF Row(j).price = 0 THEN Count(j, "skipped")
     ELSE Stage(j, "category")
  /\ UNCHANGED <<order, stores, target, price, errors, before, marred>>

Supplied(j) == IF Row(j).supplier = Nobody THEN "product" ELSE "supplier"

(* getOrCreateCategory: by slug, and by name *)
FindCategory(j) ==
  /\ stage[j] = "category"
  /\ Stage(j, IF Row(j).category \in categories THEN Supplied(j) ELSE "newCategory")
  /\ UNCHANGED <<order, stores, target, price, errors, before, marred>>

(* @@unique([tenantId, slug]): the INSERT fails if the category is there by now. *)
NewCategory(j) ==
  /\ stage[j] = "newCategory"
  /\ IF Row(j).category \in categories THEN Count(j, "skipped") /\ UNCHANGED stores
     ELSE /\ Stage(j, Supplied(j))
          /\ categories' = categories \cup {Row(j).category}
          /\ Crosses(j)
          /\ UNCHANGED <<shelf, minted, suppliers>>
  /\ UNCHANGED <<order, target, price, errors, before, marred>>

(* getOrCreateSupplier *)
FindSupplier(j) ==
  /\ stage[j] = "supplier"
  /\ Stage(j, IF suppliers[Row(j).supplier] > 0 THEN "product" ELSE "newSupplier")
  /\ UNCHANGED <<order, stores, target, price, errors, before, marred>>

NewSupplier(j) ==
  /\ stage[j] = "newSupplier"
  /\ suppliers' = [suppliers EXCEPT ![Row(j).supplier] = @ + 1]
  /\ Crosses(j)
  /\ Stage(j, "product")
  /\ UNCHANGED <<order, shelf, minted, categories, target, price, errors, before, marred>>

(* mutant: a product that is there is not looked for *)
FindProductNot(j) ==
  /\ stage[j] = "product"
  /\ Stage(j, "creating")
  /\ target' = target
  /\ UNCHANGED <<order, stores, price, errors, before, marred>>

(* findFirst by name: any product that has it *)
FindProduct(j) ==
  LET named == {i \in DOMAIN shelf : shelf[i].name = Row(j).name}
  IN  /\ stage[j] = "product"
      /\ IF named = {} THEN Stage(j, "creating") /\ target' = target
         ELSE \E i \in named : Stage(j, "updating") /\ target' = [target EXCEPT ![j] = i]
      /\ UNCHANGED <<order, stores, price, errors, before, marred>>

UpdateProduct(j) ==
  /\ stage[j] = "updating"
  /\ IF Here(target[j])
     THEN /\ Shelve(j, [shelf EXCEPT ![target[j]].price = Row(j).price])
          /\ IF Row(j).supplier = Nobody THEN Count(j, "updated") ELSE Stage(j, "linking")
     ELSE Count(j, "skipped") /\ UNCHANGED stores
  /\ UNCHANGED <<order, target, price, errors, before, marred>>

InsertProduct(j) ==
  /\ stage[j] = "creating"
  /\ Mint(j, [name |-> Row(j).name, price |-> Row(j).price, suppliers |-> {}])
  /\ target' = [target EXCEPT ![j] = minted + 1]
  /\ IF Row(j).supplier = Nobody THEN Count(j, "created") ELSE Stage(j, "linkingNew")
  /\ UNCHANGED <<order, price, errors, before, marred>>

(* productSupplier.upsert, or create for a new product; the foreign key wants the *)
(* product to be there still.                                                     *)
LinkSupplier(j) ==
  /\ stage[j] \in {"linking", "linkingNew"}
  /\ IF Here(target[j])
     THEN /\ Shelve(j, [shelf EXCEPT ![target[j]].suppliers = @ \cup {Row(j).supplier}])
          /\ Count(j, IF stage[j] = "linking" THEN "updated" ELSE "created")
     ELSE Count(j, "skipped") /\ UNCHANGED stores
  /\ UNCHANGED <<order, target, price, errors, before, marred>>

-----------------------------------------------------------------------------
(* newBase of bulkUpdateProductPrices, in hundredths of a cent: the increase is a *)
(* percentage and may be negative.                                                *)
NewBase(j, old) ==
  IF order[j].kind = "raise" THEN old * (100 + order[j].value) ELSE 100 * order[j].value

(* And what the column, Decimal(12, 2), keeps of it *)
NewPrice(j, old) == (NewBase(j, old) + 50) \div 100

ReadPrice(j) ==
  /\ stage[j] = "reading"
  /\ IF Here(Row(j)) /\ NewBase(j, shelf[Row(j)].price) > 0
     THEN /\ price' = [price EXCEPT ![j] = NewPrice(j, shelf[Row(j)].price)]
          /\ Stage(j, "pricing")
     ELSE Count(j, "skipped") /\ price' = price
  /\ UNCHANGED <<order, stores, target, errors, before, marred>>

(* The UPDATE writes what was computed, whatever the price is by now. *)
WritePrice(j) ==
  /\ stage[j] = "pricing"
  /\ IF Here(Row(j)) THEN Shelve(j, [shelf EXCEPT ![Row(j)].price = price[j]])
                          /\ Count(j, "updated")
     ELSE Count(j, "skipped") /\ UNCHANGED stores
  /\ UNCHANGED <<order, target, price, errors, before, marred>>

(* createProduct asks nobody whether the name is taken. *)
CreateProduct(j) ==
  /\ stage[j] = "idle"
  /\ order[j].kind = "create"
  /\ Mint(j, [name |-> order[j].name, price |-> order[j].price, suppliers |-> {}])
  /\ Stage(j, "ended")
  /\ UNCHANGED <<order, target, price, errors, before, marred>>

(* updateProduct: one UPDATE, which throws if the product is gone. *)
EditProduct(j) ==
  LET o == order[j]
  IN  /\ stage[j] = "idle"
      /\ o.kind = "update"
      /\ IF Here(o.id) THEN Shelve(j, [shelf EXCEPT ![o.id].name = o.name, ![o.id].price = o.price])
         ELSE UNCHANGED stores
      /\ Stage(j, "ended")
      /\ UNCHANGED <<order, target, price, errors, before, marred>>

DeleteProduct(j) ==
  /\ stage[j] = "idle"
  /\ order[j].kind = "delete"
  /\ Shelve(j, [i \in DOMAIN shelf \ {order[j].id} |-> shelf[i]])
  /\ Stage(j, "ended")
  /\ UNCHANGED <<order, target, price, errors, before, marred>>

(* A statement fails, not done: the row is skipped and what it has written stays; or *)
(* the process stops, and the rest of the rows with it.                              *)
StatementFails(j) ==
  /\ errors < MaxErrors
  /\ stage[j] \notin {"idle", "row", "ended"}
  /\ errors' = errors + 1
  /\ marred' = marred \cup {j}
  /\ Count(j, "skipped") \/ Stage(j, "ended")
  /\ UNCHANGED <<order, stores, target, price, before>>

ImportRow(j) ==
  \/ FindCategory(j) \/ NewCategory(j) \/ FindSupplier(j) \/ NewSupplier(j)
  \/ FindProduct(j) \/ UpdateProduct(j) \/ InsertProduct(j) \/ LinkSupplier(j)

ImportNext == \E j \in Jobs :
  \/ Start(j) \/ NextRow(j) \/ ImportRow(j) \/ ReadPrice(j) \/ WritePrice(j)
  \/ CreateProduct(j) \/ EditProduct(j) \/ DeleteProduct(j) \/ StatementFails(j)

ImportSpec == ImportInit /\ [][ImportNext]_importVars

-----------------------------------------------------------------------------
(* Every variable keeps its type; all ids there are were given. *)
ImportTypes ==
  /\ order \in Orders
  /\ minted \in 0 .. MaxProducts
  /\ DOMAIN shelf \subseteq 1 .. minted
  /\ \A i \in DOMAIN shelf : shelf[i] \in Products
  /\ categories \subseteq Labels
  /\ suppliers \in [Labels -> Nat]
  /\ line \in [Jobs -> Nat] /\ target \in [Jobs -> Nat] /\ price \in [Jobs -> Nat]
  /\ tally \in [Jobs -> [created : Nat, updated : Nat, skipped : Nat]]
  /\ errors \in 0 .. MaxErrors
  /\ crossed \subseteq Jobs /\ marred \subseteq Jobs

(* What an import of the first m rows of j should leave of the shelf old: each        *)
(* product it names is there, once if it was not there before, with the last of its   *)
(* rows; no other is touched, and every row is counted.                               *)
Named(n, s) == {i \in DOMAIN s : s[i].name = n}
Valid(j, m) == {r \in 1 .. m : order[j].rows[r].price > 0}
About(j, m, n) == {r \in Valid(j, m) : order[j].rows[r].name = n}
LastAbout(j, m, n) == order[j].rows[CHOOSE r \in About(j, m, n) : \A q \in About(j, m, n) : q <= r]
Missing(j, m, old) == {n \in Names : About(j, m, n) # {} /\ Named(n, old) = {}}

Untouched(n, old) == Named(n, shelf) = Named(n, old) /\ \A i \in Named(n, old) : shelf[i] = old[i]
Placed(n, old) ==
  /\ Named(n, old) # {} => Named(n, shelf) = Named(n, old)
  /\ Named(n, old) = {} => \E i \in Named(n, shelf) : Named(n, shelf) = {i}
Carries(n, row) ==
  \E i \in Named(n, shelf) :
    shelf[i].price = row.price /\ row.supplier \in shelf[i].suppliers \cup {Nobody}

Told(j, m, old, n) ==
  IF About(j, m, n) = {} THEN Untouched(n, old)
  ELSE Placed(n, old) /\ Carries(n, LastAbout(j, m, n))
Imported(j, m, old) == \A n \in Names : Told(j, m, old, n)

Tallied(j, m, old) ==
  tally[j] = [created |-> Cardinality(Missing(j, m, old)),
              updated |-> Cardinality(Valid(j, m)) - Cardinality(Missing(j, m, old)),
              skipped |-> m - Cardinality(Valid(j, m))]

(* And a change of prices: an id that is listed twice is raised twice. *)
Settle(j) == [p \in Nat |-> IF NewBase(j, p) > 0 THEN NewPrice(j, p) ELSE p]
Repeated(f, p) ==
  LET after[n \in Nat] == IF n = 0 THEN p ELSE f[after[n - 1]]
  IN  after
Listed(j, m, i) == {r \in 1 .. m : order[j].rows[r] = i}
Priced(j, m, old) ==
  shelf = [i \in DOMAIN old |->
             [old[i] EXCEPT !.price = Repeated(Settle(j), @)[Cardinality(Listed(j, m, i))]]]

(* The rows that change a price, each after those before it *)
Found(j, r, i, old) == Repeated(Settle(j), old[i].price)[Cardinality(Listed(j, r - 1, i))]
Changes(j, r, i, old) == i \in DOMAIN old /\ NewBase(j, Found(j, r, i, old)) > 0
Changing(j, m, old) == {r \in 1 .. m : Changes(j, r, order[j].rows[r], old)}
Recounted(j, m, old) ==
  tally[j] = [created |-> 0, updated |-> Cardinality(Changing(j, m, old)),
              skipped |-> m - Cardinality(Changing(j, m, old))]

(* A bulk job that nothing wrote beside, and of which nothing failed, does what one   *)
(* transaction would have done to the shelf it found, be that what a job that was cut *)
(* off has left: no product twice, no increase lost, no row uncounted.                *)
BulkAsOne ==
  [][\A j \in Jobs \ (crossed \cup marred)' :
       stage[j] # "ended" /\ stage'[j] = "ended" =>
         LET m == Len(order[j].rows)
         IN  /\ order[j].kind = "import" => Imported(j, m, before[j]) /\ Tallied(j, m, before[j])
             /\ order[j].kind \in {"raise", "fix"} =>
                  Priced(j, m, before[j]) /\ Recounted(j, m, before[j])]_importVars

=============================================================================
