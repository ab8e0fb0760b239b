------------------------------- MODULE Catalogue -------------------------------
(***************************************************************************)
(* Products, their variants, barcodes and prices:                          *)
(* internal/modules/catalogue and pricing, with the part of shop, sales,   *)
(* purchases and inventory that refers to a variant.                       *)
(*                                                                         *)
(* Creating a row is one transaction.  Deleting products is a run of       *)
(* transactions per product, and so is importing a file: one for its rows  *)
(* and then one or more for each price, tax rate and opening stock.        *)
(*                                                                         *)
(* Abstractions: categories and brands are made like units and left out; a *)
(* barcode is its variant's only one; a SKU is a base, taken from the file *)
(* or the name, with the number that tells it from its rivals.             *)
(***************************************************************************)
EXTENDS Integers, Sequences, FiniteSetsExt

CONSTANTS
    Names,          \* product names, folded as the code compares them
    SkuOf,          \* [Names -> bases]: the slug of a name
    Units,          \* unit codes
    Barcodes,
    Sheets,         \* files: sequences of rows
    Managers,       \* requests
    Empty,          \* no value
    MaxProducts,    \* bound: products ever made
    MaxLists,       \* bound: price lists
    MaxStops,       \* bound: requests that stop half-way
    MaxTouches      \* bound: sales and shop publications

ASSUME CatalogueAssumption ==
    \A sheet \in Sheets :
        /\ sheet \in Seq(Range(sheet))
        /\ \A row \in Range(sheet) : row # Empty /\ row.name \in Names /\ row.unit \in Units /\ row.stock \in Int

VARIABLES
    units,      \* units_of_measure
    product,    \* products and their variants, in the order they were made; row: the
                \* row of a file it was made from, forgotten when it is renamed
    lists,      \* price_lists: is_default, and whether it was made on demand
    priced,     \* price_list_items: <<list, product>> |-> price
    rates,      \* tax_rate_master rows made by imports
    stock,      \* opening stock movements of a product, added up
    used,       \* products a line, movement, balance or policy refers to
    shown,      \* products shop_products refers to
    manager,    \* what each request has read and has left to do
    everPriced, \* history: products given a price
    told,       \* history: product and row of those an import reported done
    overlap,    \* history: two imports, or two requests for the default list, overlapped
    excused,    \* history: products whose deletion stopped for a reason
    stops, touches

catalogueVars == <<units, product, lists, priced, rates, stock, used, shown, manager, everPriced, told, overlap, excused, stops, touches>>

Ids == DOMAIN product
Kept(i) == product[i].status # "GONE"
Living == {i \in Ids : Kept(i)}
Priced == {k[2] : k \in DOMAIN priced}
Skus == {product[i].sku : i \in {j \in Living : product[j].variant}}
CodesInUse == {product[i].barcode : i \in Living} \ {Empty}

Free == [op |-> "none", at |-> "idle", sheet |-> <<>>, ids |-> <<>>, names |-> {}, units |-> {}, made |-> {},
         todo |-> <<>>, list |-> 0, noted |-> {}, variant |-> FALSE, dirty |-> FALSE]

CatalogueTypeOK ==
    /\ units \subseteq Units
    /\ \A i \in Ids : /\ product[i].status \in {"ACTIVE", "INACTIVE", "GONE"}
                      /\ product[i].name \in Names /\ product[i].unit \in Units
                      /\ product[i].barcode # Empty => product[i].variant
    /\ \A k \in DOMAIN priced : k[1] \in DOMAIN lists /\ k[2] \in Ids
    /\ used \subseteq Ids /\ shown \subseteq Ids
    /\ \A m \in Managers : manager[m].op \in {"none", "delete", "import", "ensure"}

CatalogueInit ==
    /\ units = {} /\ product = <<>> /\ lists = <<>>
    /\ priced = [k \in {} |-> 0] /\ rates = {} /\ stock = [i \in {} |-> 0]
    /\ used = {} /\ shown = {}
    /\ manager = [m \in Managers |-> Free]
    /\ everPriced = {} /\ told = {} /\ overlap = FALSE /\ excused = {} /\ stops = 0 /\ touches = 0

-----------------------------------------------------------------------------
(* Rows made one at a time *)

Bounds == UNCHANGED <<stops, touches>>
Histories == UNCHANGED <<everPriced, told, overlap, excused>>
NoRequest == UNCHANGED manager
Trade == UNCHANGED <<rates, stock, used, shown>>
Pricing == UNCHANGED <<lists, priced>>

NewProduct(n, u) == [name |-> n, row |-> Empty, unit |-> u, status |-> "ACTIVE", variant |-> FALSE, sku |-> Empty, barcode |-> Empty]

CreateUnitOfMeasure(u) ==
    /\ u \notin units
    /\ units' = units \cup {u}
    /\ UNCHANGED product /\ Pricing /\ Trade /\ NoRequest /\ Histories /\ Bounds

\* Only when the organisation has no unit at all.
EnsureDefaultUnits ==
    /\ units = {}
    /\ units' = Units
    /\ UNCHANGED product /\ Pricing /\ Trade /\ NoRequest /\ Histories /\ Bounds

CreateProduct(n, u) ==
    /\ Len(product) < MaxProducts /\ u \in units
    /\ product' = Append(product, NewProduct(n, u))
    /\ stock' = [i \in DOMAIN product' |-> IF i \in Ids THEN stock[i] ELSE 0]
    /\ UNCHANGED <<units, rates, used, shown>> /\ Pricing /\ NoRequest /\ Histories /\ Bounds

UpdateProduct(i, n) ==
    /\ Kept(i)
    /\ product' = [product EXCEPT ![i].name = n, ![i].row = Empty]
    /\ UNCHANGED units /\ Pricing /\ Trade /\ NoRequest /\ Histories /\ Bounds

\* One product that is gone refuses them all.
BulkSetProductStatus(chosen, s) ==
    /\ \A i \in chosen : Kept(i)
    /\ product' = [i \in Ids |-> IF i \in chosen THEN [product[i] EXCEPT !.status = s] ELSE product[i]]
    /\ UNCHANGED units /\ Pricing /\ Trade /\ NoRequest /\ Histories /\ Bounds

\* UNIQUE (organisation_id, sku_code).
CreateVariant(i) ==
    /\ Kept(i) /\ ~product[i].variant
    /\ LET sku == <<SkuOf[product[i].name], 1>> IN
         /\ sku \notin Skus
         /\ product' = [product EXCEPT ![i].variant = TRUE, ![i].sku = sku]
    /\ UNCHANGED units /\ Pricing /\ Trade /\ NoRequest /\ Histories /\ Bounds

\* UNIQUE (organisation_id, barcode).
AddBarcode(i, c) ==
    /\ Kept(i) /\ product[i].variant /\ product[i].barcode = Empty /\ c \notin CodesInUse
    /\ product' = [product EXCEPT ![i].barcode = c]
    /\ UNCHANGED units /\ Pricing /\ Trade /\ NoRequest /\ Histories /\ Bounds

-----------------------------------------------------------------------------
(* Prices *)

CreatePriceList(default) ==
    /\ Len(lists) < MaxLists
    /\ lists' = Append(lists, [default |-> default, onDemand |-> FALSE])
    /\ UNCHANGED <<units, product, priced>> /\ Trade /\ NoRequest /\ Histories /\ Bounds

\* The list EnsureDefaultPriceList settles on: a default one, else any.  Lists are
\* ordered by name only, so which of two is left open.
Defaults == LET d == {l \in DOMAIN lists : lists[l].default} IN IF d # {} THEN d ELSE DOMAIN lists

Upsert(l, i, amount) == [k \in DOMAIN priced \cup {<<l, i>>} |-> IF k = <<l, i>> THEN amount ELSE priced[k]]

SetPrice(l, i, amount) ==
    /\ Kept(i) /\ product[i].variant
    /\ priced' = Upsert(l, i, amount)
    /\ everPriced' = everPriced \cup {i}
    /\ UNCHANGED <<units, product, lists, told, overlap, excused>> /\ Trade /\ NoRequest /\ Bounds

-----------------------------------------------------------------------------
(* What refers to a variant *)

\* A line of a document, a movement, a reservation, a policy...
Use(i) ==
    /\ Kept(i) /\ product[i].variant /\ touches < MaxTouches /\ touches' = touches + 1
    /\ used' = used \cup {i}
    /\ UNCHANGED <<units, product, rates, stock, shown, stops>> /\ Pricing /\ NoRequest /\ Histories

\* The shop's row of a product stays when it is no longer published.
Publish(i) ==
    /\ Kept(i) /\ product[i].variant /\ touches < MaxTouches /\ touches' = touches + 1
    /\ shown' = shown \cup {i}
    /\ UNCHANGED <<units, product, rates, stock, used, stops>> /\ Pricing /\ NoRequest /\ Histories

-----------------------------------------------------------------------------
(* DeleteProductsIfUnused: per product, four transactions of its own *)

Target(m) == Head(manager[m].ids)

DeleteProducts(m, ids) ==
    /\ manager[m] = Free
    /\ manager' = [manager EXCEPT ![m] = [Free EXCEPT !.op = "delete", !.at = "check", !.ids = ids]]
    /\ UNCHANGED <<units, product>> /\ Pricing /\ Trade /\ Histories /\ Bounds

\* The next product, or the end.
Onward(m) ==
    manager' = [manager EXCEPT ![m] = IF Len(@.ids) = 1 THEN Free
                                      ELSE [@ EXCEPT !.at = "check", !.ids = Tail(manager[m].ids), !.variant = FALSE]]

Abandon(m) == manager' = [manager EXCEPT ![m] = Free]

\* Variant: sales and purchases are asked about, the stock is not.
HistoryOfDocuments(i) == i \in used /\ stock[i] = 0

\* The nine tables HasTransactionHistory asks; shop_products is not one of them.
HasTransactionHistory(i) == i \in used

CheckHistory(m) ==
    /\ manager[m].at = "check"
    /\ manager' = [manager EXCEPT ![m].at = IF HasTransactionHistory(Target(m)) THEN "deactivate" ELSE "list",
                                  ![m].dirty = Target(m) \in used]
    /\ UNCHANGED <<units, product>> /\ Pricing /\ Trade /\ Histories /\ Bounds

Deactivate(m) ==
    /\ manager[m].at = "deactivate"
    /\ IF Kept(Target(m)) THEN product' = [product EXCEPT ![Target(m)].status = "INACTIVE"] /\ Onward(m)
       ELSE Abandon(m) /\ UNCHANGED product
    /\ UNCHANGED units /\ Pricing /\ Trade /\ Histories /\ Bounds

ListVariants(m) ==
    /\ manager[m].at = "list"
    /\ manager' = [manager EXCEPT ![m].at = "prices", ![m].variant = product[Target(m)].variant]
    /\ UNCHANGED <<units, product>> /\ Pricing /\ Trade /\ Histories /\ Bounds

\* deletePriceHook commits before the product is deleted.
DeletePrices(m) ==
    /\ manager[m].at = "prices"
    /\ priced' = IF manager[m].variant THEN [k \in {x \in DOMAIN priced : x[2] # Target(m)} |-> priced[k]] ELSE priced
    /\ manager' = [manager EXCEPT ![m].at = "remove"]
    /\ UNCHANGED <<units, product, lists>> /\ Trade /\ Histories /\ Bounds

\* Barcodes, variants and the product; a row that still refers to the variant
\* refuses them all, and the products after this one are left alone.
Removable(m) ==
    LET i == Target(m) IN
    /\ Kept(i) /\ i \notin used \cup shown \cup Priced
    /\ product[i].barcode # Empty => manager[m].variant

RemoveProduct(m) ==
    LET i == Target(m) IN
    /\ manager[m].at = "remove"
    /\ IF Removable(m)
       THEN /\ product' = [product EXCEPT ![i] = [@ EXCEPT !.status = "GONE", !.variant = FALSE, !.sku = Empty, !.barcode = Empty]]
            /\ Onward(m) /\ UNCHANGED excused
       ELSE /\ Abandon(m) /\ UNCHANGED product
            /\ excused' = IF manager[m].dirty THEN excused ELSE excused \cup {i}
    /\ UNCHANGED <<units, everPriced, told, overlap>> /\ Pricing /\ Trade /\ Bounds

-----------------------------------------------------------------------------
(* ImportProducts *)

Reading == {m \in Managers : manager[m].at \in {"rows", "newlist"}}

\* The names and units there are; a name is a duplicate whoever made it.
ImportProducts(m, sheet) ==
    /\ manager[m] = Free
    /\ manager' = [manager EXCEPT ![m] = [Free EXCEPT !.op = "import", !.at = "rows", !.sheet = sheet, !.units = units,
                                                     !.names = {product[i].name : i \in Living}]]
    /\ overlap' = (overlap \/ Reading # {})
    /\ UNCHANGED <<units, product, everPriced, told, excused>> /\ Pricing /\ Trade /\ Bounds

\* resolveImportSKU: the first number that is free.
FreeSku(base, taken) == <<base, CHOOSE n \in 1..(Cardinality(taken) + 1) : /\ <<base, n>> \notin taken
                                                                   /\ \A k \in 1..(n - 1) : <<base, k>> \in taken>>

\* The hooks a row asks for, in their order.
Hook(id, row, hook, asked) == IF asked = 0 THEN <<>> ELSE <<[id |-> id, row |-> row, hook |-> hook]>>
Steps(id, row) == Hook(id, row, "price", row.price) \o Hook(id, row, "rate", row.rate) \o Hook(id, row, "stock", row.stock)

\* The product, variant and barcode of a row, and the unit if it is new.
AddRow(s, row) ==
    LET id == Len(s.product) + 1
        new == [NewProduct(row.name, row.unit) EXCEPT !.row = row, !.variant = TRUE, !.barcode = row.barcode,
                                                      !.sku = FreeSku(row.base, s.skus)]
    IN  [s EXCEPT !.product = Append(@, new), !.names = @ \cup {row.name}, !.skus = @ \cup {new.sku},
                  !.codes = @ \cup ({row.barcode} \ {Empty}), !.units = @ \cup {row.unit},
                  !.todo = @ \o Steps(id, row), !.made = @ \cup {id}]

\* Variant: a name is looked up among the products there were, not in the file.
ImportRowAsFound(s, row) == IF row.name \in s.found \/ row.barcode \in s.codes THEN s ELSE AddRow(s, row)

\* A row that is a duplicate, or has a barcode in use, is reported and skipped.
ImportRow(s, row) == IF row.name \in s.names \/ row.barcode \in s.codes THEN s ELSE AddRow(s, row)

SheetRows(sheet, s) ==
    LET after[k \in 0..Len(sheet)] == IF k = 0 THEN s ELSE ImportRow(after[k - 1], sheet[k])
    IN  after[Len(sheet)]

Rows(m) ==
    SheetRows(manager[m].sheet,
        [product |-> product, found |-> manager[m].names, names |-> manager[m].names, skus |-> Skus, codes |-> CodesInUse,
         units |-> manager[m].units, todo |-> <<>>, made |-> {}])

\* One transaction; a unit somebody else has made meanwhile refuses the file.
ImportRows(m) ==
    LET end == Rows(m) IN
    /\ manager[m].at = "rows" /\ Len(end.product) <= MaxProducts
    /\ IF (end.units \ manager[m].units) \cap units # {}
       THEN Abandon(m) /\ UNCHANGED <<units, product, stock>>
       ELSE /\ units' = units \cup end.units
            /\ product' = end.product
            /\ stock' = [i \in DOMAIN end.product |-> IF i \in Ids THEN stock[i] ELSE 0]
            /\ manager' = [manager EXCEPT ![m] = [@ EXCEPT !.at = "hooks", !.todo = end.todo, !.made = end.made]]
    /\ UNCHANGED <<rates, used, shown>> /\ Pricing /\ Histories /\ Bounds

Step(m) == Head(manager[m].todo)

\* A hook that fails leaves a note in the report and nothing else.
Noted(m) == manager' = [manager EXCEPT ![m].at = "hooks", ![m].todo = Tail(@), ![m].noted = @ \cup {Step(m).id}]
Done(m) == manager' = [manager EXCEPT ![m].at = "hooks", ![m].todo = Tail(@)]

Hooking(m, hook) == manager[m].at = "hooks" /\ manager[m].todo # <<>> /\ Step(m).hook = hook

\* EnsureDefaultPriceList, for a hook or for a request of its own.
EnsureDefaultPriceList(m) ==
    /\ manager[m] = Free \/ Hooking(m, "price")
    /\ IF lists = <<>>
       THEN /\ manager' = [manager EXCEPT ![m] = IF @ = Free THEN [Free EXCEPT !.op = "ensure", !.at = "newlist"]
                                                 ELSE [@ EXCEPT !.at = "newlist"]]
            /\ overlap' = (overlap \/ Reading # {})
       ELSE /\ manager[m] # Free
            /\ \E l \in Defaults : manager' = [manager EXCEPT ![m].at = "setprice", ![m].list = l]
            /\ UNCHANGED overlap
    /\ UNCHANGED <<units, product, everPriced, told, excused>> /\ Pricing /\ Trade /\ Bounds

MakeDefaultPriceList(m) ==
    /\ manager[m].at = "newlist" /\ Len(lists) < MaxLists
    /\ lists' = Append(lists, [default |-> TRUE, onDemand |-> TRUE])
    /\ manager' = [manager EXCEPT ![m] = IF @.op = "ensure" THEN Free ELSE [@ EXCEPT !.at = "setprice", !.list = Len(lists')]]
    /\ UNCHANGED <<units, product, priced>> /\ Trade /\ Histories /\ Bounds

PriceHook(m) ==
    /\ manager[m].at = "setprice"
    /\ IF Kept(Step(m).id)
       THEN /\ priced' = Upsert(manager[m].list, Step(m).id, Step(m).row.price)
            /\ everPriced' = everPriced \cup {Step(m).id}
            /\ Done(m)
       ELSE Noted(m) /\ UNCHANGED <<priced, everPriced>>
    /\ UNCHANGED <<units, product, lists, told, overlap, excused>> /\ Trade /\ Bounds

TaxRateHook(m) ==
    /\ Hooking(m, "rate")
    /\ rates' = rates \cup {Step(m).row.name}
    /\ Done(m)
    /\ UNCHANGED <<units, product, stock, used, shown>> /\ Pricing /\ Histories /\ Bounds

OpeningStockHook(m) ==
    /\ Hooking(m, "stock")
    /\ IF Kept(Step(m).id)
       THEN /\ stock' = [stock EXCEPT ![Step(m).id] = @ + Step(m).row.stock]
            /\ used' = used \cup {Step(m).id}
            /\ Done(m)
       ELSE Noted(m) /\ UNCHANGED <<stock, used>>
    /\ UNCHANGED <<units, product, rates, shown>> /\ Pricing /\ Histories /\ Bounds

\* Variant: a hook that fails is passed over.
HookPassedOver(m) ==
    /\ manager[m].at \in {"hooks", "setprice", "newlist"} /\ manager[m].todo # <<>>
    /\ stops < MaxStops /\ stops' = stops + 1
    /\ Done(m)
    /\ UNCHANGED <<units, product, touches>> /\ Pricing /\ Trade /\ Histories

HookFails(m) ==
    /\ manager[m].at \in {"hooks", "setprice", "newlist"} /\ manager[m].todo # <<>>
    /\ stops < MaxStops /\ stops' = stops + 1
    /\ Noted(m)
    /\ UNCHANGED <<units, product, touches>> /\ Pricing /\ Trade /\ Histories

\* The report: a row is committed, with or without a note.
ImportReport(m) ==
    /\ manager[m].at = "hooks" /\ manager[m].todo = <<>>
    /\ told' = told \cup (manager[m].made \ manager[m].noted)
    /\ Abandon(m)
    /\ UNCHANGED <<units, product, everPriced, overlap, excused>> /\ Pricing /\ Trade /\ Bounds

\* The server stops, or a transaction is refused: what was committed stays.
StopRequest(m) ==
    /\ manager[m] # Free /\ stops < MaxStops /\ stops' = stops + 1
    /\ excused' = IF manager[m].at = "remove" THEN excused \cup {Target(m)} ELSE excused
    /\ Abandon(m)
    /\ UNCHANGED <<units, product, everPriced, told, overlap, touches>> /\ Pricing /\ Trade

CatalogueNext ==
    \/ \E u \in Units : CreateUnitOfMeasure(u) \/ \E n \in Names : CreateProduct(n, u)
    \/ EnsureDefaultUnits
    \/ \E i \in Ids : \/ \E n \in Names : UpdateProduct(i, n)
                      \/ CreateVariant(i) \/ Use(i) \/ Publish(i)
                      \/ \E c \in Barcodes : AddBarcode(i, c)
                      \/ \E l \in DOMAIN lists : SetPrice(l, i, 1)
    \/ \E chosen \in SUBSET Ids \ {{}}, s \in {"ACTIVE", "INACTIVE"} : BulkSetProductStatus(chosen, s)
    \/ \E default \in BOOLEAN : CreatePriceList(default)
    \/ \E m \in Managers :
          \/ \E i \in Ids : DeleteProducts(m, <<i>>) \/ \E j \in Ids \ {i} : DeleteProducts(m, <<i, j>>)
          \/ CheckHistory(m) \/ Deactivate(m) \/ ListVariants(m) \/ DeletePrices(m) \/ RemoveProduct(m)
          \/ \E sheet \in Sheets : ImportProducts(m, sheet)
          \/ ImportRows(m) \/ EnsureDefaultPriceList(m) \/ MakeDefaultPriceList(m) \/ PriceHook(m)
          \/ TaxRateHook(m) \/ OpeningStockHook(m) \/ HookFails(m) \/ ImportReport(m) \/ StopRequest(m)

CatalogueSpec == CatalogueInit /\ [][CatalogueNext]_catalogueVars

-----------------------------------------------------------------------------
(* Properties *)

Deleting == {Target(m) : m \in {x \in Managers : manager[x].op = "delete"}}

\* A product that was given a price either keeps one or is deleted with all that
\* referred to it (DeleteProductsIfUnused), unless its deletion was interrupted, or
\* something came to refer to it, or the shop did, after its history was read.
DeletedOrWhole ==
    \A i \in everPriced \ (Deleting \cup excused) :
        IF Kept(i) THEN i \in Priced ELSE i \notin Priced \cup used \cup shown

\* However often a file is imported, also after an import that stopped half-way, a row
\* makes one product with one variant, one opening stock, and no second default list,
\* unless two requests overlapped (ImportProducts, EnsureDefaultPriceList).
ImportedOnce ==
    LET imported == {i \in Living : product[i].row # Empty} IN
    /\ overlap \/ \A i, j \in imported : product[i].name = product[j].name => i = j
    /\ \A i \in imported : product[i].variant /\ stock[i] \in {0, product[i].row.stock}
    /\ overlap \/ Cardinality({l \in DOMAIN lists : lists[l].onDemand}) <= 1

\* What the report calls committed without a note has its price and its opening
\* stock: neither is missing without being said.
ReportIsTrue ==
    \A i \in told :
        product[i].row # Empty => /\ product[i].row.price # 0 => i \in everPriced
                                 /\ stock[i] = product[i].row.stock

\* An import makes what its file says, once, and reports what it made.
ImportHolds == CatalogueTypeOK /\ ImportedOnce /\ ReportIsTrue

\* A product is whole or gone, and imported rows are all there.
CatalogueIsSound == DeletedOrWhole /\ ImportHolds
=============================================================================
