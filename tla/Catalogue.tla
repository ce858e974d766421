------------------------------ MODULE Catalogue ------------------------------
(***************************************************************************)
(* The products of a project and the budget of one of its variants.  Facts *)
(* of a product other than its price, the label of a line and the split of *)
(* the total into known costs and contingency are left out, and so are the *)
(* sizes of things: the head scene of the variant yields one measure, the  *)
(* area or length of whatever a material line is for, or none.  A takeoff  *)
(* that is no object, or has no unit the report knows, is Nothing.         *)
(***************************************************************************)
EXTENDS Integers, FiniteSets, FiniteSetsExt

CONSTANTS
  Editors,       \* requests the API serves at once
  Products,      \* ids of product candidates
  Lines,         \* ids of budget items
  Nothing,       \* SQL's NULL, a missing key
  Price,         \* a price
  Count,         \* a quantity
  Size,          \* what the head scene measures, when it does
  Waste,         \* waste factor of a takeoff, in percent
  PackageSize,
  Found,         \* what is entered or imported of a product
  Sent,          \* what is sent of a budget item
  Patches,       \* what is sent to change some of its fields
  MaxEdits,      \* bound on requests
  MaxCollisions  \* bound on requests that begin while another is served

VARIABLES
  product,    \* product_candidates: NULL or a row
  line,       \* budget_items of the variant: NULL or a row
  measure,    \* what the head scene of the variant measures
  editing,    \* the request each editor is waiting for
  edits,      \* history: requests, requests that began during another
  collisions

catalogueVars == <<product, line, measure, editing, edits, collisions>>

Amounts == {Nothing, Price}
Currencies == {"RUB", "USD"}
DefaultCurrency == "RUB"
Counts == {Nothing, Count}

\* only a budget item's currency is examined: that of a product may be an empty string
Unnamed == ""
ProductCandidate == [price : Amounts, currency : Currencies \cup {Unnamed, Nothing}]

\* COVERAGE_UNITS: "each" is counted, the others are measured; whether there is a
\* package size above 0, and whether the numbers are numbers
Takeoffs == [unit : {"each", "m2"}, price : Amounts, packed : BOOLEAN, numeric : BOOLEAN]

BudgetItem == [kind : {"manual", "material"} \cup Products, amount : Amounts,
               currency : Currencies \cup {Nothing}, quantity : Counts,
               takeoff : Takeoffs \cup {Nothing}]

ASSUME CatalogueAssumption ==
  /\ Price \in Nat /\ Count \in Nat /\ Size \in Nat /\ Waste \in Nat
  /\ PackageSize \in Nat \ {0} /\ MaxEdits \in Nat /\ MaxCollisions \in Nat
  /\ Found \subseteq ProductCandidate /\ Sent \subseteq BudgetItem
  /\ \A patch \in Patches : \E row \in BudgetItem :
       DOMAIN patch \subseteq DOMAIN row \ {"kind"} /\ \A f \in DOMAIN patch : patch[f] = row[f]
  /\ Nothing \notin Currencies \cup {Unnamed}
  /\ Products \cap {"manual", "material"} = {} /\ IsFiniteSet(Lines)

Waiting == [pc |-> "idle"]

\* editor e sends a request; it does not matter which one that is idle
Ask(e) ==
  /\ editing[e] = Waiting /\ e = (CHOOSE f \in Editors : editing[f] = Waiting)
  /\ edits < MaxEdits
  /\ edits' = edits + 1
  /\ IF \A f \in Editors \ {e} : editing[f] = Waiting THEN UNCHANGED collisions
     ELSE collisions < MaxCollisions /\ collisions' = collisions + 1

-----------------------------------------------------------------------------
(* Products *)

\* product_create, product_import_url
CreateCandidate(e, c, facts) ==
  /\ Ask(e) /\ product[c] = Nothing
  /\ product' = [product EXCEPT ![c] = facts]
  /\ UNCHANGED <<line, measure, editing>>

\* any of the facts, none of which depends on another
PatchCandidate(e, c, facts) ==
  /\ Ask(e) /\ product[c] # Nothing
  /\ product' = [product EXCEPT ![c] = facts]
  /\ UNCHANGED <<line, measure, editing>>

\* the foreign key of a budget item refuses the deletion of its product
DeleteCandidate(e, c) ==
  /\ Ask(e) /\ product[c] # Nothing
  /\ product' = IF \E l \in Lines : line[l] # Nothing /\ line[l].kind = c
                THEN product ELSE [product EXCEPT ![c] = Nothing]
  /\ UNCHANGED <<line, measure, editing>>

-----------------------------------------------------------------------------
(* Budget items; one that is for a product has the product as its kind *)

\* an amount has a currency
WithCurrency(row) ==
  IF row.amount # Nothing /\ row.currency = Nothing
  THEN [row EXCEPT !.currency = DefaultCurrency] ELSE row

AddItem(e, l, row) ==
  /\ Ask(e) /\ line[l] = Nothing
  /\ row.kind \in Products => product[row.kind] # Nothing
  /\ row.kind = "material" <=> row.takeoff # Nothing
  /\ row.takeoff # Nothing => row.takeoff.numeric
  /\ line' = [line EXCEPT ![l] = WithCurrency(row)]
  /\ UNCHANGED <<product, measure, editing>>

DeleteItem(e, l) ==
  /\ Ask(e) /\ line[l] # Nothing
  /\ line' = [line EXCEPT ![l] = Nothing]
  /\ UNCHANGED <<product, measure, editing>>

Patched(row, patch) == [f \in DOMAIN row |-> IF f \in DOMAIN patch THEN patch[f] ELSE row[f]]

\* without the currency when the patch is over
LoadItemAsIs(e, l, patch) ==
  /\ Ask(e) /\ line[l] # Nothing
  /\ "takeoff" \in DOMAIN patch => line[l].kind = "material"
  /\ editing' = [editing EXCEPT ![e] =
       [pc |-> "patch", on |-> l, old |-> line[l], new |-> Patched(line[l], patch)]]
  /\ UNCHANGED <<product, line, measure>>

\* patch_budget_item changes the row as it was loaded; metadata, and with it the
\* takeoff, goes in unexamined ...
LoadItem(e, l, patch) ==
  /\ Ask(e) /\ line[l] # Nothing
  /\ "takeoff" \in DOMAIN patch => line[l].kind = "material"
  /\ editing' = [editing EXCEPT ![e] =
       [pc |-> "patch", on |-> l, old |-> line[l],
        new |-> WithCurrency(Patched(line[l], patch))]]
  /\ UNCHANGED <<product, line, measure>>

\* ... and writes the columns that changed, if the row is still there
WriteItem(e) ==
  LET r == editing[e]
  IN /\ r.pc = "patch"
     /\ line' = IF line[r.on] = Nothing THEN line
                ELSE [line EXCEPT ![r.on] = [f \in DOMAIN @ |->
                        IF r.new[f] # r.old[f] THEN r.new[f] ELSE @[f]]]
     /\ editing' = [editing EXCEPT ![e] = Waiting]
     /\ UNCHANGED <<product, measure, edits, collisions>>

\* a command on the variant adds or removes what material lines are for
ChangeScene(e) ==
  /\ Ask(e)
  /\ measure' \in {Nothing, Size} \ {measure}
  /\ UNCHANGED <<product, line, editing>>

-----------------------------------------------------------------------------
(* The report *)

\* _material_takeoff: the quantity a line starts from ...
BaseQuantity(row, size) ==
  CASE row.takeoff = Nothing -> Nothing
    [] row.takeoff # Nothing /\ row.takeoff.unit = "each" -> row.quantity
    [] OTHER -> size

\* ... and what is bought of it, in hundredths: whole packages, if it comes in packages
Packages(base, packed) ==
  LET required == base * (100 + Waste)
  IN IF packed THEN 100 * ((required + 100 * PackageSize - 1) \div (100 * PackageSize))
     ELSE required

ByTakeoff(row) == row.kind = "material" /\ row.amount = Nothing
ByProduct(row) == row.kind \in Products /\ row.amount = Nothing

\* a product without a price is skipped, not unknown
PriceItemLeniently(row, size) ==
  LET p == IF row.kind \in Products THEN product[row.kind] ELSE Nothing
      base == BaseQuantity(row, size)
      raises == ByTakeoff(row) /\ base # Nothing /\ ~row.takeoff.numeric
      each == IF ByProduct(row) THEN (IF p = Nothing \/ p.price = Nothing THEN 0 ELSE p.price)
              ELSE IF ByTakeoff(row) THEN (IF base = Nothing THEN Nothing ELSE row.takeoff.price)
              ELSE row.amount
      currency == IF ByProduct(row) /\ row.currency = Nothing /\ p # Nothing
                  THEN p.currency ELSE row.currency
      known == ~raises /\ each # Nothing /\ currency # Nothing
  IN [complete |-> known, raises |-> raises, currency |-> currency,
      gives |-> IF ~known THEN 0
                ELSE IF ByTakeoff(row) THEN Packages(base, row.takeoff.packed) * each
                ELSE 100 * (IF row.quantity = Nothing THEN each ELSE each * row.quantity)]

\* _price_item: what a line contributes, in hundredths; the currency of a line goes before
\* that of its product even where the price is the product's.  Factors that are no numbers
\* raise once there is a quantity to multiply
PriceItem(row, size) ==
  LET p == IF row.kind \in Products THEN product[row.kind] ELSE Nothing
      base == BaseQuantity(row, size)
      raises == ByTakeoff(row) /\ base # Nothing /\ ~row.takeoff.numeric
      each == IF ByProduct(row) THEN (IF p = Nothing THEN Nothing ELSE p.price)
              ELSE IF ByTakeoff(row) THEN (IF base = Nothing THEN Nothing ELSE row.takeoff.price)
              ELSE row.amount
      currency == IF ByProduct(row) /\ row.currency = Nothing /\ p # Nothing
                  THEN p.currency ELSE row.currency
      known == ~raises /\ each # Nothing /\ currency # Nothing
  IN [complete |-> known, raises |-> raises, currency |-> currency,
      gives |-> IF ~known THEN 0
                ELSE IF ByTakeoff(row) THEN Packages(base, row.takeoff.packed) * each
                ELSE 100 * (IF row.quantity = Nothing THEN each ELSE each * row.quantity)]

\* budget_report reads the head and the items ...
BeginReport(e) ==
  /\ Ask(e)
  /\ editing' = [editing EXCEPT ![e] = [pc |-> "report", rows |-> line, size |-> measure]]
  /\ UNCHANGED <<product, line, measure>>

\* adds up what each line comes to
Total(bill) == MapThenSumSet(LAMBDA l : bill[l], DOMAIN bill)

\* ... then the products, and answers with this, unless it raises: an empty currency is
\* not among the currencies, though the line is in the total
BudgetReport(r) ==
  LET on == {l \in Lines : r.rows[l] # Nothing}
      bill == [l \in on |-> PriceItem(r.rows[l], r.size)]
      currencies == {bill[l].currency : l \in {k \in on : bill[k].complete}} \ {Unnamed}
  IN [currencies |-> currencies,
      raises |-> \E l \in on : bill[l].raises,
      incomplete |-> Cardinality(currencies) > 1 \/ \E l \in on : ~bill[l].complete,
      total |-> Total([l \in on |-> bill[l].gives])]

FinishReport(e) ==
  /\ editing[e].pc = "report"
  /\ editing' = [editing EXCEPT ![e] = Waiting]
  /\ UNCHANGED <<product, line, measure, edits, collisions>>

-----------------------------------------------------------------------------
CatalogueInit ==
  /\ product = [c \in Products |-> Nothing] /\ line = [l \in Lines |-> Nothing]
  /\ measure = Size
  /\ editing = [e \in Editors |-> Waiting] /\ edits = 0 /\ collisions = 0

CatalogueNext ==
  \E e \in Editors :
    \/ \E c \in Products :
         \/ \E facts \in Found : CreateCandidate(e, c, facts)
         \/ \E facts \in Found : PatchCandidate(e, c, facts)
         \/ DeleteCandidate(e, c)
    \/ \E l \in Lines :
         \/ \E row \in Sent : AddItem(e, l, row)
         \/ \E patch \in Patches : LoadItem(e, l, patch)
         \/ DeleteItem(e, l)
    \/ WriteItem(e) \/ ChangeScene(e) \/ BeginReport(e) \/ FinishReport(e)

CatalogueSpec == CatalogueInit /\ [][CatalogueNext]_catalogueVars

-----------------------------------------------------------------------------
\* An amount comes with a currency (budget.py: "amount present => currency
\* required"), as long as no two requests overlap: two patches of one line, of its
\* amount and of its currency, together leave an amount without a currency.
AmountHasCurrency ==
  collisions = 0 =>
    \A l \in Lines : line[l] # Nothing /\ line[l].amount # Nothing => line[l].currency # Nothing

\* A report that is not incomplete leaves nothing out, whatever was changed while it
\* was made: each line has a price from where its kind has it, no two lines name
\* different currencies, and the total is the sum of them all, lines included whose
\* product names the empty currency (budget.py: "incomplete items surface as unknowns").
ReportIsWhole ==
  \A e \in Editors :
    editing[e].pc = "report" /\ ~BudgetReport(editing[e]).incomplete =>
      LET row == editing[e].rows
          on == {l \in Lines : row[l] # Nothing}
          manual == {l \in on : row[l].amount # Nothing}
          bought == {l \in on \ manual : row[l].kind \in Products}
          measured == (on \ manual) \ bought
          times(n, l) == 100 * (IF row[l].quantity = Nothing THEN n ELSE n * row[l].quantity)
          answer == BudgetReport(editing[e])
      IN /\ ~answer.raises
         /\ \A l \in bought : product[row[l].kind] # Nothing /\ product[row[l].kind].price # Nothing
         /\ \A l \in measured : row[l].kind = "material" /\ row[l].takeoff.price # Nothing
         /\ \E cur \in Currencies : \A l \in on :
              (IF l \in bought /\ row[l].currency = Nothing
               THEN product[row[l].kind].currency ELSE row[l].currency) \in {cur, Unnamed}
         /\ answer.total =
              Total([l \in manual |-> times(row[l].amount, l)])
                + Total([l \in bought |-> times(product[row[l].kind].price, l)])
                + Total([l \in measured |-> row[l].takeoff.price *
                      Packages(IF row[l].takeoff.unit = "each" THEN row[l].quantity
                               ELSE editing[e].size, row[l].takeoff.packed)])
=============================================================================
