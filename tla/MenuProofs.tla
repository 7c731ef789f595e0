----------------------------- MODULE MenuProofs -----------------------------
(***************************************************************************)
(* For every set of ids, names, prices, editors and listers: the menu      *)
(* store is type correct, items never lose their category, and a listing   *)
(* shows what its client could see all the while, and nothing it never     *)
(* could.  MenuInv is inductive; ListingFaithful needs ForeignKeys,        *)
(* because ListMenu only asks for the items of the categories it has read. *)
(***************************************************************************)
EXTENDS Menu, TLAPS

-----------------------------------------------------------------------------
\* A row patched with columns of a row of the same table is such a row.
LEMMA OverlayItem ==
  ASSUME NEW row \in ItemRow, NEW patch \in ItemPatches
  PROVE  Overlay(row, patch) \in ItemRow
<1>1. PICK r \in ItemRow, S \in SUBSET {"category", "price", "available"} :
         patch = [f \in S |-> r[f]]
  BY DEF ItemPatches, Patches
<1>2. DOMAIN row = {"category", "price", "available"}
  BY DEF ItemRow
<1>3. Overlay(row, patch) =
         [category |-> IF "category" \in S THEN r.category ELSE row.category,
          price |-> IF "price" \in S THEN r.price ELSE row.price,
          available |-> IF "available" \in S
                        THEN r.available ELSE row.available]
  BY <1>1, <1>2 DEF Overlay
<1> QED
  BY <1>3 DEF ItemRow

\* The same for the columns of a category.
LEMMA OverlayCategory ==
  ASSUME NEW row \in CategoryRow, NEW patch \in CategoryPatches
  PROVE  Overlay(row, patch) \in CategoryRow
<1>1. PICK r \in CategoryRow, S \in SUBSET {"name", "sort"} :
         patch = [f \in S |-> r[f]]
  BY DEF CategoryPatches, Patches
<1>2. DOMAIN row = {"name", "sort"}
  BY DEF CategoryRow
<1>3. Overlay(row, patch) =
         [name |-> IF "name" \in S THEN r.name ELSE row.name,
          sort |-> IF "sort" \in S THEN r.sort ELSE row.sort]
  BY <1>1, <1>2 DEF Overlay
<1> QED
  BY <1>3 DEF CategoryRow

-----------------------------------------------------------------------------
\* Empty tables satisfy the invariant.
LEMMA InitMenuInv == Init => MenuInv
<1> SUFFICES ASSUME Init PROVE MenuInv
  OBVIOUS
<1>1. TablesTyped /\ EditorsTyped /\ ListersTyped
  BY DEF Init, TablesTyped, EditorsTyped, ListersTyped
<1>2. ForeignKeys /\ ListersReset /\ HistoriesHold /\ ListingFaithful
  BY DEF Init, ForeignKeys, ListersReset, HistoriesHold, ListingFaithful
<1> QED
  BY <1>1, <1>2 DEF MenuInv, TypeOK

(* What the tables and the listings owe to one write of an item row, which *)
(* is all that any action does to items.                                   *)
LEMMA WriteItemRowInv ==
  ASSUME MenuInv, NEW i \in ItemIds, NEW row \in ItemRow \cup {NoRow},
         row # NoRow => CategoryExists(row.category),
         WriteItemRow(i, row), UNCHANGED categories,
         drawn' \subseteq CategoryIds \cup ItemIds
  PROVE  /\ TablesTyped' /\ ListersTyped' /\ ForeignKeys'
         /\ ListersReset' /\ HistoriesHold' /\ ListingFaithful'
<1>1. /\ items' = [items EXCEPT ![i] = row]
      /\ UNCHANGED <<categories, lpc, all, todo, shown>>
      /\ steady' = [l \in Listers |-> steady[l] \cap Sight(l)']
      /\ ever' = [l \in Listers |->
                     IF lpc[l] = "idle" THEN {} ELSE ever[l] \cup Sight(l)']
  BY DEF WriteItemRow
<1>2. TablesTyped'
  BY <1>1 DEF MenuInv, TypeOK, TablesTyped
<1>3. ListersTyped'
  <2>1. \A l \in Listers : Sight(l)' \subseteq CategoryIds \X ItemIds
    BY DEF Sight
  <2> QED
    BY <1>1, <2>1 DEF MenuInv, TypeOK, ListersTyped
<1>4. ForeignKeys'
  BY <1>1 DEF MenuInv, TypeOK, TablesTyped, ForeignKeys, CategoryExists
<1>5. ListersReset'
  BY <1>1 DEF MenuInv, ListersReset
<1>6. HistoriesHold'
  BY <1>1 DEF HistoriesHold
<1>7. ListingFaithful'
  BY <1>1 DEF MenuInv, ListingFaithful
<1> QED
  BY <1>2, <1>3, <1>4, <1>5, <1>6, <1>7

\* What a client may see depends on the items and on who asks.
LEMMA SightKept ==
  ASSUME UNCHANGED <<items, all>>
  PROVE  \A l : Sight(l)' = Sight(l)
  BY DEF Sight, Visible

\* Categories may come, change and go as long as the items keep theirs.
LEMMA CategoriesInv ==
  ASSUME MenuInv, UNCHANGED <<items, listVars>>, TablesTyped', ForeignKeys'
  PROVE  ListersTyped' /\ ListersReset' /\ HistoriesHold' /\ ListingFaithful'
  BY SightKept
     DEF listVars, history, MenuInv, TypeOK, ListersTyped, ListersReset,
         HistoriesHold, ListingFaithful

\* A request that is answered or only remembers something.
LEMMA TablesKeptInv ==
  ASSUME MenuInv, UNCHANGED <<tables, listVars>>
  PROVE  /\ TablesTyped' /\ ListersTyped' /\ ForeignKeys'
         /\ ListersReset' /\ HistoriesHold' /\ ListingFaithful'
<1>1. TablesTyped' /\ ForeignKeys'
  BY DEF tables, MenuInv, TypeOK, TablesTyped, ForeignKeys, CategoryExists
<1> QED
  BY <1>1, CategoriesInv DEF tables

\* A request that is answered, whatever it leaves in the tables.
LEMMA ReturnInv ==
  ASSUME MenuInv, NEW e \in Editors, Return(e)
  PROVE  EditorsTyped'
  BY DEF Return, Goto, MenuInv, TypeOK, EditorsTyped

-----------------------------------------------------------------------------
(* Categories.                                                             *)

\* A new category takes no item from another.
LEMMA CreateCategoryInv ==
  ASSUME MenuInv, NEW e \in Editors, CreateCategory(e)
  PROVE  MenuInv'
<1>1. PICK c \in CategoryIds \ drawn, row \in CategoryRow :
         /\ categories' = [categories EXCEPT ![c] = row]
         /\ drawn' = drawn \cup {c}
  BY DEF CreateCategory
<1>2. UNCHANGED <<items, pc, task, listVars>>
  BY DEF CreateCategory
<1>3. TablesTyped'
  BY <1>1, <1>2 DEF MenuInv, TypeOK, TablesTyped
<1>4. ForeignKeys'
  <2> SUFFICES ASSUME NEW i \in ItemIds, items[i] # NoRow
               PROVE  categories'[items[i].category] # NoRow
    BY <1>2 DEF ForeignKeys, CategoryExists
  <2>1. items[i].category \in CategoryIds
    BY DEF MenuInv, TypeOK, TablesTyped, ItemRow
  <2>2. categories[items[i].category] # NoRow
    BY DEF MenuInv, ForeignKeys, CategoryExists
  <2>3. row # NoRow
    BY NoRowIsNoRow
  <2> QED
    BY <1>1, <2>1, <2>2, <2>3 DEF MenuInv, TypeOK, TablesTyped
<1>5. EditorsTyped'
  BY <1>2 DEF MenuInv, TypeOK, EditorsTyped
<1> QED
  BY <1>2, <1>3, <1>4, <1>5, CategoriesInv DEF MenuInv, TypeOK

\* A category read and patched is a category row.
LEMMA ReadCategoryInv ==
  ASSUME MenuInv, NEW e \in Editors, ReadCategory(e)
  PROVE  MenuInv'
<1>1. PICK c \in CategoryIds, patch \in CategoryPatches :
         /\ categories[c] # NoRow
         /\ task' = [task EXCEPT ![e] =
                        Task(c, patch, Overlay(categories[c], patch))]
  BY DEF ReadCategory
<1>2. Overlay(categories[c], patch) \in CategoryRow
  BY <1>1, OverlayCategory DEF MenuInv, TypeOK, TablesTyped
<1>3. EditorsTyped'
  BY <1>1, <1>2
     DEF ReadCategory, Goto, Task, MenuInv, TypeOK, EditorsTyped
<1> QED
  BY <1>3, TablesKeptInv DEF ReadCategory, MenuInv, TypeOK

\* The UPDATE replaces a row by a row: no item loses its category.
LEMMA UpdateCategoryInv ==
  ASSUME MenuInv, NEW e \in Editors, UpdateCategory(e)
  PROVE  MenuInv'
<1> DEFINE c == task[e].id
           row == task[e].row
<1>1. c \in CategoryIds /\ row \in CategoryRow
  BY DEF UpdateCategory, MenuInv, TypeOK, EditorsTyped
<1>2. /\ categories' \in {categories, [categories EXCEPT ![c] = row]}
      /\ UNCHANGED <<items, drawn, listVars>>
  BY DEF UpdateCategory
<1> HIDE DEF c, row
<1>3. TablesTyped'
  BY <1>1, <1>2 DEF MenuInv, TypeOK, TablesTyped
<1>4. \A d \in CategoryIds : categories[d] # NoRow => categories'[d] # NoRow
  BY <1>1, <1>2, NoRowIsNoRow DEF MenuInv, TypeOK, TablesTyped
<1>5. ForeignKeys'
  BY <1>2, <1>4
     DEF MenuInv, TypeOK, TablesTyped, ItemRow, ForeignKeys, CategoryExists
<1>6. EditorsTyped'
  BY ReturnInv DEF UpdateCategory
<1> QED
  BY <1>2, <1>3, <1>5, <1>6, CategoriesInv DEF MenuInv, TypeOK

\* ON DELETE RESTRICT: the category that goes has no items.
LEMMA DeleteCategoryInv ==
  ASSUME MenuInv, NEW e \in Editors, DeleteCategory(e)
  PROVE  MenuInv'
<1>1. PICK c \in CategoryIds :
         ~Referenced(c) /\ categories' = [categories EXCEPT ![c] = NoRow]
  BY DEF DeleteCategory
<1>2. UNCHANGED <<items, drawn, pc, task, listVars>>
  BY DEF DeleteCategory
<1>3. TablesTyped'
  BY <1>1, <1>2 DEF MenuInv, TypeOK, TablesTyped
<1>4. ForeignKeys'
  BY <1>1, <1>2
     DEF MenuInv, TypeOK, TablesTyped, ForeignKeys, CategoryExists, Referenced
<1>5. EditorsTyped'
  BY <1>2 DEF MenuInv, TypeOK, EditorsTyped
<1> QED
  BY <1>2, <1>3, <1>4, <1>5, CategoriesInv DEF MenuInv, TypeOK

-----------------------------------------------------------------------------
(* Items.                                                                  *)

\* FindCategory, ReadItem, CheckCategory, Fail and NotFound write no table.
LEMMA RememberInv ==
  ASSUME MenuInv, NEW e \in Editors,
         \/ FindCategory(e) \/ ReadItem(e) \/ CheckCategory(e)
         \/ Fail(e) \/ NotFound(e)
  PROVE  MenuInv'
<1>1. UNCHANGED <<tables, listVars>>
  BY DEF FindCategory, ReadItem, CheckCategory, Fail, NotFound, vars
<1>2. EditorsTyped'
  <2>1. CASE FindCategory(e)
    BY <2>1 DEF FindCategory, Goto, Task, MenuInv, TypeOK, EditorsTyped
  <2>2. CASE ReadItem(e)
    <3>1. PICK i \in ItemIds, patch \in ItemPatches :
             /\ items[i] # NoRow
             /\ task' = [task EXCEPT ![e] =
                            Task(i, patch, Overlay(items[i], patch))]
             /\ Goto(e, IF "category" \in DOMAIN patch
                        THEN "checkCategory" ELSE "updateItem")
      BY <2>2 DEF ReadItem
    <3>2. Overlay(items[i], patch) \in ItemRow
      BY <3>1, OverlayItem DEF MenuInv, TypeOK, TablesTyped
    <3> QED
      BY <3>1, <3>2 DEF Goto, Task, MenuInv, TypeOK, EditorsTyped
  <2>3. CASE CheckCategory(e)
    <3>1. CASE Return(e)
      BY <3>1, ReturnInv
    <3>2. CASE Goto(e, "updateItem") /\ UNCHANGED task
      BY <2>3, <3>2
         DEF CheckCategory, Goto, MenuInv, TypeOK, EditorsTyped
    <3> QED
      BY <2>3, <3>1, <3>2 DEF CheckCategory
  <2>4. CASE Fail(e)
    BY <2>4, ReturnInv DEF Fail
  <2>5. CASE NotFound(e)
    BY <2>5 DEF NotFound, vars, MenuInv, TypeOK, EditorsTyped
  <2> QED
    BY <2>1, <2>2, <2>3, <2>4, <2>5
<1> QED
  BY <1>1, <1>2, TablesKeptInv DEF MenuInv, TypeOK

\* The foreign key is checked again when the item is inserted.
LEMMA InsertItemInv ==
  ASSUME MenuInv, NEW e \in Editors, InsertItem(e)
  PROVE  MenuInv'
<1>1. task[e].row \in ItemRow
  BY DEF InsertItem, MenuInv, TypeOK, EditorsTyped
<1>2. EditorsTyped'
  BY ReturnInv DEF InsertItem
<1>3. CASE CategoryExists(task[e].row.category)
  <2>1. PICK i \in ItemIds \ drawn :
           WriteItemRow(i, task[e].row) /\ drawn' = drawn \cup {i}
    BY <1>3 DEF InsertItem
  <2>2. UNCHANGED categories /\ drawn' \subseteq CategoryIds \cup ItemIds
    BY <2>1 DEF InsertItem, MenuInv, TypeOK, TablesTyped
  <2> QED
    BY <1>1, <1>2, <1>3, <2>1, <2>2, WriteItemRowInv DEF MenuInv, TypeOK
<1>4. CASE ~CategoryExists(task[e].row.category)
  BY <1>2, <1>4, TablesKeptInv DEF InsertItem, tables, MenuInv, TypeOK
<1> QED
  BY <1>3, <1>4

\* And when it is updated.
LEMMA UpdateItemInv ==
  ASSUME MenuInv, NEW e \in Editors, UpdateItem(e)
  PROVE  MenuInv'
<1>1. task[e].id \in ItemIds /\ task[e].row \in ItemRow
  BY DEF UpdateItem, MenuInv, TypeOK, EditorsTyped
<1>2. EditorsTyped'
  BY ReturnInv DEF UpdateItem
<1>3. /\ UNCHANGED <<categories, drawn>>
      /\ drawn' \subseteq CategoryIds \cup ItemIds
  BY DEF UpdateItem, MenuInv, TypeOK, TablesTyped
<1>4. CASE /\ CategoryExists(task[e].row.category)
           /\ WriteItemRow(task[e].id, task[e].row)
  BY <1>1, <1>2, <1>3, <1>4, WriteItemRowInv DEF MenuInv, TypeOK
<1>5. CASE UNCHANGED <<items, listVars>>
  BY <1>2, <1>3, <1>5, TablesKeptInv DEF tables, MenuInv, TypeOK
<1> QED
  BY <1>4, <1>5 DEF UpdateItem

\* An item deleted leaves no dangling reference.
LEMMA DeleteItemInv ==
  ASSUME MenuInv, NEW e \in Editors, DeleteItem(e)
  PROVE  MenuInv'
<1>1. PICK i \in ItemIds : WriteItemRow(i, NoRow)
  BY DEF DeleteItem
<1>2. /\ UNCHANGED <<categories, drawn, pc, task>>
      /\ drawn' \subseteq CategoryIds \cup ItemIds
  BY DEF DeleteItem, MenuInv, TypeOK, TablesTyped
<1>3. EditorsTyped'
  BY <1>2 DEF MenuInv, TypeOK, EditorsTyped
<1> QED
  BY <1>1, <1>2, <1>3, WriteItemRowInv DEF MenuInv, TypeOK

-----------------------------------------------------------------------------
(* GET /api/menu.                                                          *)

\* The categories read first are all those items refer to.
LEMMA ListCategoriesInv ==
  ASSUME MenuInv, NEW l \in Listers, ListCategories(l)
  PROVE  MenuInv'
<1>1. /\ lpc[l] = "idle" /\ lpc' = [lpc EXCEPT ![l] = "listing"]
      /\ todo' = [todo EXCEPT ![l] =
                     {c \in CategoryIds : CategoryExists(c)}]
      /\ \E b \in BOOLEAN : all' = [all EXCEPT ![l] = b]
      /\ UNCHANGED <<categories, items, drawn, pc, task, shown>>
      /\ steady' = [steady EXCEPT ![l] = Sight(l)']
      /\ ever' = [ever EXCEPT ![l] = Sight(l)']
  BY DEF ListCategories, tables
<1>2. Sight(l)' \subseteq CategoryIds \X ItemIds
  BY DEF Sight
<1>3. TypeOK'
  BY <1>1, <1>2 DEF MenuInv, TypeOK, TablesTyped, EditorsTyped, ListersTyped
<1>4. ForeignKeys' /\ ListersReset'
  BY <1>1 DEF MenuInv, TypeOK, ListersTyped, ForeignKeys, CategoryExists,
              ListersReset
<1>5. \A k \in Listers \ {l} :
         /\ lpc'[k] = lpc[k] /\ todo'[k] = todo[k] /\ all'[k] = all[k]
         /\ steady'[k] = steady[k] /\ ever'[k] = ever[k]
  BY <1>1 DEF MenuInv, TypeOK, ListersTyped
<1>6. \A k \in Listers \ {l} : Sight(k)' = Sight(k)
  BY <1>1, <1>5 DEF Sight, Visible
<1>7. steady'[l] = Sight(l)' /\ ever'[l] = Sight(l)' /\ shown'[l] = {}
  BY <1>1 DEF MenuInv, TypeOK, ListersTyped, ListersReset
<1>8. HistoriesHold'
  BY <1>5, <1>6, <1>7 DEF MenuInv, HistoriesHold
<1>9. ASSUME NEW p \in Sight(l)' PROVE p[1] \in todo'[l]
  <2>1. p[1] \in CategoryIds /\ p[2] \in ItemIds /\ items[p[2]] # NoRow
        /\ items[p[2]].category = p[1]
    BY <1>1, <1>9 DEF Sight, Visible
  <2> QED
    BY <1>1, <2>1 DEF MenuInv, TypeOK, ListersTyped, ForeignKeys
<1>10. ASSUME NEW k \in Listers, lpc'[k] = "listing"
       PROVE  /\ \A p \in steady'[k] : p[1] \notin todo'[k] => p \in shown'[k]
              /\ shown'[k] \subseteq ever'[k]
  <2>1. CASE k # l
    BY <1>1, <1>5, <1>10, <2>1 DEF MenuInv, ListingFaithful
  <2>2. CASE k = l
    BY <1>7, <1>9, <2>2
  <2> QED
    BY <2>1, <2>2
<1>11. ListingFaithful'
  BY <1>10 DEF ListingFaithful
<1> QED
  BY <1>3, <1>4, <1>8, <1>11 DEF MenuInv

\* The items listed for one category are those its client can see there now.
LEMMA ListItemsInv ==
  ASSUME MenuInv, NEW l \in Listers, ListItemsByCategory(l)
  PROVE  MenuInv'
<1> DEFINE found(c) == {<<c, i>> : i \in ItemsOf(l, c)}
<1>1. PICK c \in todo[l] :
         /\ todo' = [todo EXCEPT ![l] = todo[l] \ {c}]
         /\ shown' = [shown EXCEPT ![l] = shown[l] \cup found(c)]
  BY DEF ListItemsByCategory
<1>2. /\ lpc[l] = "listing"
      /\ UNCHANGED <<categories, items, drawn, pc, task, lpc, all, history>>
  BY DEF ListItemsByCategory, tables
<1>3. c \in CategoryIds
  BY <1>1 DEF MenuInv, TypeOK, ListersTyped
<1>4. found(c) = {p \in Sight(l) : p[1] = c}
  <2>1. \A p \in Sight(l) : p = <<p[1], p[2]>> /\ p[2] \in ItemIds
    BY DEF Sight
  <2>2. \A i \in ItemIds : i \in ItemsOf(l, c) <=> <<c, i>> \in Sight(l)
    BY <1>3 DEF ItemsOf, Sight, Visible
  <2>3. ItemsOf(l, c) \subseteq ItemIds
    BY DEF ItemsOf
  <2> QED
    BY <2>1, <2>2, <2>3
<1> HIDE DEF found
<1>5. found(c) \subseteq CategoryIds \X ItemIds
  BY <1>4 DEF Sight
<1>6. TypeOK'
  BY <1>1, <1>2, <1>5
     DEF history, MenuInv, TypeOK, TablesTyped, EditorsTyped, ListersTyped
<1>7. ForeignKeys' /\ ListersReset'
  BY <1>1, <1>2 DEF history, MenuInv, TypeOK, ListersTyped, ForeignKeys,
                    CategoryExists, ListersReset
<1>8. HistoriesHold'
  BY <1>2, SightKept DEF history, MenuInv, HistoriesHold
<1>9. ASSUME NEW k \in Listers, lpc'[k] = "listing"
      PROVE  /\ \A p \in steady'[k] : p[1] \notin todo'[k] => p \in shown'[k]
             /\ shown'[k] \subseteq ever'[k]
  <2>1. CASE k # l
    <3>1. todo'[k] = todo[k] /\ shown'[k] = shown[k]
      BY <1>1, <2>1 DEF MenuInv, TypeOK, ListersTyped
    <3> QED
      BY <1>2, <1>9, <3>1 DEF history, MenuInv, ListingFaithful
  <2>2. CASE k = l
    <3>1. /\ todo'[l] = todo[l] \ {c}
          /\ shown'[l] = shown[l] \cup found(c)
      BY <1>1 DEF MenuInv, TypeOK, ListersTyped
    <3>2. steady[l] \subseteq Sight(l) /\ Sight(l) \subseteq ever[l]
      BY <1>2 DEF MenuInv, HistoriesHold
    <3> QED
      BY <1>2, <1>4, <2>2, <3>1, <3>2 DEF history, MenuInv, ListingFaithful
  <2> QED
    BY <2>1, <2>2
<1>10. ListingFaithful'
  BY <1>9 DEF ListingFaithful
<1> QED
  BY <1>6, <1>7, <1>8, <1>10 DEF MenuInv

\* An answered listing forgets everything.
LEMMA EndListingInv ==
  ASSUME MenuInv, NEW l \in Listers, EndListing(l)
  PROVE  MenuInv'
<1>1. /\ lpc' = [lpc EXCEPT ![l] = "idle"]
      /\ all' = [all EXCEPT ![l] = FALSE]
      /\ todo' = [todo EXCEPT ![l] = {}]
      /\ shown' = [shown EXCEPT ![l] = {}]
      /\ steady' = [steady EXCEPT ![l] = {}]
      /\ ever' = [ever EXCEPT ![l] = {}]
      /\ UNCHANGED <<categories, items, drawn, pc, task>>
  BY DEF EndListing, tables
<1>2. TypeOK'
  BY <1>1 DEF MenuInv, TypeOK, TablesTyped, EditorsTyped, ListersTyped
<1>3. ForeignKeys' /\ ListersReset'
  BY <1>1 DEF MenuInv, TypeOK, ListersTyped, ForeignKeys, CategoryExists,
              ListersReset
<1>4. \A k \in Listers : lpc'[k] = "listing" =>
         /\ k # l /\ lpc[k] = "listing"
         /\ all'[k] = all[k] /\ todo'[k] = todo[k] /\ shown'[k] = shown[k]
         /\ steady'[k] = steady[k] /\ ever'[k] = ever[k]
  BY <1>1 DEF MenuInv, TypeOK, ListersTyped
<1>5. HistoriesHold'
  <2>1. \A k \in Listers : lpc'[k] = "listing" => Sight(k)' = Sight(k)
    BY <1>1, <1>4 DEF Sight, Visible
  <2> QED
    BY <1>4, <2>1 DEF MenuInv, HistoriesHold
<1>6. ListingFaithful'
  BY <1>4 DEF MenuInv, ListingFaithful
<1> QED
  BY <1>2, <1>3, <1>5, <1>6 DEF MenuInv

-----------------------------------------------------------------------------
\* Every statement of every request keeps the invariant.
LEMMA StepMenuInv == MenuInv /\ [Next]_vars => MenuInv'
<1> SUFFICES ASSUME MenuInv, [Next]_vars PROVE MenuInv'
  OBVIOUS
<1>1. ASSUME NEW e \in Editors, Edit(e) PROVE MenuInv'
  BY <1>1, CreateCategoryInv, ReadCategoryInv, UpdateCategoryInv,
     DeleteCategoryInv, RememberInv, InsertItemInv, UpdateItemInv,
     DeleteItemInv DEF Edit
<1>2. ASSUME NEW l \in Listers, List(l) PROVE MenuInv'
  BY <1>2, ListCategoriesInv, ListItemsInv, EndListingInv DEF List
<1>3. CASE UNCHANGED vars
  <2>1. EditorsTyped'
    BY <1>3 DEF vars, MenuInv, TypeOK, EditorsTyped
  <2> QED
    BY <1>3, <2>1, TablesKeptInv DEF vars, MenuInv, TypeOK
<1> QED
  BY <1>1, <1>2, <1>3 DEF Next

\* The invariant of the menu holds in every reachable state.
THEOREM MenuInvHolds == Spec => []MenuInv
  BY InitMenuInv, StepMenuInv, PTL DEF Spec

\* No interleaving leaves an item without its category.
THEOREM ForeignKeysHold == Spec => []ForeignKeys
<1>1. MenuInv => ForeignKeys
  BY DEF MenuInv
<1> QED
  BY <1>1, MenuInvHolds, PTL

\* Whatever is written meanwhile, a listing shows what its client could see
\* all the while in the categories it has read, and only what it could see
\* at some moment.
THEOREM ListingsAreFaithful == Spec => []ListingFaithful
<1>1. MenuInv => ListingFaithful
  BY DEF MenuInv
<1> QED
  BY <1>1, MenuInvHolds, PTL

\* No statement brings a deleted row back.
THEOREM NoResurrection == Spec => DeletedStaysDeleted
<1> DEFINE Kept ==
       /\ \A i \in drawn \cap ItemIds : items[i] = NoRow => items'[i] = NoRow
       /\ \A c \in drawn \cap CategoryIds :
             categories[c] = NoRow => categories'[c] = NoRow
<1>1. MenuInv /\ [Next]_vars => [Kept]_vars
  <2> SUFFICES ASSUME MenuInv, Next PROVE Kept
    OBVIOUS
  <2>1. /\ categories \in [CategoryIds -> CategoryRow \cup {NoRow}]
        /\ items \in [ItemIds -> ItemRow \cup {NoRow}]
    BY DEF MenuInv, TypeOK, TablesTyped
  <2>2. ASSUME NEW l \in Listers, List(l) PROVE Kept
    BY <2>2 DEF List, ListCategories, ListItemsByCategory, EndListing, tables
  <2>3. ASSUME NEW e \in Editors, Edit(e) PROVE Kept
    <3>1. CASE CreateCategory(e)
      BY <2>1, <3>1 DEF CreateCategory
    <3>2. CASE UpdateCategory(e)
      BY <2>1, <3>2 DEF UpdateCategory, CategoryExists
    <3>3. CASE DeleteCategory(e)
      BY <2>1, <3>3 DEF DeleteCategory
    <3>4. CASE InsertItem(e)
      BY <2>1, <3>4 DEF InsertItem, WriteItemRow
    <3>5. CASE UpdateItem(e)
      BY <2>1, <3>5 DEF UpdateItem, Matched, WriteItemRow
    <3>6. CASE DeleteItem(e)
      BY <2>1, <3>6 DEF DeleteItem, WriteItemRow
    <3>7. CASE \/ ReadCategory(e) \/ FindCategory(e) \/ ReadItem(e)
               \/ CheckCategory(e) \/ Fail(e) \/ NotFound(e)
      BY <3>7 DEF ReadCategory, FindCategory, ReadItem, CheckCategory, Fail,
                  NotFound, tables, vars
    <3> QED
      BY <2>3, <3>1, <3>2, <3>3, <3>4, <3>5, <3>6, <3>7 DEF Edit
  <2> QED
    BY <2>2, <2>3 DEF Next
<1> QED
  BY <1>1, MenuInvHolds, PTL DEF Spec, DeletedStaysDeleted
=============================================================================
