-------------------------------- MODULE Menu --------------------------------
(***************************************************************************)
(* The menu store: the write handlers of /api/menu (MenuHandler over       *)
(* MenuStore) and GET /api/menu, statement by statement.  No MenuStore     *)
(* method opens a transaction: each SELECT, INSERT, UPDATE and DELETE is   *)
(* atomic by itself and others run in between.  What a method has read is  *)
(* a local copy that may be stale when it writes.                          *)
(*                                                                         *)
(* An early return (400, 404, 409, 500) changes no table; when the         *)
(* method's first statement decides it, it is a stuttering step.           *)
(***************************************************************************)
EXTENDS Integers

CONSTANTS CategoryIds,    \* menu_categories.id: the UUIDs that may be drawn
          CategoryNames,  \* menu_categories.name
          SortOrders,     \* menu_categories.sort_order
          ItemIds,        \* menu_items.id: the UUIDs that may be drawn
          Prices,         \* menu_items.price, in cents
          Editors,        \* menu writes the server handles at once
          Listers,        \* GET /api/menu requests handled at once
          NoRow,          \* no row under this id
          NoTask          \* the slot carries no request

ASSUME MenuPrices == Prices \subseteq Int
ASSUME MenuIds == CategoryIds \cap ItemIds = {}

VARIABLES
    categories,  \* menu_categories
    items,       \* menu_items
    drawn,       \* ids ever given to a row: UUIDs never repeat
    pc,          \* where each write request is in its method
    task,        \* its target, the patch it carries, the row it will write
    lpc,         \* where each GET /api/menu is in ListMenu
    all,         \* its includeUnavailable
    todo,        \* the categories it has still to list items of
    shown,       \* the <<category, item>> pairs it will answer
    steady,      \* history: what its client could see ever since it began
    ever         \* history: what its client could see at some moment since

tables == <<categories, items, drawn>>
history == <<steady, ever>>
listVars == <<lpc, all, todo, shown, history>>
vars == <<tables, pc, task, listVars>>

CategoryRow == [name : CategoryNames, sort : SortOrders]

\* description, image_url, sort_order and name are patched as price is.
ItemRow == [category : CategoryIds, price : Prices, available : BOOLEAN]

ASSUME NoRowIsNoRow == NoRow \notin CategoryRow \cup ItemRow

\* A PUT body: values for some of the columns (pointer fields, nil if absent).
Patches(rows, columns) ==
    {[f \in S |-> row[f]] : row \in rows, S \in SUBSET columns}
ItemPatches == Patches(ItemRow, {"category", "price", "available"})
CategoryPatches == Patches(CategoryRow, {"name", "sort"})

Overlay(row, patch) ==
    [f \in DOMAIN row |-> IF f \in DOMAIN patch THEN patch[f] ELSE row[f]]

Task(id, patch, row) == [id |-> id, patch |-> patch, row |-> row]

\* The constraints of the schema: uk_menu_categories_name and
\* fk_menu_items_category.
NameFree(id, name) ==
    \A c \in CategoryIds \ {id} :
        categories[c] # NoRow => categories[c].name # name
CategoryExists(c) == categories[c] # NoRow
\* Mutant: no foreign key on delete.
NeverReferenced(c) == FALSE
Referenced(c) == \E i \in ItemIds : items[i] # NoRow /\ items[i].category = c

-----------------------------------------------------------------------------
Init ==
    /\ categories = [c \in CategoryIds |-> NoRow]
    /\ items = [i \in ItemIds |-> NoRow]
    /\ drawn = {}
    /\ pc = [e \in Editors |-> "idle"]
    /\ task = [e \in Editors |-> NoTask]
    /\ lpc = [l \in Listers |-> "idle"]
    /\ all = [l \in Listers |-> FALSE]
    /\ todo = [l \in Listers |-> {}]
    /\ shown = [l \in Listers |-> {}]
    /\ steady = [l \in Listers |-> {}]
    /\ ever = [l \in Listers |-> {}]

Goto(e, label) == pc' = [pc EXCEPT ![e] = label]

\* The request is answered, with success or not.
Return(e) == Goto(e, "idle") /\ task' = [task EXCEPT ![e] = NoTask]

\* What the client of a listing may see: an item under its category.
Visible(l, i) == items[i] # NoRow /\ (all[l] \/ items[i].available)
Sight(l) == {p \in CategoryIds \X ItemIds :
                Visible(l, p[2]) /\ items[p[2]].category = p[1]}

\* An item row is written; the histories of the listings under way follow.
WriteItemRow(i, row) ==
    /\ items' = [items EXCEPT ![i] = row]
    /\ UNCHANGED <<lpc, all, todo, shown>>
    /\ steady' = [l \in Listers |-> steady[l] \cap Sight(l)']
    /\ ever' = [l \in Listers |->
                   IF lpc[l] = "idle" THEN {} ELSE ever[l] \cup Sight(l)']

-----------------------------------------------------------------------------
(* Categories                                                              *)

CreateCategory(e) ==
    /\ pc[e] = "idle"
    /\ \E c \in CategoryIds \ drawn, row \in CategoryRow :
          /\ NameFree(c, row.name)
          /\ categories' = [categories EXCEPT ![c] = row]
          /\ drawn' = drawn \cup {c}
    /\ UNCHANGED <<items, pc, task, listVars>>

\* UpdateCategory reads the row (404 if there is none) ...
ReadCategory(e) ==
    /\ pc[e] = "idle"
    /\ \E c \in CategoryIds, patch \in CategoryPatches :
          /\ DOMAIN patch # {}
          /\ categories[c] # NoRow
          /\ task' = [task EXCEPT ![e] =
                         Task(c, patch, Overlay(categories[c], patch))]
    /\ Goto(e, "updateCategory")
    /\ UNCHANGED <<tables, listVars>>

\* ... and writes every column back: 409 if the name is taken, no row is
\* touched if it has been deleted meanwhile (answered 200 all the same).
UpdateCategory(e) ==
    /\ pc[e] = "updateCategory"
    /\ LET c == task[e].id IN
       categories' = IF NameFree(c, task[e].row.name) /\ CategoryExists(c)
                     THEN [categories EXCEPT ![c] = task[e].row]
                     ELSE categories
    /\ Return(e)
    /\ UNCHANGED <<items, drawn, listVars>>

\* ON DELETE RESTRICT: 500 while items refer to it.
DeleteCategory(e) ==
    /\ pc[e] = "idle"
    /\ \E c \in CategoryIds :
          /\ CategoryExists(c) /\ ~Referenced(c)
          /\ categories' = [categories EXCEPT ![c] = NoRow]
    /\ UNCHANGED <<items, drawn, pc, task, listVars>>

-----------------------------------------------------------------------------
(* Items                                                                   *)

\* CreateItem first looks the category up (400 if there is none).  The body's
\* price is bound with gte=0.
FindCategory(e) ==
    /\ pc[e] = "idle"
    /\ \E row \in ItemRow :
          /\ row.price >= 0
          /\ CategoryExists(row.category)
          /\ task' = [task EXCEPT ![e] = Task(NoRow, row, row)]
    /\ Goto(e, "insertItem")
    /\ UNCHANGED <<tables, listVars>>

\* Then it inserts; the foreign key refuses a category deleted meanwhile
\* (500).  The row is read back for the answer, which changes nothing.
InsertItem(e) ==
    /\ pc[e] = "insertItem"
    /\ IF CategoryExists(task[e].row.category)
       THEN \E i \in ItemIds \ drawn :
               /\ WriteItemRow(i, task[e].row)
               /\ drawn' = drawn \cup {i}
       ELSE UNCHANGED <<items, drawn, listVars>>
    /\ Return(e)
    /\ UNCHANGED categories

\* UpdateItem reads the row (404 if there is none) and overlays the patch,
\* whose price nothing checks ...
ReadItem(e) ==
    /\ pc[e] = "idle"
    /\ \E i \in ItemIds, patch \in ItemPatches :
          /\ items[i] # NoRow
          /\ task' = [task EXCEPT ![e] =
                         Task(i, patch, Overlay(items[i], patch))]
          /\ Goto(e, IF "category" \in DOMAIN patch
                     THEN "checkCategory" ELSE "updateItem")
    /\ UNCHANGED <<tables, listVars>>

\* ... looks a new category up (400 if there is none) ...
CheckCategory(e) ==
    /\ pc[e] = "checkCategory"
    /\ IF CategoryExists(task[e].row.category)
       THEN Goto(e, "updateItem") /\ UNCHANGED task
       ELSE Return(e)
    /\ UNCHANGED <<tables, listVars>>

\* Mutant: INSERT ... ON DUPLICATE KEY UPDATE.
Upserted(i) == TRUE
\* The row that UPDATE ... WHERE id = ? finds.
Matched(i) == items[i] # NoRow

\* ... and writes every column back.  A row deleted meanwhile stays deleted
\* (answered 200 all the same); the foreign key is checked again (500).
UpdateItem(e) ==
    /\ pc[e] = "updateItem"
    /\ LET i == task[e].id  row == task[e].row IN
       IF Matched(i) /\ CategoryExists(row.category)
       THEN WriteItemRow(i, row)
       ELSE UNCHANGED <<items, listVars>>
    /\ Return(e)
    /\ UNCHANGED <<categories, drawn>>

DeleteItem(e) ==
    /\ pc[e] = "idle"
    /\ \E i \in ItemIds :
          /\ items[i] # NoRow
          /\ WriteItemRow(i, NoRow)
    /\ UNCHANGED <<categories, drawn, pc, task>>

\* A statement fails, with nothing written: 500.
Fail(e) ==
    /\ pc[e] # "idle"
    /\ Return(e)
    /\ UNCHANGED <<tables, listVars>>

\* 404, or 400 for a category that does not exist, by the first statement.
NotFound(e) ==
    /\ pc[e] = "idle"
    /\ \/ \E i \in ItemIds : items[i] = NoRow
       \/ \E c \in CategoryIds : categories[c] = NoRow
    /\ UNCHANGED vars

-----------------------------------------------------------------------------
(* GET /api/menu: ListMenu, one SELECT for the categories and one for the  *)
(* items of each, in any order (sort_order decides it, nothing here does). *)

ListCategories(l) ==
    /\ lpc[l] = "idle"
    /\ lpc' = [lpc EXCEPT ![l] = "listing"]
    /\ \E b \in BOOLEAN : all' = [all EXCEPT ![l] = b]
    /\ todo' = [todo EXCEPT ![l] = {c \in CategoryIds : CategoryExists(c)}]
    /\ UNCHANGED <<tables, pc, task, shown>>
    /\ steady' = [steady EXCEPT ![l] = Sight(l)']
    /\ ever' = [ever EXCEPT ![l] = Sight(l)']

\* Mutant: includeUnavailable is ignored.
ItemsOfAnyState(l, c) ==
    {i \in ItemIds : items[i] # NoRow /\ items[i].category = c}
ItemsOf(l, c) ==
    {i \in ItemIds :
        /\ items[i] # NoRow
        /\ items[i].category = c
        /\ all[l] \/ items[i].available}

ListItemsByCategory(l) ==
    /\ lpc[l] = "listing"
    /\ \E c \in todo[l] :
          /\ todo' = [todo EXCEPT ![l] = @ \ {c}]
          /\ shown' = [shown EXCEPT ![l] =
                           @ \cup {<<c, i>> : i \in ItemsOf(l, c)}]
    /\ UNCHANGED <<tables, pc, task, lpc, all, history>>

\* Answered; or a SELECT failed and 500 is answered instead.
EndListing(l) ==
    /\ lpc[l] = "listing"
    /\ lpc' = [lpc EXCEPT ![l] = "idle"]
    /\ all' = [all EXCEPT ![l] = FALSE]
    /\ todo' = [todo EXCEPT ![l] = {}]
    /\ shown' = [shown EXCEPT ![l] = {}]
    /\ steady' = [steady EXCEPT ![l] = {}]
    /\ ever' = [ever EXCEPT ![l] = {}]
    /\ UNCHANGED <<tables, pc, task>>

-----------------------------------------------------------------------------
Edit(e) ==
    \/ CreateCategory(e) \/ ReadCategory(e) \/ UpdateCategory(e)
    \/ DeleteCategory(e)
    \/ FindCategory(e) \/ InsertItem(e)
    \/ ReadItem(e) \/ CheckCategory(e) \/ UpdateItem(e) \/ DeleteItem(e)
    \/ Fail(e) \/ NotFound(e)

List(l) == ListCategories(l) \/ ListItemsByCategory(l) \/ EndListing(l)

Next == (\E e \in Editors : Edit(e)) \/ (\E l \in Listers : List(l))

Spec == Init /\ [][Next]_vars

-----------------------------------------------------------------------------
TablesTyped ==
    /\ categories \in [CategoryIds -> CategoryRow \cup {NoRow}]
    /\ items \in [ItemIds -> ItemRow \cup {NoRow}]
    /\ drawn \subseteq CategoryIds \cup ItemIds
EditorsTyped ==
    /\ pc \in [Editors -> {"idle", "updateCategory", "insertItem",
                           "checkCategory", "updateItem"}]
    /\ task = [e \in Editors |-> task[e]]
    /\ \A e \in Editors :
          /\ pc[e] = "idle" => task[e] = NoTask
          /\ pc[e] = "updateCategory" =>
                task[e].id \in CategoryIds /\ task[e].row \in CategoryRow
          /\ pc[e] = "insertItem" => task[e].row \in ItemRow
          /\ pc[e] \in {"checkCategory", "updateItem"} =>
                task[e].id \in ItemIds /\ task[e].row \in ItemRow
ListersTyped ==
    /\ lpc \in [Listers -> {"idle", "listing"}]
    /\ all \in [Listers -> BOOLEAN]
    /\ todo \in [Listers -> SUBSET CategoryIds]
    /\ shown \in [Listers -> SUBSET (CategoryIds \X ItemIds)]
    /\ steady \in [Listers -> SUBSET (CategoryIds \X ItemIds)]
    /\ ever \in [Listers -> SUBSET (CategoryIds \X ItemIds)]
TypeOK == TablesTyped /\ EditorsTyped /\ ListersTyped

\* fk_menu_items_category: no interleaving of a category's deletion with the
\* look-ups and writes of item requests leaves an item without its category.
ForeignKeys == \A i \in ItemIds :
    items[i] # NoRow => CategoryExists(items[i].category)

\* A deleted row never comes back, though an UPDATE that read it before the
\* deletion may still be under way.
DeletedStaysDeleted ==
    [][/\ \A i \in drawn \cap ItemIds : items[i] = NoRow => items'[i] = NoRow
       /\ \A c \in drawn \cap CategoryIds :
             categories[c] = NoRow => categories'[c] = NoRow]_vars

\* ListMenu reads the categories first and then the items of one category at
\* a time, while editors create, patch, move and delete them.  An item that
\* all the while stayed where it was and could be seen is listed there,
\* whatever else was written to it or to others; and an item is listed where
\* it was at some moment since the request came, seen by those who may.
ListingFaithful == \A l \in Listers : lpc[l] = "listing" =>
    /\ \A p \in steady[l] : p[1] \notin todo[l] => p \in shown[l]
    /\ shown[l] \subseteq ever[l]

\* "UpdateItem patches a menu item": the columns the body does not name keep
\* their values.
PatchKeepsTheRest ==
    [][\A e \in Editors : pc[e] = "updateItem" /\ pc'[e] = "idle" =>
          LET i == task[e].id IN
          items[i] # NoRow =>
              \A f \in DOMAIN items[i] \ DOMAIN task[e].patch :
                  items'[i][f] = items[i][f]]_vars

-----------------------------------------------------------------------------
(* The inductive invariant that carries ForeignKeys and ListingFaithful.   *)

\* An idle lister keeps nothing of an earlier request.
ListersReset == \A l \in Listers : lpc[l] = "idle" =>
    shown[l] = {} /\ steady[l] = {} /\ ever[l] = {}

\* What could be seen all the time can be now, and that, at some moment.
HistoriesHold == \A l \in Listers : lpc[l] = "listing" =>
    steady[l] \subseteq Sight(l) /\ Sight(l) \subseteq ever[l]

\* Inductive: no statement of any request leads out of it.
MenuInv ==
    TypeOK /\ ForeignKeys /\ ListersReset /\ HistoriesHold /\ ListingFaithful
=============================================================================
