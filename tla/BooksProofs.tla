---------------------------- MODULE BooksProofs ----------------------------
(***************************************************************************)
(* What the accounts and categories screens show on any number of devices, *)
(* however many things their users do and in whatever order each hears of  *)
(* what the others did.                                                    *)
(***************************************************************************)
EXTENDS Books, LoopProofs

----------------------------------------------------------------------------
\* The accounts screen, whatever accounts and groups a device has heard of.

LEMMA SectionAccounts ==
    ASSUME NEW groupId, NEW type, NEW members, NEW txns, NEW reporting, NEW rates
    PROVE  sectionFor(groupId, type, members, txns, reporting, rates).accounts = members
BY DEF sectionFor

\* Each account in use is in the section of its group, or in the one without a group.
LEMMA SectionsOnce ==
    ASSUME NEW accounts, NEW groups, NEW txns, NEW reporting, NEW rates
    PROVE  OnceEach({s.accounts : s \in buildSections(accounts, groups, txns, reporting, rates)}, accounts)
<1> DEFINE Members(g) == {a \in accounts : a.groupId = g.id}
           loose == ungrouped(accounts, groups)
           Grouped(s) == \E g \in groups : /\ Members(g) # {}
                                           /\ s = sectionFor(g.id, g.type, Members(g), txns, reporting, rates)
           Loose(s) == loose # {} /\ s = sectionFor(Null, "default", loose, txns, reporting, rates)
           sections == buildSections(accounts, groups, txns, reporting, rates)
           parts == {s.accounts : s \in sections}
<1>1. \A s : s \in sections <=> Grouped(s) \/ Loose(s)
  BY DEF buildSections
<1> HIDE DEF sections
<1>2. \A P : P \in parts <=> \/ \E g \in groups : Members(g) # {} /\ P = Members(g)
                             \/ loose # {} /\ P = loose
  <2>1. ASSUME NEW P \in parts
        PROVE  (\E g \in groups : Members(g) # {} /\ P = Members(g)) \/ (loose # {} /\ P = loose)
    <3>1. PICK s \in sections : P = s.accounts
      BY <2>1
    <3>2. CASE Grouped(s)
      BY <3>1, <3>2, SectionAccounts
    <3>3. CASE Loose(s)
      BY <3>1, <3>3, SectionAccounts
    <3> QED
      BY <1>1, <3>2, <3>3
  <2>2. ASSUME NEW g \in groups, Members(g) # {} PROVE Members(g) \in parts
    <3> DEFINE s == sectionFor(g.id, g.type, Members(g), txns, reporting, rates)
    <3>1. s.accounts = Members(g)
      BY SectionAccounts
    <3>2. Grouped(s)
      BY <2>2
    <3> HIDE DEF s, Grouped
    <3>3. s \in sections
      BY <1>1, <3>2
    <3> HIDE DEF Members
    <3> QED
      BY <3>1, <3>3
  <2>3. ASSUME loose # {} PROVE loose \in parts
    <3> DEFINE s == sectionFor(Null, "default", loose, txns, reporting, rates)
    <3>1. s \in sections /\ s.accounts = loose
      BY <1>1, <2>3, SectionAccounts
    <3> HIDE DEF s
    <3> QED
      BY <3>1
  <2> QED
    BY <2>1, <2>2, <2>3
<1>3. \A a : a \in loose <=> a \in accounts /\ ~\E g \in groups : a \in Members(g)
  BY DEF ungrouped, GroupOf
<1>4. \A g, h \in groups : Members(g) \cap Members(h) # {} => Members(g) = Members(h)
  OBVIOUS
<1>5. \A g \in groups : Members(g) \in SUBSET accounts
  OBVIOUS
<1> HIDE DEF parts, Members, loose
<1>6. UNION parts = accounts
  BY <1>2, <1>3, <1>5
<1>7. ASSUME NEW P \in parts, NEW Q \in parts, P # Q PROVE P \cap Q = {}
  <2>1. CASE (\E g \in groups : P = Members(g)) /\ (\E g \in groups : Q = Members(g))
    BY <1>4, <1>7, <2>1
  <2>2. CASE P = loose \/ Q = loose
    BY <1>2, <1>3, <1>7, <2>2
  <2> QED
    BY <1>2, <2>1, <2>2
<1> QED
  BY <1>6, <1>7 DEF OnceEach, parts, sections

----------------------------------------------------------------------------
\* The categories screen.

\* Each category is under its parent, or at the top when it has none or one that is not
\* there, archived or a subcategory itself.
LEMMA TreeOnce ==
    ASSUME NEW categories,
           \A c \in categories : c.kind = "expense" /\ c.id # Null,
           \A b, c \in categories : b.id = c.id => b = c
    PROVE  OnceEach({{node.category} \cup node.children : node \in buildTree(categories, "expense")},
                    categories)
<1> DEFINE roots == {r \in categories : IsRoot(r, categories)}
           Under(c) == {s \in categories : ~IsRoot(s, categories) /\ s.parentId = c.id}
           tree == {[category |-> c, children |-> Under(c)] : c \in roots}
           parts == {{node.category} \cup node.children : node \in tree}
<1>1. buildTree(categories, "expense") = tree
  <2> DEFINE scope == {c \in categories : c.kind = "expense"}
             Tree(S) == {[category |-> c, children |-> {s \in S : ~IsRoot(s, S) /\ s.parentId = c.id}] :
                            c \in {r \in S : IsRoot(r, S)}}
  <2>1. scope = categories
    OBVIOUS
  <2>2. buildTree(categories, "expense") = Tree(scope)
    BY DEF buildTree
  <2>3. Tree(categories) = tree
    OBVIOUS
  <2> HIDE DEF scope, Tree, tree
  <2> QED
    BY <2>1, <2>2, <2>3
<1>2. \A P : P \in parts <=> \E c \in roots : P = {c} \cup Under(c)
  <2> DEFINE Node(c) == [category |-> c, children |-> Under(c)]
  <2>1. \A c : Node(c).category = c /\ Node(c).children = Under(c)
    OBVIOUS
  <2>2. \A n : n \in tree <=> \E c \in roots : n = Node(c)
    OBVIOUS
  <2> HIDE DEF Node, tree, roots, Under
  <2>3. \A P : P \in parts <=> \E n \in tree : P = {n.category} \cup n.children
    OBVIOUS
  <2> HIDE DEF parts
  <2> QED
    BY <2>1, <2>2, <2>3
<1>3. \A s \in categories : ~IsRoot(s, categories) => \E c \in roots : s \in Under(c)
  <2> SUFFICES ASSUME NEW s \in categories, ~IsRoot(s, categories)
               PROVE  \E c \in roots : s \in Under(c)
    OBVIOUS
  <2>1. PICK p \in categories : p.id = s.parentId /\ p.parentId = Null
    BY DEF IsRoot
  <2>2. IsRoot(p, categories)
    BY <2>1 DEF IsRoot
  <2> QED
    BY <2>1, <2>2
<1>4. \A b, c \in roots : b # c => ({b} \cup Under(b)) \cap ({c} \cup Under(c)) = {}
  OBVIOUS
<1>5. roots \in SUBSET categories /\ \A c \in roots : Under(c) \in SUBSET categories
  OBVIOUS
<1>6. \A c \in categories : IsRoot(c, categories) => c \in roots
  OBVIOUS
<1> HIDE DEF parts, roots, Under
<1>7. UNION parts = categories
  <2>1. ASSUME NEW P \in parts PROVE P \in SUBSET categories
    BY <1>2, <1>5
  <2>2. ASSUME NEW c \in categories PROVE \E P \in parts : c \in P
    <3>1. CASE IsRoot(c, categories)
      <4>1. {c} \cup Under(c) \in parts
        BY <1>2, <1>6, <3>1
      <4> QED
        BY <4>1
    <3>2. CASE ~IsRoot(c, categories)
      <4>1. PICK r \in roots : c \in Under(r)
        BY <1>3, <3>2
      <4>2. {r} \cup Under(r) \in parts
        BY <1>2
      <4> QED
        BY <4>1, <4>2
    <3> QED
      BY <3>1, <3>2
  <2> QED
    BY <2>1, <2>2
<1>8. ASSUME NEW P \in parts, NEW Q \in parts, P # Q PROVE P \cap Q = {}
  BY <1>2, <1>4, <1>8
<1> QED
  BY <1>1, <1>7, <1>8 DEF OnceEach, parts

----------------------------------------------------------------------------
\* The invariant: what the users of the categories screens write.

CategoryRow ==
    [id : Nat, parentId : Nat \cup {Null}, name : {Null}, kind : {"expense"}, archived : BOOLEAN]
BudgetRow ==
    [id : Nat, categoryIds : SUBSET Nat, amount : Nat, archived : BOOLEAN]

\* A write deletes a row, or puts a whole one where it belongs.
Entities == {"categories", "budgets"}
Sound(w) ==
    w.value # Null => /\ w.value.id = w.id
                      /\ w.entity = "categories" => w.value \in CategoryRow
                      /\ w.entity = "budgets" => w.value \in BudgetRow
Values == CategoryRow \cup BudgetRow \cup {Null}
Writes ==
    {w \in [entity : Entities, id : Nat, value : Values, check : {"none"}, basis : {0}] : Sound(w)}
Operations ==
    {o \in [entity : Entities, id : Nat, value : Values, stamp : Nat, by : Devices \cup {Null}, basis : {0}] :
        Sound(o)}

\* A device has at most one operation on a row.
OnePerRow(ops) == \A o, p \in ops : o.entity = p.entity /\ o.id = p.id => o = p

CategoriesInv ==
    /\ moves \in Nat /\ tick \in Nat
    /\ oplog \in [Devices -> SUBSET Operations]
    /\ \A d \in Devices : OnePerRow(oplog[d]) /\ IsFiniteSet(oplog[d])
    /\ todo \in [Devices -> [{"ui", "run"} -> Seq(Writes)]]
    /\ form \in [Devices -> [entity : {"categories"}, row : CategoryRow] \cup {Null}]


\* What the tables hold.
LEMMA Tables ==
    ASSUME CategoriesInv, NEW d \in Devices
    PROVE  /\ Table(d, "categories") \in SUBSET CategoryRow
           /\ Table(d, "budgets") \in SUBSET BudgetRow
           /\ IsFiniteSet(Table(d, "categories"))
           /\ \A b, c \in Table(d, "categories") : b.id = c.id => b = c
<1>1. oplog[d] \in SUBSET Operations /\ OnePerRow(oplog[d]) /\ IsFiniteSet(oplog[d])
  BY DEF CategoriesInv
<1>2. ASSUME NEW entity, NEW v \in Table(d, entity)
      PROVE  \E o \in oplog[d] : o.entity = entity /\ o.value = v /\ v # Null
  BY DEF Table
<1>3. \A o \in oplog[d] : Sound(o)
  BY <1>1 DEF Operations
<1>4. Table(d, "categories") \in SUBSET CategoryRow /\ Table(d, "budgets") \in SUBSET BudgetRow
  BY <1>2, <1>3 DEF Sound
<1>5. ASSUME NEW b \in Table(d, "categories"), NEW c \in Table(d, "categories"), b.id = c.id
      PROVE  b = c
  <2>1. PICK o \in oplog[d] : o.entity = "categories" /\ o.value = b /\ b # Null
    BY <1>2
  <2>2. PICK p \in oplog[d] : p.entity = "categories" /\ p.value = c /\ c # Null
    BY <1>2
  <2>3. o.id = b.id /\ p.id = c.id
    BY <1>3, <2>1, <2>2 DEF Sound
  <2> QED
    BY <1>1, <1>5, <2>1, <2>2, <2>3 DEF OnePerRow
<1>6. IsFiniteSet(Table(d, "categories"))
  <2> DEFINE ops == {p \in oplog[d] : p.entity = "categories"}
             values == {o.value : o \in ops}
  <2>1. IsFiniteSet(ops)
    BY <1>1, FS_Subset
  <2>2. IsFiniteSet(values)
    <3> DEFINE f == [o \in ops |-> o.value]
    <3> HIDE DEF ops
    <3>1. f \in Surjection(ops, values)
      BY DEF Surjection
    <3> QED
      BY <2>1, <3>1, FS_Surjection
  <2>3. Table(d, "categories") \in SUBSET values
    BY DEF Table
  <2> HIDE DEF values
  <2> QED
    BY <2>2, <2>3, FS_Subset
<1> QED
  BY <1>4, <1>5, <1>6

----------------------------------------------------------------------------
\* The writes the handlers ask for.

LEMMA CategoryPut ==
    ASSUME NEW row \in CategoryRow
    PROVE  Put("categories", row) \in Writes
<1>1. row.id \in Nat
  BY DEF CategoryRow
<1> QED
  BY <1>1 DEF Put, Writes, Sound, Values, Entities

LEMMA BudgetPut ==
    ASSUME NEW row \in BudgetRow
    PROVE  Put("budgets", row) \in Writes
<1>1. row.id \in Nat
  BY DEF BudgetRow
<1> QED
  BY <1>1 DEF Put, Writes, Sound, Values, Entities

LEMMA RowDrop ==
    ASSUME NEW entity \in Entities, NEW id \in Nat
    PROVE  Drop(entity, id) \in Writes
BY DEF Drop, Writes, Sound, Values

LEMMA OneWrite ==
    ASSUME NEW w \in Writes
    PROVE  <<w>> \in Seq(Writes)
OBVIOUS

\* A handler that begins.
LEMMA HandleKeeps ==
    ASSUME CategoriesInv, NEW d \in Devices, NEW on, NEW steps \in Seq(Writes), Handle(d, on, steps)
    PROVE  CategoriesInv'
<1>1. todo' \in [Devices -> [{"ui", "run"} -> Seq(Writes)]]
  BY DEF CategoriesInv, Handle, Begin
<1>2. moves' \in Nat
  BY DEF CategoriesInv, Handle, Move
<1> QED
  BY <1>1, <1>2 DEF CategoriesInv, Handle

LEMMA SaveKeeps ==
    ASSUME CategoriesInv, NEW d \in Devices, NEW steps \in Seq(Writes), Save(d, steps)
    PROVE  CategoriesInv'
<1>1. todo' \in [Devices -> [{"ui", "run"} -> Seq(Writes)]]
  BY DEF CategoriesInv, Save, Begin
<1>2. form' \in [Devices -> [entity : {"categories"}, row : CategoryRow] \cup {Null}]
  BY DEF CategoriesInv, Save
<1> QED
  BY <1>1, <1>2 DEF CategoriesInv, Save

LEMMA EditKeeps ==
    ASSUME CategoriesInv, NEW d \in Devices, EditCategory(d)
    PROVE  CategoriesInv'
<1>1. PICK row \in Table(d, "categories") :
            form' = [form EXCEPT ![d] = [entity |-> "categories", row |-> row]]
  BY DEF EditCategory, Edit
<1>2. row \in CategoryRow
  BY Tables
<1>3. form' \in [Devices -> [entity : {"categories"}, row : CategoryRow] \cup {Null}]
  BY <1>1, <1>2 DEF CategoriesInv
<1>4. moves' \in Nat
  BY DEF CategoriesInv, EditCategory, Edit, Move
<1> QED
  BY <1>3, <1>4 DEF CategoriesInv, EditCategory, Edit

\* Each handler of the categories screens.
LEMMA ScreensKeep ==
    ASSUME CategoriesInv, NEW d \in Devices, CategoriesScreens(d)
    PROVE  CategoriesInv'
<1> DEFINE table == Table(d, "categories")
           budgets == Table(d, "budgets")
<1>1. /\ table \in SUBSET CategoryRow /\ IsFiniteSet(table)
      /\ budgets \in SUBSET BudgetRow
  BY Tables
<1> HIDE DEF table, budgets
<1>2. CASE SaveCategory(d)
  <2>1. PICK parentId \in {Null} \cup {c.id : c \in {k \in table : k.parentId = Null}} :
            Handle(d, "categories", <<Put("categories", Category0(Fresh(0), parentId))>>)
    BY <1>2 DEF SaveCategory, table
  <2>2. Fresh(0) \in Nat /\ parentId \in Nat \cup {Null}
    BY <1>1 DEF CategoriesInv, Fresh, CategoryRow
  <2>3. Category0(Fresh(0), parentId) \in CategoryRow
    BY <2>2 DEF Category0, CategoryRow
  <2> QED
    BY <2>1, <2>3, CategoryPut, OneWrite, HandleKeeps
<1>3. CASE EditCategory(d)
  BY <1>3, EditKeeps
<1>4. CASE SaveEditedCategory(d)
  <2>1. PICK archived \in BOOLEAN :
            Save(d, <<Put("categories", [form[d].row EXCEPT !.archived = archived])>>)
    BY <1>4 DEF SaveEditedCategory
  <2>2. form[d].row \in CategoryRow
    BY <1>4 DEF CategoriesInv, SaveEditedCategory, Opened
  <2>3. [form[d].row EXCEPT !.archived = archived] \in CategoryRow
    BY <2>2 DEF CategoryRow
  <2> QED
    BY <2>1, <2>3, CategoryPut, OneWrite, SaveKeeps
<1>5. CASE removeCategory(d)
  <2>1. PICK c \in table : \E children \in SetToSeqs(descendantIds(c.id, table)) :
            Handle(d, "categories", [i \in DOMAIN children |-> Drop("categories", children[i])]
                                        \o <<Drop("categories", c.id)>>)
    BY <1>5 DEF removeCategory, table
  <2>2. PICK children \in SetToSeqs(descendantIds(c.id, table)) :
            Handle(d, "categories", [i \in DOMAIN children |-> Drop("categories", children[i])]
                                        \o <<Drop("categories", c.id)>>)
    BY <2>1
  <2> DEFINE ids == descendantIds(c.id, table)
             under == {k \in table : k.parentId = c.id}
             f == [k \in under |-> k.id]
  <2>3. ids \in SUBSET Nat /\ c.id \in Nat
    BY <1>1 DEF descendantIds, CategoryRow
  <2>4. f \in Surjection(under, ids)
    BY DEF Surjection, descendantIds
  <2>5. Cardinality(ids) \in Nat
    <3>1. IsFiniteSet(under)
      BY <1>1, FS_Subset
    <3> HIDE DEF under, f, ids
    <3> QED
      BY <2>4, <3>1, FS_Surjection, FS_CardinalityType
  <2>6. children \in Seq(Nat)
    BY <2>3, <2>5 DEF SetToSeqs
  <2>7. [i \in DOMAIN children |-> Drop("categories", children[i])] \in Seq(Writes)
    <3>1. \A i \in DOMAIN children : Drop("categories", children[i]) \in Writes
      BY <2>6, RowDrop DEF Entities
    <3> QED
      BY <2>6, <3>1
  <2>8. <<Drop("categories", c.id)>> \in Seq(Writes)
    BY <2>3, RowDrop, OneWrite DEF Entities
  <2> DEFINE first == [i \in DOMAIN children |-> Drop("categories", children[i])]
             last == <<Drop("categories", c.id)>>
  <2>9. Handle(d, "categories", first \o last)
    BY <2>2
  <2> HIDE DEF first, last
  <2>10. first \o last \in Seq(Writes)
    BY <2>7, <2>8 DEF first, last
  <2> QED
    BY <2>9, <2>10, HandleKeeps
<1>6. CASE SaveBudget(d)
  <2>1. PICK chosen \in SUBSET IdsOf(table) :
            /\ ValidBudget([Budget0(1) EXCEPT !.categoryIds = chosen])
            /\ Handle(d, "categories", <<Put("budgets", [Budget0(1) EXCEPT !.categoryIds = chosen])>>)
    BY <1>6 DEF SaveBudget, table
  <2>2. chosen \in SUBSET Nat
    BY <1>1 DEF IdsOf, CategoryRow
  <2>3. [Budget0(1) EXCEPT !.categoryIds = chosen] \in BudgetRow
    BY <2>1, <2>2 DEF Budget0, BudgetRow
  <2> QED
    BY <2>1, <2>3, BudgetPut, OneWrite, HandleKeeps
<1>7. CASE pruneStaleCategories(d)
  <2>1. PICK b \in budgets : LET kept == b.categoryIds \ staleCategoryIds(b, table) IN
            /\ kept # {}
            /\ Handle(d, "categories", <<Put("budgets", [b EXCEPT !.categoryIds = kept])>>)
    BY <1>7 DEF pruneStaleCategories, table, budgets
  <2> DEFINE kept == b.categoryIds \ staleCategoryIds(b, table)
  <2>2. [b EXCEPT !.categoryIds = kept] \in BudgetRow
    <3>1. b \in BudgetRow /\ kept \in SUBSET b.categoryIds /\ kept # {}
      BY <1>1, <2>1
    <3> HIDE DEF kept
    <3> QED
      BY <3>1 DEF BudgetRow
  <2> QED
    BY <2>1, <2>2, BudgetPut, OneWrite, HandleKeeps
<1>8. CASE setBudgetArchived(d)
  <2>1. PICK b \in budgets :
            Handle(d, "categories", <<Put("budgets", [b EXCEPT !.archived = ~@])>>)
    BY <1>8 DEF setBudgetArchived, budgets
  <2>2. [b EXCEPT !.archived = ~@] \in BudgetRow
    BY <1>1 DEF BudgetRow
  <2> QED
    BY <2>1, <2>2, BudgetPut, OneWrite, HandleKeeps
<1>9. CASE removeBudget(d)
  <2>1. PICK b \in budgets : Handle(d, "categories", <<Drop("budgets", b.id)>>)
    BY <1>9 DEF removeBudget, budgets
  <2>2. b.id \in Nat
    BY <1>1 DEF BudgetRow
  <2> QED
    BY <2>1, <2>2, RowDrop, OneWrite, HandleKeeps DEF Entities
<1> QED
  BY <1>2, <1>3, <1>4, <1>5, <1>6, <1>7, <1>8, <1>9 DEF CategoriesScreens

\* A write replaces the operation the device has on its row.
LEMMA WriteKeeps ==
    ASSUME CategoriesInv, NEW d \in Devices, Write(d)
    PROVE  CategoriesInv'
<1>1. PICK slot \in {"ui", "run"} :
        /\ todo[d][slot] # <<>>
        /\ LET step == Head(todo[d][slot])
               op == [entity |-> step.entity, id |-> step.id, value |-> step.value,
                      stamp |-> NextStamp, by |-> d, basis |-> step.basis]
           IN  oplog' = [oplog EXCEPT ![d] = {o \in @ : ~Covered(o, {op})} \cup {op}]
        /\ tick' = NextStamp
        /\ todo' = [todo EXCEPT ![d][slot] = Tail(@)]
        /\ UNCHANGED <<form, moves>>
  BY DEF Write
<1> DEFINE step == Head(todo[d][slot])
           op == [entity |-> step.entity, id |-> step.id, value |-> step.value,
                  stamp |-> NextStamp, by |-> d, basis |-> step.basis]
           old == {o \in oplog[d] : ~Covered(o, {op})}
<1>2. todo[d][slot] \in Seq(Writes)
  BY DEF CategoriesInv
<1>3. step \in Writes /\ Tail(todo[d][slot]) \in Seq(Writes)
  BY <1>1, <1>2
<1>4. NextStamp \in Nat
  BY DEF CategoriesInv, NextStamp
<1> HIDE DEF step
<1>5. op \in Operations
  BY <1>3, <1>4 DEF Writes, Operations, Sound
<1>6. oplog' = [oplog EXCEPT ![d] = old \cup {op}]
  BY <1>1 DEF step
<1>7. \A o \in old : o \in oplog[d] /\ ~(op.entity = o.entity /\ op.id = o.id)
  BY DEF Covered
<1> HIDE DEF op, old
<1>8. oplog[d] \in SUBSET Operations /\ OnePerRow(oplog[d]) /\ IsFiniteSet(oplog[d])
  BY DEF CategoriesInv
<1>9. old \cup {op} \in SUBSET Operations /\ OnePerRow(old \cup {op})
  BY <1>5, <1>7, <1>8 DEF OnePerRow
<1>10. IsFiniteSet(old \cup {op})
  <2>1. old \in SUBSET oplog[d]
    BY <1>7
  <2>2. IsFiniteSet(old)
    BY <1>8, <2>1, FS_Subset
  <2> QED
    BY <2>2, FS_AddElement
<1>11. oplog' \in [Devices -> SUBSET Operations]
  BY <1>6, <1>9 DEF CategoriesInv
<1>12. ASSUME NEW e \in Devices PROVE OnePerRow(oplog'[e]) /\ IsFiniteSet(oplog'[e])
  BY <1>6, <1>9, <1>10 DEF CategoriesInv
<1>13. todo' \in [Devices -> [{"ui", "run"} -> Seq(Writes)]]
  BY <1>1, <1>3 DEF CategoriesInv
<1> QED
  BY <1>1, <1>4, <1>11, <1>12, <1>13 DEF CategoriesInv

\* What a sync brings replaces the operations the device has on the same rows.
LEMMA DeliverKeeps ==
    ASSUME CategoriesInv, NEW d \in Devices, NEW from \in Devices, Deliver(d, from)
    PROVE  CategoriesInv'
<1> DEFINE news == {o \in oplog[from] :
                       o.by = from /\ \A p \in OpsOf(d, o.entity, o.id) : p.stamp < o.stamp}
           old == {o \in oplog[d] : ~Covered(o, news)}
<1>1. oplog' = [oplog EXCEPT ![d] = old \cup news] /\ UNCHANGED <<tick, todo, form, moves>>
  BY DEF Deliver
<1>2. news \in SUBSET oplog[from] /\ old \in SUBSET oplog[d]
  OBVIOUS
<1>3. \A o \in old, p \in news : ~(p.entity = o.entity /\ p.id = o.id)
  BY DEF Covered
<1> HIDE DEF news, old
<1>4. \A e \in Devices :
        oplog[e] \in SUBSET Operations /\ OnePerRow(oplog[e]) /\ IsFiniteSet(oplog[e])
  BY DEF CategoriesInv
<1>5. old \cup news \in SUBSET Operations /\ OnePerRow(old \cup news)
  BY <1>2, <1>3, <1>4 DEF OnePerRow
<1>6. IsFiniteSet(old \cup news)
  BY <1>2, <1>4, FS_Subset, FS_Union
<1>7. oplog' \in [Devices -> SUBSET Operations]
  BY <1>1, <1>5 DEF CategoriesInv
<1>8. ASSUME NEW e \in Devices PROVE OnePerRow(oplog'[e]) /\ IsFiniteSet(oplog'[e])
  BY <1>1, <1>5, <1>6 DEF CategoriesInv
<1> QED
  BY <1>1, <1>7, <1>8 DEF CategoriesInv

LEMMA CrashKeeps ==
    ASSUME CategoriesInv, NEW d \in Devices, Crash(d)
    PROVE  CategoriesInv'
<1>1. todo' \in [Devices -> [{"ui", "run"} -> Seq(Writes)]]
  BY DEF CategoriesInv, Crash
<1>2. form' \in [Devices -> [entity : {"categories"}, row : CategoryRow] \cup {Null}]
  BY DEF CategoriesInv, Crash
<1>3. moves' \in Nat
  BY DEF CategoriesInv, Crash, Move
<1> QED
  BY <1>1, <1>2, <1>3 DEF CategoriesInv, Crash

\* No write of these screens waits for a look at the tables.
LEMMA NothingToCheck ==
    ASSUME CategoriesInv, NEW d \in Devices
    PROVE  ~Check(d)
<1> SUFFICES ASSUME NEW slot \in {"ui", "run"}, todo[d][slot] # <<>>
             PROVE  Head(todo[d][slot]).check = "none"
  BY DEF Check
<1>1. todo[d][slot] \in Seq(Writes)
  BY DEF CategoriesInv
<1>2. Head(todo[d][slot]) \in Writes
  BY <1>1
<1> QED
  BY <1>2 DEF Writes

----------------------------------------------------------------------------
\* Importing a statement.

\* A write, or an operation, that puts a transaction in the ledger.
Enters(w) == w.entity = "transactions" /\ w.value # Null
Placed(w) == Enters(w) => w.value.id = w.id
SameKey(v, w) == Enters(v) /\ Enters(w) /\ duplicateKey(v.value) = duplicateKey(w.value)

\* The writes a device has still to make enter no key twice.
Intended(s) ==
    /\ \E W : s \in Seq(W)
    /\ \A a \in DOMAIN s : s[a].check = "none" /\ Placed(s[a])
    /\ \A a, b \in DOMAIN s : SameKey(s[a], s[b]) => a = b

\* The rows a device entered itself, and that no other has taken over.
Entered(d) == {o \in oplog[d] : o.by = d}

\* A plan has each key once, and none that the device entered.
Planned(d, ready) ==
    /\ Len(ready) \in Nat /\ DOMAIN ready = 1 .. Len(ready)
    /\ \A j, k \in DOMAIN ready : duplicateKey(ready[j]) = duplicateKey(ready[k]) => j = k
    /\ \A k \in DOMAIN ready, o \in Entered(d) :
            Enters(o) => duplicateKey(o.value) # duplicateKey(ready[k])

ImportingOn(d) ==
    /\ OnePerRow(oplog[d])
    /\ \A o \in oplog[d] : Placed(o)
    /\ todo[d]["run"] = <<>>
    /\ Intended(todo[d]["ui"])
    /\ \A o, p \in Entered(d) : SameKey(o, p) => o = p
    /\ \A o \in Entered(d), a \in DOMAIN todo[d]["ui"] : ~SameKey(o, todo[d]["ui"][a])
    /\ plan[d] # Null => todo[d]["ui"] = <<>> /\ Planned(d, plan[d].ready)

ImportInv ==
    /\ oplog = [d \in Devices |-> oplog[d]]
    /\ todo = [d \in Devices |-> [slot \in {"ui", "run"} |-> todo[d][slot]]]
    /\ plan = [d \in Devices |-> plan[d]]
    /\ \A d \in Devices : ImportingOn(d)

\* One more write, whose key no other has.
LEMMA IntendedAppend ==
    ASSUME NEW W, NEW s \in Seq(W), Intended(s), NEW w \in W, w.check = "none", Placed(w),
           \A a \in DOMAIN s : ~SameKey(s[a], w)
    PROVE  Intended(Append(s, w))
<1> DEFINE t == Append(s, w)
<1>1. /\ t \in Seq(W) /\ DOMAIN t = 1 .. Len(s) + 1 /\ Len(s) \in Nat /\ DOMAIN s = 1 .. Len(s)
      /\ \A a \in DOMAIN s : t[a] = s[a]
      /\ t[Len(s) + 1] = w
  OBVIOUS
<1> HIDE DEF t
<1>2. \A a \in DOMAIN t : a \in DOMAIN s \/ a = Len(s) + 1
  BY <1>1
<1>3. \A v : SameKey(w, v) <=> SameKey(v, w)
  BY DEF SameKey
<1>4. \A a \in DOMAIN t : t[a].check = "none" /\ Placed(t[a])
  BY <1>1, <1>2 DEF Intended
<1>5. \A a, b \in DOMAIN t : SameKey(t[a], t[b]) => a = b
  <2>1. \A a, b \in DOMAIN s : SameKey(t[a], t[b]) => a = b
    BY <1>1 DEF Intended
  <2>2. \A a \in DOMAIN s : ~SameKey(t[a], w) /\ ~SameKey(w, t[a])
    BY <1>1, <1>3
  <2> QED
    BY <1>1, <1>2, <2>1, <2>2, Zenon
<1> QED
  BY <1>1, <1>4, <1>5 DEF Intended, t

\* The handler's writes: a transaction for each row of the plan, with the row's key.
LEMMA StepsUnfold ==
    ASSUME NEW d, NEW ready, Len(ready) \in Nat, NEW W,
           \A i \in 1 .. Len(ready), s \in Seq(W) : ImportStep(d, ready, s, i) \in Seq(W)
    PROVE  LET F == importUpto(d, ready) IN
           /\ F \in [0 .. Len(ready) -> Seq(W)]
           /\ F[0] = <<>>
           /\ \A i \in 1 .. Len(ready) : F[i] = ImportStep(d, ready, F[i - 1], i)
<1> DEFINE Rounds == Len(ready)
           States == Seq(W)
           start == <<>>
           Round == [i \in 1 .. Rounds |-> [s \in States |-> ImportStep(d, ready, s, i)]]
<1>1. Rounds \in Nat /\ start \in States
  OBVIOUS
<1>2. Round \in [1 .. Rounds -> [States -> States]]
  OBVIOUS
<1>3. PICK f : /\ f \in [0 .. Rounds -> States] /\ f[0] = start
               /\ \A i \in 1 .. Rounds : f[i] = Round[i][f[i - 1]]
  <2>1. IsLoop(Round, Rounds, States, start)
    BY <1>1, <1>2 DEF IsLoop
  <2> HIDE DEF Rounds, States, start, Round
  <2>2. PICK f \in Runs(Round, Rounds, States, start) : TRUE
    BY <2>1, Iteration
  <2> QED
    BY <2>2 DEF Runs
<1>4. \A i \in 1 .. Rounds : f[i] = ImportStep(d, ready, f[i - 1], i)
  <2> SUFFICES ASSUME NEW i \in 1 .. Rounds PROVE f[i] = ImportStep(d, ready, f[i - 1], i)
    OBVIOUS
  <2>1. f[i - 1] \in States
    BY <1>3
  <2> HIDE DEF States
  <2> QED
    BY <1>3, <2>1
<1>5. f = [i \in 0 .. Rounds |-> IF i = 0 THEN <<>> ELSE ImportStep(d, ready, f[i - 1], i)]
  <2> HIDE DEF States
  <2> QED
    BY <1>3, <1>4
<1> DEFINE F == importUpto(d, ready)
<1>6. F = [i \in 0 .. Rounds |-> IF i = 0 THEN <<>> ELSE ImportStep(d, ready, F[i - 1], i)]
  BY <1>5, Zenon DEF importUpto
<1> HIDE DEF F
<1>7. F[0] = <<>> /\ \A i \in 1 .. Rounds : F[i] = ImportStep(d, ready, F[i - 1], i)
  BY <1>6
<1> DEFINE S == {j \in Nat : j <= Rounds => F[j] \in Seq(W)}
<1>8. \A i \in Nat : i \in S
  <2>1. 0 \in S
    <3>1. F[0] \in Seq(W)
      BY <1>7
    <3> QED
      BY <3>1
  <2>2. ASSUME NEW j \in Nat, j \in S PROVE j + 1 \in S
    BY <1>7, <2>2
  <2> HIDE DEF S
  <2> QED
    BY <2>1, <2>2, NatSet
<1>9. F \in [0 .. Rounds -> Seq(W)]
  BY <1>6, <1>8
<1> QED
  BY <1>7, <1>9 DEF F

LEMMA StepsIntended ==
    ASSUME NEW d, NEW ready, Len(ready) \in Nat, DOMAIN ready = 1 .. Len(ready),
           \A j, k \in DOMAIN ready : duplicateKey(ready[j]) = duplicateKey(ready[k]) => j = k
    PROVE  LET steps == ImportSteps(d, ready) IN
           /\ Intended(steps)
           /\ \A a \in DOMAIN steps : Enters(steps[a]) =>
                \E k \in DOMAIN ready : duplicateKey(steps[a].value) = duplicateKey(ready[k])
<1> DEFINE Category(i) == Put("categories",
                [Category0(Fresh(5 + i), Null) EXCEPT !.name = ready[i].categoryName,
                                                      !.kind = ready[i].kind])
           Transaction(i) == Put("transactions",
                Txn0(Fresh(i), ready[i].date, ready[i].amount, ready[i].payee))
           W == {Category(i) : i \in 1 .. Len(ready)} \cup {Transaction(i) : i \in 1 .. Len(ready)}
           F == importUpto(d, ready)
           From(s, n) == \A a \in DOMAIN s : Enters(s[a]) =>
                \E k \in 1 .. n : duplicateKey(s[a].value) = duplicateKey(ready[k])
           S == {n \in Nat : n <= Len(ready) => Intended(F[n]) /\ From(F[n], n)}
<1>1. ASSUME NEW i \in 1 .. Len(ready), NEW s
      PROVE  \/ ImportStep(d, ready, s, i) = Append(s, Transaction(i))
             \/ ImportStep(d, ready, s, i) = Append(Append(s, Category(i)), Transaction(i))
  BY DEF ImportStep
<1>2. \A i \in 1 .. Len(ready) : Category(i) \in W /\ Transaction(i) \in W
  OBVIOUS
<1>3. \A i : Category(i).check = "none" /\ ~Enters(Category(i))
  BY DEF Put, Enters
<1>4. \A i : /\ Transaction(i).check = "none" /\ Placed(Transaction(i))
             /\ duplicateKey(Transaction(i).value) = duplicateKey(ready[i])
  BY DEF Put, Txn0, Placed, duplicateKey
<1> HIDE DEF Category, Transaction, W
<1>5. ASSUME NEW i \in 1 .. Len(ready), NEW s \in Seq(W) PROVE ImportStep(d, ready, s, i) \in Seq(W)
  <2>1. /\ Append(s, Transaction(i)) \in Seq(W)
        /\ Append(Append(s, Category(i)), Transaction(i)) \in Seq(W)
    BY <1>2
  <2> QED
    BY <1>1, <2>1
<1>6. /\ F \in [0 .. Len(ready) -> Seq(W)]
      /\ F[0] = <<>>
      /\ \A i \in 1 .. Len(ready) : F[i] = ImportStep(d, ready, F[i - 1], i)
  BY <1>5, StepsUnfold
<1> HIDE DEF F
<1>7. 0 \in S
  <2>1. Intended(<<>>)
    BY DEF Intended
  <2> QED
    BY <1>6, <2>1
<1>8. ASSUME NEW n \in Nat, n \in S PROVE n + 1 \in S
  <2> SUFFICES ASSUME n + 1 <= Len(ready) PROVE Intended(F[n + 1]) /\ From(F[n + 1], n + 1)
    OBVIOUS
  <2> DEFINE s == F[n]
             c == Category(n + 1)
             x == Transaction(n + 1)
  <2>1. /\ s \in Seq(W) /\ Intended(s) /\ From(s, n) /\ n + 1 \in 1 .. Len(ready)
        /\ F[n + 1] = ImportStep(d, ready, s, n + 1)
    <3>1. n <= Len(ready) /\ n \in 0 .. Len(ready) /\ n + 1 \in 1 .. Len(ready) /\ n + 1 - 1 = n
      OBVIOUS
    <3>2. Intended(s) /\ From(s, n)
      BY <1>8, <3>1
    <3>3. s \in Seq(W)
      BY <1>6, <3>1
    <3>4. F[n + 1] = ImportStep(d, ready, s, n + 1)
      BY <1>6, <3>1
    <3> QED
      BY <3>1, <3>2, <3>3, <3>4
  <2> HIDE DEF s
  <2>2. ASSUME NEW r \in Seq(W), Intended(r), From(r, n)
        PROVE  Intended(Append(r, x)) /\ From(Append(r, x), n + 1)
    <3>1. ASSUME NEW a \in DOMAIN r PROVE ~SameKey(r[a], x)
      <4> SUFFICES ASSUME SameKey(r[a], x) PROVE FALSE
        OBVIOUS
      <4>1. PICK k \in 1 .. n : duplicateKey(r[a].value) = duplicateKey(ready[k])
        BY <2>2, <3>1 DEF SameKey
      <4>2. duplicateKey(ready[k]) = duplicateKey(ready[n + 1])
        BY <1>4, <4>1 DEF SameKey
      <4>3. k \in DOMAIN ready /\ n + 1 \in DOMAIN ready /\ k # n + 1
        BY <2>1
      <4> QED
        BY <4>2, <4>3
    <3>2. x \in W /\ x.check = "none" /\ Placed(x)
      BY <1>2, <1>4, <2>1
    <3> HIDE DEF x, From
    <3>3. Intended(Append(r, x))
      BY <2>2, <3>1, <3>2, IntendedAppend
    <3>4. \A a \in DOMAIN Append(r, x) : (a \in DOMAIN r /\ Append(r, x)[a] = r[a]) \/ Append(r, x)[a] = x
      BY <2>2, <3>2
    <3>5. duplicateKey(x.value) = duplicateKey(ready[n + 1]) /\ n + 1 \in 1 .. n + 1
      BY <1>4 DEF x
    <3>6. \A k \in 1 .. n : k \in 1 .. n + 1
      OBVIOUS
    <3>7. From(Append(r, x), n + 1)
      BY <2>2, <3>4, <3>5, <3>6, Zenon DEF From
    <3> QED
      BY <3>3, <3>7
  <2>3. Intended(Append(s, c)) /\ From(Append(s, c), n) /\ Append(s, c) \in Seq(W)
    <3>1. c \in W /\ c.check = "none" /\ Placed(c) /\ \A v : ~SameKey(v, c)
      BY <1>2, <1>3, <2>1 DEF Placed, SameKey
    <3>2. ~Enters(c)
      BY <1>3
    <3> HIDE DEF c, From
    <3>3. Intended(Append(s, c)) /\ Append(s, c) \in Seq(W)
      BY <2>1, <3>1, IntendedAppend
    <3>4. \A a \in DOMAIN Append(s, c) : (a \in DOMAIN s /\ Append(s, c)[a] = s[a]) \/ Append(s, c)[a] = c
      BY <2>1, <3>1
    <3>5. From(Append(s, c), n)
      BY <2>1, <3>2, <3>4, Zenon DEF From
    <3> QED
      BY <3>3, <3>5
  <2> HIDE DEF From, c, x
  <2>4. F[n + 1] = Append(s, x) \/ F[n + 1] = Append(Append(s, c), x)
    BY <1>1, <2>1 DEF c, x
  <2>5. Intended(Append(s, x)) /\ From(Append(s, x), n + 1)
    BY <2>1, <2>2
  <2>6. Intended(Append(Append(s, c), x)) /\ From(Append(Append(s, c), x), n + 1)
    BY <2>2, <2>3
  <2> QED
    BY <2>4, <2>5, <2>6
<1> HIDE DEF S
<1>9. Len(ready) \in S
  BY <1>7, <1>8, NatSet
<1>10. Intended(F[Len(ready)]) /\ From(F[Len(ready)], Len(ready))
  <2> DEFINE Done(n) == Intended(F[n]) /\ From(F[n], n)
  <2> HIDE DEF Done
  <2>1. \A n \in S : n <= Len(ready) => Done(n)
    BY DEF S, Done
  <2> QED
    BY <1>9, <2>1 DEF Done
<1> QED
  BY <1>10 DEF ImportSteps, F

\* What a device wrote itself is in its table, whose keys a plan is made against.
LEMMA EnteredKnown ==
    ASSUME NEW d, NEW o \in oplog[d], Enters(o)
    PROVE  o.value \in Table(d, "transactions") /\ duplicateKey(o.value) \in existingKeys(d)
<1>1. o.value \in Table(d, "transactions")
  BY DEF Table, Enters
<1> QED
  BY <1>1 DEF existingKeys

LEMMA ReplanKeeps ==
    ASSUME ImportInv, NEW d \in Devices, replan(d)
    PROVE  ImportInv'
<1>1. PICK dayFirst \in BOOLEAN :
            plan' = [plan EXCEPT ![d] = planImport(Statement, dayFirst, existingKeys(d))]
  BY DEF replan
<1> DEFINE planned == planImport(Statement, dayFirst, existingKeys(d))
<1>2. Planned(d, planned.ready)
  <2> DEFINE ready == planned.ready
  <2>1. /\ Len(ready) \in Nat /\ DOMAIN ready = 1 .. Len(ready)
        /\ \A j, k \in DOMAIN ready : duplicateKey(ready[j]) = duplicateKey(ready[k]) => j = k
        /\ \A k \in DOMAIN ready : duplicateKey(ready[k]) \notin existingKeys(d)
    BY BooksAssumption, PlanKeeps
  <2> HIDE DEF ready
  <2>2. \A k \in DOMAIN ready, o \in Entered(d) :
            Enters(o) => duplicateKey(o.value) # duplicateKey(ready[k])
    BY <2>1, EnteredKnown DEF Entered
  <2> QED
    BY <2>1, <2>2 DEF Planned, ready
<1>3. UNCHANGED <<oplog, todo>> /\ todo[d]["ui"] = <<>>
  BY DEF replan
<1> HIDE DEF planned
<1>4. plan' = [plan EXCEPT ![d] = planned]
  BY <1>1 DEF planned
<1>5. plan' = [e \in Devices |-> plan'[e]] /\ plan'[d] = planned
      /\ \A e \in Devices : e # d => plan'[e] = plan[e]
  BY <1>4 DEF ImportInv
<1>6. ASSUME NEW e \in Devices PROVE ImportingOn(e)'
  <2>1. ImportingOn(e)
    BY DEF ImportInv
  <2>2. CASE e = d
    BY <1>2, <1>3, <1>5, <2>1, <2>2 DEF ImportingOn, Entered, Planned
  <2>3. CASE e # d
    BY <1>3, <1>5, <2>1, <2>3 DEF ImportingOn, Entered, Planned
  <2> QED
    BY <2>2, <2>3
<1> QED
  BY <1>3, <1>5, <1>6 DEF ImportInv

LEMMA ApplyKeeps ==
    ASSUME ImportInv, NEW d \in Devices, applyImport(d)
    PROVE  ImportInv'
<1> DEFINE ready == plan[d].ready
           steps == ImportSteps(d, ready)
<1>1. /\ plan[d] # Null /\ todo[d]["ui"] = <<>>
      /\ todo' = [todo EXCEPT ![d]["ui"] = steps]
      /\ plan' = [plan EXCEPT ![d] = Null]
      /\ UNCHANGED oplog
  BY DEF applyImport, Begin
<1>2. Planned(d, ready)
  BY <1>1 DEF ImportInv, ImportingOn
<1> HIDE DEF ready
<1>3. /\ Intended(steps)
      /\ \A a \in DOMAIN steps : Enters(steps[a]) =>
            \E k \in DOMAIN ready : duplicateKey(steps[a].value) = duplicateKey(ready[k])
  BY <1>2, StepsIntended DEF Planned
<1> HIDE DEF steps
<1>4. \A o \in Entered(d), a \in DOMAIN steps : ~SameKey(o, steps[a])
  BY <1>2, <1>3 DEF Planned, SameKey
<1>5. /\ todo' = [e \in Devices |-> [slot \in {"ui", "run"} |-> todo'[e][slot]]]
      /\ todo'[d]["ui"] = steps /\ todo'[d]["run"] = todo[d]["run"]
      /\ \A e \in Devices : e # d => todo'[e] = todo[e]
  BY <1>1, ZenonT(60) DEF ImportInv
<1>6. plan' = [e \in Devices |-> plan'[e]] /\ plan'[d] = Null
      /\ \A e \in Devices : e # d => plan'[e] = plan[e]
  BY <1>1 DEF ImportInv
<1>7. ASSUME NEW e \in Devices PROVE ImportingOn(e)'
  <2>1. ImportingOn(e)
    BY DEF ImportInv
  <2>2. CASE e = d
    BY <1>1, <1>3, <1>4, <1>5, <1>6, <2>1, <2>2 DEF ImportingOn, Entered
  <2>3. CASE e # d
    BY <1>1, <1>5, <1>6, <2>1, <2>3 DEF ImportingOn, Entered, Planned
  <2> QED
    BY <2>2, <2>3
<1> QED
  BY <1>1, <1>5, <1>6, <1>7 DEF ImportInv

\* The rows a device has fewer of leave its plan and its writes as good as they were.
LEMMA ImportedWrite ==
    ASSUME ImportInv, NEW d \in Devices, Write(d)
    PROVE  ImportInv'
<1>1. PICK slot \in {"ui", "run"} :
        /\ todo[d][slot] # <<>>
        /\ LET step == Head(todo[d][slot])
               op == [entity |-> step.entity, id |-> step.id, value |-> step.value,
                      stamp |-> NextStamp, by |-> d, basis |-> step.basis]
           IN  oplog' = [oplog EXCEPT ![d] = {o \in @ : ~Covered(o, {op})} \cup {op}]
        /\ todo' = [todo EXCEPT ![d][slot] = Tail(@)]
        /\ UNCHANGED plan
  BY DEF Write
<1>2. ImportingOn(d)
  BY DEF ImportInv
<1>3. slot = "ui"
  BY <1>1, <1>2 DEF ImportingOn
<1> DEFINE s == todo[d]["ui"]
           step == Head(s)
           op == [entity |-> step.entity, id |-> step.id, value |-> step.value,
                  stamp |-> NextStamp, by |-> d, basis |-> step.basis]
           old == {o \in oplog[d] : ~Covered(o, {op})}
           rest == Tail(s)
<1>4. /\ oplog' = [oplog EXCEPT ![d] = old \cup {op}]
      /\ todo' = [todo EXCEPT ![d]["ui"] = rest]
      /\ s # <<>>
  BY <1>1, <1>3
<1>5. \A o \in old : o \in oplog[d] /\ ~(op.entity = o.entity /\ op.id = o.id)
  BY DEF Covered
<1>6. op.entity = step.entity /\ op.id = step.id /\ op.value = step.value /\ op.by = d
  OBVIOUS
<1> HIDE DEF s, step, op, old, rest
<1>7. PICK W : s \in Seq(W)
  BY <1>2 DEF ImportingOn, Intended, s
<1>8. /\ step = s[1] /\ 1 \in DOMAIN s
      /\ rest \in Seq(W)
      /\ \A a \in DOMAIN rest : a + 1 \in DOMAIN s /\ rest[a] = s[a + 1] /\ a \in Nat /\ a + 1 # 1
  BY <1>4, <1>7 DEF step, rest
<1>9. Intended(s) /\ \A o \in Entered(d), a \in DOMAIN s : ~SameKey(o, s[a])
  BY <1>2 DEF ImportingOn, s
<1>10. Intended(rest)
  <2>1. \A a \in DOMAIN rest : rest[a].check = "none" /\ Placed(rest[a])
    BY <1>8, <1>9 DEF Intended
  <2>2. ASSUME NEW a \in DOMAIN rest, NEW b \in DOMAIN rest, SameKey(rest[a], rest[b]) PROVE a = b
    <3>1. a + 1 = b + 1
      BY <1>8, <1>9, <2>2 DEF Intended
    <3> QED
      BY <1>8, <3>1
  <2> QED
    BY <1>8, <2>1, <2>2 DEF Intended
<1>11. OnePerRow(old \cup {op})
  BY <1>2, <1>5 DEF ImportingOn, OnePerRow
<1>12. \A o \in old \cup {op} : Placed(o)
  BY <1>2, <1>5, <1>6, <1>8, <1>9 DEF ImportingOn, Intended, Placed, Enters
<1>13. \A v : SameKey(v, op) <=> SameKey(v, step)
  BY <1>6 DEF SameKey, Enters
<1>14. \A v : SameKey(op, v) <=> SameKey(v, step)
  BY <1>6 DEF SameKey, Enters
<1> DEFINE mine == {o \in old \cup {op} : o.by = d}
<1>15. \A o \in mine : o \in Entered(d) \/ o = op
  BY <1>5 DEF Entered
<1> HIDE DEF mine
<1>16. \A o, p \in mine : SameKey(o, p) => o = p
  <2>1. \A o, p \in Entered(d) : SameKey(o, p) => o = p
    BY <1>2 DEF ImportingOn
  <2>2. \A o \in Entered(d) : ~SameKey(o, step)
    BY <1>8, <1>9
  <2> QED
    BY <1>13, <1>14, <1>15, <2>1, <2>2, Zenon
<1>17. \A o \in mine, a \in DOMAIN rest : ~SameKey(o, rest[a])
  <2>1. ASSUME NEW a \in DOMAIN rest PROVE ~SameKey(op, rest[a])
    <3>1. ~SameKey(rest[a], step)
      BY <1>8, <1>9 DEF Intended
    <3> QED
      BY <1>14, <3>1
  <2>2. \A o \in Entered(d), a \in DOMAIN rest : ~SameKey(o, rest[a])
    BY <1>8, <1>9
  <2> QED
    BY <1>15, <2>1, <2>2
<1>18. plan[d] = Null
  BY <1>2, <1>4 DEF ImportingOn, s
<1>19. /\ oplog' = [e \in Devices |-> oplog'[e]] /\ oplog'[d] = old \cup {op}
       /\ \A e \in Devices : e # d => oplog'[e] = oplog[e]
  BY <1>4 DEF ImportInv
<1>20. /\ todo' = [e \in Devices |-> [t \in {"ui", "run"} |-> todo'[e][t]]]
       /\ todo'[d]["ui"] = rest /\ todo'[d]["run"] = todo[d]["run"]
       /\ \A e \in Devices : e # d => todo'[e] = todo[e]
  BY <1>4, ZenonT(60) DEF ImportInv
<1>21. plan' = plan
  BY <1>1
<1>22. Entered(d)' = mine
  BY <1>19 DEF Entered, mine
<1>23. ASSUME NEW e \in Devices PROVE ImportingOn(e)'
  <2>1. ImportingOn(e)
    BY DEF ImportInv
  <2>2. CASE e = d
    BY <1>10, <1>11, <1>12, <1>16, <1>17, <1>18, <1>19, <1>20, <1>21, <1>22, <2>1, <2>2 DEF ImportingOn
  <2>3. CASE e # d
    BY <1>19, <1>20, <1>21, <2>1, <2>3 DEF ImportingOn, Entered, Planned
  <2> QED
    BY <2>2, <2>3
<1> QED
  BY <1>19, <1>20, <1>21, <1>23 DEF ImportInv

\* What another device entered can only take the place of rows of this one.
LEMMA ImportedDeliver ==
    ASSUME ImportInv, NEW d \in Devices, NEW from \in Devices \ {d}, Deliver(d, from)
    PROVE  ImportInv'
<1> DEFINE news == {o \in oplog[from] :
                       o.by = from /\ \A p \in OpsOf(d, o.entity, o.id) : p.stamp < o.stamp}
           old == {o \in oplog[d] : ~Covered(o, news)}
<1>1. oplog' = [oplog EXCEPT ![d] = old \cup news] /\ UNCHANGED <<todo, plan>>
  BY DEF Deliver
<1>2. news \in SUBSET oplog[from] /\ old \in SUBSET oplog[d] /\ \A o \in news : o.by = from
  OBVIOUS
<1>3. \A o \in old, p \in news : ~(p.entity = o.entity /\ p.id = o.id)
  BY DEF Covered
<1> HIDE DEF news, old
<1>4. ImportingOn(d) /\ ImportingOn(from)
  BY DEF ImportInv
<1>5. OnePerRow(old \cup news)
  BY <1>2, <1>3, <1>4 DEF ImportingOn, OnePerRow
<1>6. \A o \in old \cup news : Placed(o)
  BY <1>2, <1>4 DEF ImportingOn
<1>7. /\ oplog' = [e \in Devices |-> oplog'[e]] /\ oplog'[d] = old \cup news
      /\ \A e \in Devices : e # d => oplog'[e] = oplog[e]
  BY <1>1 DEF ImportInv
<1>8. Entered(d)' \in SUBSET Entered(d)
  BY <1>2, <1>7 DEF Entered
<1>9. ASSUME NEW e \in Devices PROVE ImportingOn(e)'
  <2>1. ImportingOn(e)
    BY DEF ImportInv
  <2>2. CASE e = d
    BY <1>1, <1>5, <1>6, <1>7, <1>8, <2>1, <2>2 DEF ImportingOn, Planned
  <2>3. CASE e # d
    BY <1>1, <1>7, <2>1, <2>3 DEF ImportingOn, Entered, Planned
  <2> QED
    BY <2>2, <2>3
<1> QED
  BY <1>1, <1>7, <1>9 DEF ImportInv

LEMMA ImportedCrash ==
    ASSUME ImportInv, NEW d \in Devices, Crash(d)
    PROVE  ImportInv'
<1>1. /\ todo' = [todo EXCEPT ![d] = [slot \in {"ui", "run"} |-> <<>>]]
      /\ plan' = [plan EXCEPT ![d] = Null]
      /\ UNCHANGED oplog
  BY DEF Crash
<1>2. /\ todo' = [e \in Devices |-> [slot \in {"ui", "run"} |-> todo'[e][slot]]]
      /\ todo'[d]["ui"] = <<>> /\ todo'[d]["run"] = <<>>
      /\ \A e \in Devices : e # d => todo'[e] = todo[e]
  BY <1>1 DEF ImportInv
<1>3. plan' = [e \in Devices |-> plan'[e]] /\ plan'[d] = Null
      /\ \A e \in Devices : e # d => plan'[e] = plan[e]
  BY <1>1 DEF ImportInv
<1>4. Intended(<<>>)
  BY DEF Intended
<1>5. ASSUME NEW e \in Devices PROVE ImportingOn(e)'
  <2>1. ImportingOn(e)
    BY DEF ImportInv
  <2>2. CASE e = d
    BY <1>1, <1>2, <1>3, <1>4, <2>1, <2>2 DEF ImportingOn, Entered
  <2>3. CASE e # d
    BY <1>1, <1>2, <1>3, <2>1, <2>3 DEF ImportingOn, Entered, Planned
  <2> QED
    BY <2>2, <2>3
<1> QED
  BY <1>1, <1>2, <1>3, <1>5 DEF ImportInv

LEMMA ImportedInit == Init /\ topic = "import" => ImportInv
<1> SUFFICES ASSUME Init, topic = "import" PROVE ImportInv
  OBVIOUS
<1> DEFINE row == Put("transactions", Txn0(1, FirstDay, 70, "old"))
           op == [entity |-> row.entity, id |-> row.id, value |-> row.value,
                  stamp |-> 1, by |-> Null, basis |-> 0]
           rows == <<row>>
           Op(i) == [entity |-> rows[i].entity, id |-> rows[i].id, value |-> rows[i].value,
                     stamp |-> i, by |-> Null, basis |-> 0]
<1>1. StartRows(topic) = rows
  BY DEF StartRows
<1>2. DOMAIN rows = {1} /\ rows[1] = row
  OBVIOUS
<1>3. oplog = [d \in Devices |-> {Op(i) : i \in DOMAIN rows}]
  BY <1>1 DEF Init
<1>4. op.value.id = op.id
  BY DEF Put, Txn0
<1>5. {Op(i) : i \in DOMAIN rows} = {op}
  BY <1>2
<1>6. oplog = [d \in Devices |-> {op}]
  BY <1>3, <1>5
<1> HIDE DEF op
<1>7. /\ todo = [d \in Devices |-> [slot \in {"ui", "run"} |-> <<>>]]
      /\ plan = [d \in Devices |-> Null]
  BY DEF Init
<1>8. Intended(<<>>)
  BY DEF Intended
<1>9. ASSUME NEW d \in Devices PROVE ImportingOn(d)
  <2>1. oplog[d] = {op} /\ todo[d]["ui"] = <<>> /\ todo[d]["run"] = <<>> /\ plan[d] = Null
    BY <1>6, <1>7
  <2>2. \A o \in Entered(d) : o = op
    BY <2>1 DEF Entered
  <2> QED
    BY <1>4, <1>8, <2>1, <2>2 DEF ImportingOn, OnePerRow, Placed
<1> QED
  BY <1>6, <1>7, <1>9 DEF ImportInv

LEMMA NoImportCheck ==
    ASSUME ImportInv, NEW d \in Devices
    PROVE  ~Check(d)
<1> SUFFICES ASSUME NEW slot \in {"ui", "run"}, todo[d][slot] # <<>>
             PROVE  Head(todo[d][slot]).check = "none"
  BY DEF Check
<1>1. slot = "ui" /\ Intended(todo[d]["ui"])
  BY DEF ImportInv, ImportingOn
<1>2. PICK W : todo[d]["ui"] \in Seq(W)
  BY <1>1 DEF Intended
<1>3. Head(todo[d]["ui"]) = todo[d]["ui"][1] /\ 1 \in DOMAIN todo[d]["ui"]
  BY <1>1, <1>2
<1> QED
  BY <1>1, <1>3 DEF Intended

----------------------------------------------------------------------------
BooksInv ==
    /\ topic = "categories" => CategoriesInv
    /\ topic = "import" => ImportInv

LEMMA CategoriesInit == Init /\ topic = "categories" => CategoriesInv
<1> SUFFICES ASSUME Init, topic = "categories" PROVE CategoriesInv
  OBVIOUS
<1> DEFINE rows == <<Put("categories", Category0(1, Null)), Put("categories", Category0(2, 1)),
                     Put("budgets", Budget0(1))>>
           Op(i) == [entity |-> rows[i].entity, id |-> rows[i].id, value |-> rows[i].value,
                     stamp |-> i, by |-> Null, basis |-> 0]
           ops == {Op(i) : i \in 1 .. 3}
<1>1. StartRows(topic) = rows
  BY DEF StartRows
<1>2. DOMAIN rows = 1 .. 3 /\ Len(rows) = 3
  OBVIOUS
<1>3. Category0(1, Null) \in CategoryRow /\ Category0(2, 1) \in CategoryRow
  BY DEF Category0, CategoryRow
<1>4. Budget0(1) \in BudgetRow
  BY DEF Budget0, BudgetRow
<1>5. /\ rows[1] \in Writes /\ rows[2] \in Writes /\ rows[3] \in Writes
      /\ rows[1].entity = "categories" /\ rows[2].entity = "categories" /\ rows[3].entity = "budgets"
      /\ rows[1].id = 1 /\ rows[2].id = 2
  BY <1>3, <1>4, CategoryPut, BudgetPut DEF Put, Category0
<1>6. oplog = [d \in Devices |-> ops] /\ tick = 3
  BY <1>1, <1>2 DEF Init
<1> HIDE DEF rows
<1>7. ASSUME NEW i \in 1 .. 3 PROVE Op(i) \in Operations
  <2>1. rows[i] \in Writes
    BY <1>5
  <2> QED
    BY <2>1 DEF Writes, Operations, Sound
<1>8. ASSUME NEW i \in 1 .. 3, NEW j \in 1 .. 3, Op(i).entity = Op(j).entity, Op(i).id = Op(j).id
      PROVE  i = j
  BY <1>5, <1>8
<1>9. IsFiniteSet(ops)
  <2> DEFINE f == [i \in 1 .. 3 |-> Op(i)]
  <2> HIDE DEF Op
  <2>1. f \in Surjection(1 .. 3, ops)
    BY DEF Surjection
  <2>2. IsFiniteSet(1 .. 3)
    <3>1. PICK a \in Int, b \in Int : a = 1 /\ b = 3
      OBVIOUS
    <3>2. IsFiniteSet(a .. b)
      BY FS_Interval
    <3> QED
      BY <3>1, <3>2
  <2> QED
    BY <2>1, <2>2, FS_Surjection
<1> HIDE DEF Op
<1>10. ops \in SUBSET Operations /\ OnePerRow(ops)
  BY <1>7, <1>8 DEF OnePerRow
<1> HIDE DEF ops
<1>11. todo \in [Devices -> [{"ui", "run"} -> Seq(Writes)]]
  BY DEF Init
<1>12. tick \in Nat /\ moves \in Nat
  BY <1>6 DEF Init
<1>13. form \in [Devices -> [entity : {"categories"}, row : CategoryRow] \cup {Null}]
  BY DEF Init
<1>14. /\ oplog \in [Devices -> SUBSET Operations]
       /\ \A d \in Devices : OnePerRow(oplog[d]) /\ IsFiniteSet(oplog[d])
  BY <1>6, <1>9, <1>10
<1> QED
  BY <1>11, <1>12, <1>13, <1>14 DEF CategoriesInv

LEMMA BooksInit == Init => BooksInv
BY CategoriesInit, ImportedInit DEF BooksInv

\* The users stay on the screens they started on.
LEMMA TopicStays ==
    ASSUME Next
    PROVE  topic' = topic
<1> SUFFICES ASSUME NEW d \in Devices,
                    \/ AccountsScreens(d) \/ CategoriesScreens(d) \/ SettingsScreens(d)
                    \/ RulesScreens(d) \/ DataScreen(d)
             PROVE  topic' = topic
  BY ZenonT(60) DEF Next, Run, Check, Write, Crash, Deliver, NewDay
<1>1. \A on, steps : Handle(d, on, steps) => topic' = topic
  BY DEF Handle
<1>2. \A on, entity : Edit(d, on, entity) => topic' = topic
  BY DEF Edit
<1>3. \A steps : Save(d, steps) => topic' = topic
  BY DEF Save
<1>4. CASE AccountsScreens(d)
  BY <1>1, <1>2, <1>3, <1>4
  DEF AccountsScreens, EditAccount, SaveAccount, setCountedInTotals, setAccountArchived,
      removeAccount, SaveGroup, EditGroup, SaveEditedGroup, removeGroup, reorder
<1>5. CASE CategoriesScreens(d)
  BY <1>1, <1>2, <1>3, <1>5
  DEF CategoriesScreens, SaveCategory, EditCategory, SaveEditedCategory, removeCategory,
      SaveBudget, pruneStaleCategories, setBudgetArchived, removeBudget
<1>6. CASE SettingsScreens(d)
  BY <1>1, <1>2, <1>3, <1>6
  DEF SettingsScreens, SeedVault, setReportingCurrency, setSubcategoriesEnabled, saveRate, removeRate
<1>7. CASE RulesScreens(d)
  BY <1>1, <1>2, <1>3, <1>7
  DEF RulesScreens, skip, EditRule, SaveRule, setRuleArchived, removeRule, EditTransaction,
      SaveTransaction, removeTransaction
<1>8. CASE DataScreen(d)
  BY <1>1, <1>8 DEF DataScreen, replan, applyImport, exportBackup, restore, SaveEntry, removeEntry
<1> QED
  BY <1>4, <1>5, <1>6, <1>7, <1>8

LEMMA BooksNext == BooksInv /\ [Next]_vars => BooksInv'
<1> SUFFICES ASSUME BooksInv, [Next]_vars PROVE BooksInv'
  OBVIOUS
<1>1. CASE UNCHANGED vars
  BY <1>1 DEF BooksInv, CategoriesInv, ImportInv, ImportingOn, Entered, Planned, vars
<1>2. CASE Next /\ topic = "categories"
  <2>1. CategoriesInv
    BY <1>2 DEF BooksInv
  <2>2. CategoriesInv'
    <3>1. CASE \E d \in Devices : CategoriesScreens(d)
      BY <2>1, <3>1, ScreensKeep
    <3>2. CASE \E d \in Devices : Check(d)
      BY <2>1, <3>2, NothingToCheck
    <3>3. CASE \E d \in Devices : Write(d)
      BY <2>1, <3>3, WriteKeeps
    <3>4. CASE \E d \in Devices : Crash(d)
      BY <2>1, <3>4, CrashKeeps
    <3>5. CASE \E d, from \in Devices : Deliver(d, from)
      BY <2>1, <3>5, DeliverKeeps
    <3> QED
      BY <1>2, <3>1, <3>2, <3>3, <3>4, <3>5
      DEF Next, AccountsScreens, SettingsScreens, RulesScreens, DataScreen, Run, NewDay
  <2> QED
    BY <1>2, <2>2, TopicStays DEF BooksInv
<1>3. CASE Next /\ topic = "import"
  <2>1. ImportInv
    BY <1>3 DEF BooksInv
  <2>2. ImportInv'
    <3>1. CASE \E d \in Devices : replan(d) \/ applyImport(d)
      BY <2>1, <3>1, ReplanKeeps, ApplyKeeps
    <3>2. CASE \E d \in Devices : Check(d)
      BY <2>1, <3>2, NoImportCheck
    <3>3. CASE \E d \in Devices : Write(d)
      BY <2>1, <3>3, ImportedWrite
    <3>4. CASE \E d \in Devices : Crash(d)
      BY <2>1, <3>4, ImportedCrash
    <3>5. CASE \E d \in Devices : \E from \in Devices \ {d} : Deliver(d, from)
      BY <2>1, <3>5, ImportedDeliver
    <3> QED
      BY <1>3, <3>1, <3>2, <3>3, <3>4, <3>5
      DEF Next, AccountsScreens, CategoriesScreens, SettingsScreens, RulesScreens, DataScreen, Run, NewDay
  <2> QED
    BY <1>3, <2>2, TopicStays DEF BooksInv
<1>4. CASE Next /\ topic \notin {"categories", "import"}
  <2>1. topic' = topic
    BY <1>4, TopicStays
  <2> QED
    BY <1>4, <2>1 DEF BooksInv
<1> QED
  BY <1>1, <1>2, <1>3, <1>4

LEMMA BooksInvariant == Spec => []BooksInv
BY BooksInit, BooksNext, PTL DEF Spec

LEMMA ShownByInv == BooksInv => EveryRowShownOnce
<1> SUFFICES ASSUME BooksInv, NEW d \in Devices
             PROVE  AccountsShown(d) /\ (topic = "categories" => CategoriesShown(d))
  BY DEF EveryRowShownOnce
<1>1. AccountsShown(d)
  BY SectionsOnce DEF AccountsShown
<1>2. ASSUME topic = "categories" PROVE CategoriesShown(d)
  <2>1. CategoriesInv
    BY <1>2 DEF BooksInv
  <2> DEFINE categories == Unarchived(Table(d, "categories"))
  <2>2. /\ categories \in SUBSET CategoryRow
        /\ \A b, c \in categories : b.id = c.id => b = c
    BY <2>1, Tables DEF Unarchived
  <2> HIDE DEF categories
  <2>3. \A c \in categories : c.kind = "expense" /\ c.id # Null
    BY <2>2, BooksAssumption DEF CategoryRow
  <2> QED
    BY <2>2, <2>3, TreeOnce DEF CategoriesShown, categories
<1> QED
  BY <1>1, <1>2

(***************************************************************************)
(* Whatever the users do on however many devices, and however far each has *)
(* heard of the others, the accounts screen (buildSections) shows every    *)
(* account in use in one section, and the categories screen (buildTree)    *)
(* every category in use under one parent or at the top.                   *)
(***************************************************************************)
THEOREM ShownOnce == Spec => []EveryRowShownOnce
BY BooksInvariant, ShownByInv, PTL

LEMMA ImportedByInv == BooksInv => ImportedOnce
<1> SUFFICES ASSUME ImportInv, NEW d \in Devices,
                    NEW t \in Table(d, "transactions"), NEW u \in Table(d, "transactions"),
                    Newest(d, "transactions", t.id).by = d, Newest(d, "transactions", u.id).by = d,
                    duplicateKey(t) = duplicateKey(u)
             PROVE  t = u
  BY DEF BooksInv, ImportedOnce
<1>1. ImportingOn(d)
  BY DEF ImportInv
<1>2. ASSUME NEW v \in Table(d, "transactions"), Newest(d, "transactions", v.id).by = d
      PROVE  \E o \in Entered(d) : Enters(o) /\ o.value = v
  <2>1. PICK o \in oplog[d] : o.entity = "transactions" /\ o.value = v /\ v # Null
    BY DEF Table
  <2>2. o.id = v.id /\ Enters(o)
    BY <1>1, <2>1 DEF ImportingOn, Placed, Enters
  <2>3. OpsOf(d, "transactions", v.id) = {o}
    BY <1>1, <2>1, <2>2 DEF OpsOf, ImportingOn, OnePerRow
  <2>4. Newest(d, "transactions", v.id) = o
    BY <2>3 DEF Newest
  <2> QED
    BY <1>2, <2>1, <2>2, <2>4 DEF Entered
<1>3. PICK o \in Entered(d) : Enters(o) /\ o.value = t
  BY <1>2
<1>4. PICK p \in Entered(d) : Enters(p) /\ p.value = u
  BY <1>2
<1>5. SameKey(o, p)
  BY <1>3, <1>4 DEF SameKey
<1> QED
  BY <1>1, <1>3, <1>4, <1>5 DEF ImportingOn

(***************************************************************************)
(* Whatever the statement, and however often it is planned and applied,    *)
(* broken off by a crash (ImportService.apply) and crossed by syncs with   *)
(* any number of other devices, no two rows that a device entered have the *)
(* same date, amount and payee (duplicateKey).  A line read once with the  *)
(* day first and once with the month first has two dates, and so two keys. *)
(***************************************************************************)
THEOREM StatementsEnterOnce == Spec => []ImportedOnce
BY BooksInvariant, ImportedByInv, PTL
=============================================================================
