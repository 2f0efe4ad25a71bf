-------------------------------- MODULE Books -------------------------------
(***************************************************************************)
(* The screens and services that write to the ledger, on devices that      *)
(* exchange what they write.  A handler reads the tables once, and then    *)
(* performs its writes one await at a time: in between, the other handler  *)
(* of the device, a sync or the end of the app can come.                   *)
(*                                                                         *)
(* The ledger underneath is the one Sync implements: each device holds, of *)
(* every row it has heard of, the newest operation.  Stamps are drawn from *)
(* one counter, as if the wall clocks agreed.  Of each row only the fields *)
(* are kept that a handler decides by or could lose.                       *)
(***************************************************************************)
EXTENDS Schedule, Accounts, Spending, Import

CONSTANTS
    Devices,
    Limit,          \* occurrences one run of the materialiser creates
    MaxMoves,       \* MaxMoves[topic]: things the users do, and crashes
    FirstDay, LastDay,
    Statement       \* the lines of a file to import

ASSUME BooksAssumption ==
    /\ Limit \in 1 .. MAX_OCCURRENCES_PER_RUN
    /\ Null \notin Nat
    /\ Len(Statement) \in Nat

VARIABLES
    topic,      \* the screens the users are on
    oplog,      \* oplog[d]: the newest operation on each row device d knows
    tick,       \* the last stamp issued
    todo,       \* todo[d][s]: the writes handler s of device d has still to make
    form,       \* form[d]: the row an editor was opened with
    plan,       \* plan[d]: the import waiting to be confirmed
    file,       \* the backup taken
    today, moves,
    versions    \* every rule ever saved (history)

vars == <<topic, oplog, tick, todo, form, plan, file, today, moves, versions>>

(***************************************************************************)
(* The ledger.                                                             *)
(***************************************************************************)
OpsOf(d, entity, id) == {o \in oplog[d] : o.entity = entity /\ o.id = id}
Newest(d, entity, id) == CHOOSE o \in OpsOf(d, entity, id) : TRUE
Covered(o, ops) == \E p \in ops : p.entity = o.entity /\ p.id = o.id

hasHistory(d, entity, id) == OpsOf(d, entity, id) # {}
Get(d, entity, id) ==
    IF hasHistory(d, entity, id) THEN Newest(d, entity, id).value ELSE Null
IdsIn(d, entity) == {o.id : o \in {p \in oplog[d] : p.entity = entity}}
Table(d, entity) == {o.value : o \in {p \in oplog[d] : p.entity = entity}} \ {Null}

Rule0 ==
    [id |-> 1, unit |-> "day", interval |-> 1, startDate |-> 20240229, endDate |-> NoDate,
     maxOccurrences |-> Unlimited, skipped |-> {}, archived |-> FALSE]

\* An occurrence is known by its date, another transaction by a random number.
IsOccurrence(id) == id >= Rule0.startDate

\* The occurrence furthest ahead that the log has ever had.
latestOccurrence(d) ==
    LET dates == {id \in IdsIn(d, "transactions") : IsOccurrence(id)} IN
    IF dates = {} THEN NoDate ELSE CHOOSE n \in dates : \A m \in dates : m <= n

\* A write still to be made; check says what is asked before it is.
Put(entity, value) ==
    [entity |-> entity, id |-> value.id, value |-> value, check |-> "none", basis |-> 0]
Drop(entity, id) ==
    [entity |-> entity, id |-> id, value |-> Null, check |-> "none", basis |-> 0]
Puts(entity, rows) == [i \in DOMAIN rows |-> Put(entity, rows[i])]

(***************************************************************************)
(* Handlers: steps is what the handler goes on to write.                   *)
(***************************************************************************)
Begin(d, slot, steps) ==
    /\ todo[d][slot] = <<>> /\ steps # <<>>
    /\ todo' = [todo EXCEPT ![d][slot] = steps]

Move(on) == topic = on /\ moves < MaxMoves[topic] /\ moves' = moves + 1

\* A button, no editor being open: the handler reads, and then writes.
Handle(d, on, steps) ==
    /\ Move(on)
    /\ form[d] = Null
    /\ Begin(d, "ui", steps)
    /\ UNCHANGED <<topic, oplog, tick, form, plan, file, today, versions>>

Fresh(k) == 10 * (moves + 1) + k       \* crypto.randomUUID()

Account0(id, groupId) ==
    [id |-> id, groupId |-> groupId, currency |-> "USD", openingBalance |-> 0,
     archived |-> FALSE, excludedFromTotals |-> FALSE]
Group0(id, order) == [id |-> id, order |-> order, type |-> "cash", archived |-> FALSE]
Category0(id, parentId) ==
    [id |-> id, parentId |-> parentId, name |-> Null, kind |-> "expense", archived |-> FALSE]
SettingsId == 0        \* the fixed id of the one row of settings
Settings0(currency, subcategories) ==
    [id |-> SettingsId, reportingCurrency |-> currency, subcategories |-> subcategories]
Txn0(id, date, amount, payee) ==
    [id |-> id, date |-> date, amount |-> amount, payee |-> payee, categoryId |-> Null]

\* A row opened in its editor, and what the editor then writes.
Edit(d, on, entity) ==
    /\ Move(on)
    /\ form[d] = Null /\ todo[d]["ui"] = <<>>
    /\ \E row \in Table(d, entity) :
            form' = [form EXCEPT ![d] = [entity |-> entity, row |-> row]]
    /\ UNCHANGED <<topic, oplog, tick, todo, plan, file, today, versions>>

Opened(d, entity) == form[d] # Null /\ form[d].entity = entity
Save(d, steps) ==
    /\ Begin(d, "ui", steps)
    /\ form' = [form EXCEPT ![d] = Null]
    /\ UNCHANGED <<topic, oplog, tick, plan, file, today, moves, versions>>

(***************************************************************************)
(* Accounts and groups.                                                    *)
(***************************************************************************)
EditAccount(d) == Edit(d, "accounts", "accounts")

\* The editor's row is written from its fields: it has none for excludedFromTotals.
SaveAccount(d) ==
    /\ Opened(d, "accounts")
    /\ \E groupId \in IdsOf(Table(d, "accountGroups")) \cup {Null}, archived \in BOOLEAN :
        Save(d,
            <<Put("accounts", [Account0(form[d].row.id, groupId) EXCEPT !.archived = archived])>>)

setCountedInTotals(d) ==
    \E a \in Table(d, "accounts"), counted \in BOOLEAN :
        Handle(d, "accounts", <<Put("accounts", [a EXCEPT !.excludedFromTotals = ~counted])>>)

setAccountArchived(d) ==
    \E a \in Table(d, "accounts") :
        Handle(d, "accounts", <<Put("accounts", [a EXCEPT !.archived = TRUE])>>)

removeAccount(d) ==
    \E a \in Table(d, "accounts") : Handle(d, "accounts", <<Drop("accounts", a.id)>>)

nextOrder(d) ==
    LET orders == {g.order : g \in Table(d, "accountGroups")} IN
    IF orders = {} THEN 0 ELSE 1 + CHOOSE n \in orders : \A m \in orders : m <= n

SaveGroup(d) ==
    Handle(d, "accounts", <<Put("accountGroups", Group0(Fresh(0), nextOrder(d)))>>)

EditGroup(d) == Edit(d, "accounts", "accountGroups")
SaveEditedGroup(d) ==
    /\ Opened(d, "accountGroups")
    /\ \E type \in {"cash", "loan"}, archived \in BOOLEAN :
        Save(d,
            <<Put("accountGroups", [form[d].row EXCEPT !.type = type, !.archived = archived])>>)

\* In the order of their names, which may be any.
accountsIn(d, groupId) == SetToSeqs({a \in Table(d, "accounts") : a.groupId = groupId})

\* Its accounts are let go first, as they were when the handler began.
removeGroup(d) ==
    \E g \in Table(d, "accountGroups") :
        \E members \in accountsIn(d, g.id) :
            Handle(d, "accounts",
                Puts("accounts", [i \in DOMAIN members |-> [members[i] EXCEPT !.groupId = Null]])
                    \o <<Drop("accountGroups", g.id)>>)

\* The active groups in a new order: the ids are read once, and each row again when its
\* turn has come, as it then is.
Place(id, position) ==
    [entity |-> "accountGroups", id |-> id, value |-> Null, check |-> "place", basis |-> position]
reorder(d) ==
    \E ids \in SetToSeqs(IdsOf({g \in Table(d, "accountGroups") : ~g.archived})) :
        Handle(d, "accounts", [i \in DOMAIN ids |-> Place(ids[i], i - 1)])

(***************************************************************************)
(* Categories and budgets.                                                 *)
(***************************************************************************)
SaveCategory(d) ==
    \E parentId \in {Null} \cup {c.id : c \in {k \in Table(d, "categories") : k.parentId = Null}} :
        Handle(d, "categories", <<Put("categories", Category0(Fresh(0), parentId))>>)

EditCategory(d) == Edit(d, "categories", "categories")
SaveEditedCategory(d) ==
    /\ Opened(d, "categories")
    /\ \E archived \in BOOLEAN :
        Save(d, <<Put("categories", [form[d].row EXCEPT !.archived = archived])>>)

removeCategory(d) ==
    \E c \in Table(d, "categories") :
        \E children \in SetToSeqs(descendantIds(c.id, Table(d, "categories"))) :
            Handle(d, "categories",
                [i \in DOMAIN children |-> Drop("categories", children[i])]
                    \o <<Drop("categories", c.id)>>)

Budget0(id) == [id |-> id, categoryIds |-> {2}, amount |-> 50, archived |-> FALSE]
ValidBudget(budget) == budget.amount > 0 /\ budget.categoryIds # {}

SaveBudget(d) ==
    \E chosen \in SUBSET IdsOf(Table(d, "categories")) :
        LET budget == [Budget0(1) EXCEPT !.categoryIds = chosen] IN
        /\ ValidBudget(budget)
        /\ Handle(d, "categories", <<Put("budgets", budget)>>)

pruneStaleCategories(d) ==
    \E b \in Table(d, "budgets") :
        LET kept == b.categoryIds \ staleCategoryIds(b, Table(d, "categories")) IN
        /\ kept # b.categoryIds
        /\ kept # {}
        /\ Handle(d, "categories", <<Put("budgets", [b EXCEPT !.categoryIds = kept])>>)

setBudgetArchived(d) ==
    \E b \in Table(d, "budgets") :
        Handle(d, "categories", <<Put("budgets", [b EXCEPT !.archived = ~@])>>)

removeBudget(d) ==
    \E b \in Table(d, "budgets") : Handle(d, "categories", <<Drop("budgets", b.id)>>)

(***************************************************************************)
(* A new vault, and its one row of settings.                               *)
(***************************************************************************)
Settings(d) == Get(d, "vaultSettings", SettingsId)

\* Currency, then starter categories, then starter groups with their accounts.
SeedVault(d) ==
    /\ oplog[d] = {}
    /\ \E currency \in CurrencyCodes :
        Handle(d, "settings",
            <<Put("vaultSettings", Settings0(currency, TRUE)),
              Put("categories", Category0(Fresh(0), Null)),
              Put("accountGroups", Group0(Fresh(1), 0)),
              Put("accounts", Account0(Fresh(2), Fresh(1)))>>)

\* The page asks nothing of the ledger when the choice is the one in force.
reportingCurrency(d) ==
    IF Settings(d) = Null THEN "USD" ELSE Settings(d).reportingCurrency
setReportingCurrency(d) ==
    \E currency \in CurrencyCodes \ {reportingCurrency(d)} :
        Handle(d, "settings",
            <<Put("vaultSettings",
                IF Settings(d) = Null THEN Settings0(currency, TRUE)
                ELSE [Settings(d) EXCEPT !.reportingCurrency = currency])>>)

setSubcategoriesEnabled(d) ==
    \E enabled \in BOOLEAN :
        Handle(d, "settings",
            <<Put("vaultSettings",
                IF Settings(d) = Null THEN Settings0("USD", enabled)
                ELSE [Settings(d) EXCEPT !.subcategories = enabled])>>)

saveRate(d) ==
    \E num \in {1, 2} :
        Handle(d, "settings", <<Put("rates", [id |-> today, rate |-> [num |-> num, den |-> 1]])>>)

removeRate(d) ==
    \E r \in Table(d, "rates") : Handle(d, "settings", <<Drop("rates", r.id)>>)

(***************************************************************************)
(* Recurring rules.  The materialiser runs when the app opens.             *)
(***************************************************************************)
toTransaction(date) == Txn0(date, date, 40, "rent")

\* Mutant: the newest occurrence is created first.
DueReversed(d, rule) == Reverse(occurrencesUpTo(rule, today, Limit, latestOccurrence(d)))
DueOn(d, rule) == occurrencesUpTo(rule, today, Limit, latestOccurrence(d))

Run(d) ==
    /\ topic = "rules"
    /\ \E rule \in {r \in Table(d, "recurringRules") : ~r.archived} :
        LET due == DueOn(d, rule) IN
        Begin(d, "run", [i \in DOMAIN due |->
            [Put("transactions", toTransaction(due[i])) EXCEPT !.check = "history"]])
    /\ UNCHANGED <<topic, oplog, tick, form, plan, file, today, moves, versions>>

\* The next occurrence, and its transaction should there be one.
skip(d) ==
    \E rule \in {r \in Table(d, "recurringRules") : ~r.archived} :
        LET date == nextOccurrence(rule, today) IN
        /\ date # NoDate
        /\ Handle(d, "rules",
            <<Put("recurringRules", [rule EXCEPT !.skipped = @ \cup {date}]),
              [Drop("transactions", date) EXCEPT !.check = "exists"]>>)

\* The editor keeps the skipped dates, and the archived flag, it was opened with.
EditRule(d) == Edit(d, "rules", "recurringRules")
SaveRule(d) ==
    /\ Opened(d, "recurringRules")
    /\ Save(d, <<Put("recurringRules",
                     [form[d].row EXCEPT !.startDate = addDays(Rule0.startDate, 1)])>>)

setRuleArchived(d) ==
    \E rule \in Table(d, "recurringRules") :
        Handle(d, "rules", <<Put("recurringRules", [rule EXCEPT !.archived = ~@])>>)

removeRule(d) ==
    \E rule \in Table(d, "recurringRules") :
        Handle(d, "rules", <<Drop("recurringRules", rule.id)>>)

EditTransaction(d) == Edit(d, "rules", "transactions")
SaveTransaction(d) ==
    /\ Opened(d, "transactions")
    /\ Save(d, <<Put("transactions", [form[d].row EXCEPT !.amount = 45])>>)
removeTransaction(d) ==
    /\ Opened(d, "transactions")
    /\ Save(d, <<Drop("transactions", form[d].row.id)>>)

(***************************************************************************)
(* Statements and backups.                                                 *)
(***************************************************************************)
\* Mutant: the ledger is not asked.
noKeys(d) == {}
existingKeys(d) == {duplicateKey(t) : t \in Table(d, "transactions")}

\* A file is read, or read again with the other order of day and month.
replan(d) ==
    /\ topic = "import"
    /\ todo[d]["ui"] = <<>>
    /\ \E dayFirst \in BOOLEAN :
        LET planned == planImport(Statement, dayFirst, existingKeys(d)) IN
        /\ plan[d] # planned
        /\ plan' = [plan EXCEPT ![d] = planned]
    /\ UNCHANGED <<topic, oplog, tick, todo, form, file, today, moves, versions>>

\* Row i of the plan, in a transaction; a category the ledger does not have is created
\* before the first row that names it.
ImportStep(d, ready, steps, i) ==
    LET names == {c.name : c \in Table(d, "categories")}
        category == Put("categories",
            [Category0(Fresh(5 + i), Null) EXCEPT !.name = ready[i].categoryName,
                                                  !.kind = ready[i].kind])
        transaction == Put("transactions",
            Txn0(Fresh(i), ready[i].date, ready[i].amount, ready[i].payee))
    IN  IF /\ ready[i].categoryName \notin names \cup {Null}
           /\ \A j \in 1 .. i - 1 : ready[j].categoryName # ready[i].categoryName
        THEN Append(Append(steps, category), transaction)
        ELSE Append(steps, transaction)

importUpto(d, ready) ==
    LET Upto[i \in 0 .. Len(ready)] ==
            IF i = 0 THEN <<>> ELSE ImportStep(d, ready, Upto[i - 1], i)
    IN  Upto
ImportSteps(d, ready) == importUpto(d, ready)[Len(ready)]

applyImport(d) ==
    /\ plan[d] # Null
    /\ Move("import")
    /\ Begin(d, "ui", ImportSteps(d, plan[d].ready))
    /\ plan' = [plan EXCEPT ![d] = Null]
    /\ UNCHANGED <<topic, oplog, tick, form, file, today, versions>>

\* The rows of every table, with their stamps.
exportBackup(d) ==
    /\ topic = "backup"
    /\ file = {}
    /\ file' = {o \in oplog[d] : o.value # Null}
    /\ file' # {}
    /\ UNCHANGED <<topic, oplog, tick, todo, form, plan, today, moves, versions>>

restore(d) ==
    LET rows == SetToSortSeq(file, LAMBDA a, b : a.stamp < b.stamp) IN
    Handle(d, "backup",
        [i \in DOMAIN rows |->
            [Put(rows[i].entity, rows[i].value) EXCEPT !.check = "newer", !.basis = rows[i].stamp]])

\* Rows are changed and deleted meanwhile.
SaveEntry(d) ==
    \E t \in Table(d, "transactions") :
        Handle(d, "backup", <<Put("transactions", Txn0(t.id, today, 99, "entry"))>>)
removeEntry(d) ==
    \E t \in Table(d, "transactions") : Handle(d, "backup", <<Drop("transactions", t.id)>>)

(***************************************************************************)
(* The steps of a handler: what a write depends on is looked at first, and *)
(* the write follows in a transaction of its own.                          *)
(***************************************************************************)
SkipsStep(d, step) ==
    CASE step.check = "history" -> hasHistory(d, step.entity, step.id)
      [] step.check = "exists"  -> Get(d, step.entity, step.id) = Null
      [] step.check = "newer"   -> /\ Get(d, step.entity, step.id) # Null
                                   /\ Newest(d, step.entity, step.id).stamp > step.basis
      [] step.check = "place"   -> \/ Get(d, step.entity, step.id) = Null
                                   \/ Get(d, step.entity, step.id).order = step.basis

\* What is written once the look has been taken: of a group to be placed, the row seen.
Checked(d, step) ==
    IF step.check = "place"
    THEN Put(step.entity, [Get(d, step.entity, step.id) EXCEPT !.order = step.basis])
    ELSE [step EXCEPT !.check = "none"]

Check(d) ==
    \E slot \in {"ui", "run"} :
        /\ todo[d][slot] # <<>>
        /\ LET step == Head(todo[d][slot]) IN
            /\ step.check # "none"
            /\ todo' = [todo EXCEPT ![d][slot] =
                IF SkipsStep(d, step) THEN Tail(@)
                ELSE <<Checked(d, step)>> \o Tail(@)]
        /\ UNCHANGED <<topic, oplog, tick, form, plan, file, today, moves, versions>>

NextStamp == tick + 1

Write(d) ==
    \E slot \in {"ui", "run"} :
        /\ todo[d][slot] # <<>>
        /\ LET step == Head(todo[d][slot]) IN
            /\ step.check = "none"
            /\ tick' = NextStamp
            /\ LET op == [entity |-> step.entity, id |-> step.id, value |-> step.value,
                          stamp |-> NextStamp, by |-> d, basis |-> step.basis]
               IN  oplog' = [oplog EXCEPT ![d] = {o \in @ : ~Covered(o, {op})} \cup {op}]
            /\ versions' = IF step.entity = "recurringRules" /\ step.value # Null
                           THEN versions \cup {step.value} ELSE versions
        /\ todo' = [todo EXCEPT ![d][slot] = Tail(@)]
        /\ UNCHANGED <<topic, form, plan, file, today, moves>>

\* A sync brings what another device wrote, unless it has been superseded here.
Deliver(d, from) ==
    LET news == {o \in oplog[from] :
                    o.by = from /\ \A p \in OpsOf(d, o.entity, o.id) : p.stamp < o.stamp}
    IN  /\ news # {}
        /\ oplog' = [oplog EXCEPT ![d] = {o \in @ : ~Covered(o, news)} \cup news]
        /\ UNCHANGED <<topic, tick, todo, form, plan, file, today, moves, versions>>

\* The app is closed, or killed, and opened again.
Crash(d) ==
    /\ todo[d]["ui"] # <<>> \/ todo[d]["run"] # <<>>
    /\ Move(topic)
    /\ todo' = [todo EXCEPT ![d] = [slot \in {"ui", "run"} |-> <<>>]]
    /\ form' = [form EXCEPT ![d] = Null]
    /\ plan' = [plan EXCEPT ![d] = Null]
    /\ UNCHANGED <<topic, oplog, tick, file, today, versions>>

NewDay ==
    /\ topic = "rules"
    /\ today < LastDay
    /\ today' = addDays(today, 1)
    /\ UNCHANGED <<topic, oplog, tick, todo, form, plan, file, moves, versions>>

(***************************************************************************)
(* The specification.                                                      *)
(***************************************************************************)
StartRows(on) ==
    CASE on = "accounts"   -> <<Put("accountGroups", Group0(1, 0)), Put("accountGroups", Group0(2, 1)),
                                Put("accounts", Account0(3, 1)), Put("accounts", Account0(4, Null))>>
      [] on = "categories" -> <<Put("categories", Category0(1, Null)), Put("categories", Category0(2, 1)),
                                Put("budgets", Budget0(1))>>
      [] on = "settings"   -> <<>>
      [] on = "rules"      -> <<Put("recurringRules", Rule0)>>
      [] on \in {"import", "backup"} -> <<Put("transactions", Txn0(1, FirstDay, 70, "old"))>>

Init ==
    /\ topic \in DOMAIN MaxMoves
    /\ LET rows == StartRows(topic) IN
        /\ oplog = [d \in Devices |->
            {[entity |-> rows[i].entity, id |-> rows[i].id, value |-> rows[i].value,
              stamp |-> i, by |-> Null, basis |-> 0] : i \in DOMAIN rows}]
        /\ tick = Len(rows)
    /\ todo = [d \in Devices |-> [slot \in {"ui", "run"} |-> <<>>]]
    /\ form = [d \in Devices |-> Null]
    /\ plan = [d \in Devices |-> Null]
    /\ file = {}
    /\ today = FirstDay
    /\ moves = 0
    /\ versions = {Rule0}

AccountsScreens(d) ==
    /\ topic = "accounts"
    /\ \/ EditAccount(d) \/ SaveAccount(d) \/ setCountedInTotals(d) \/ setAccountArchived(d)
       \/ removeAccount(d) \/ SaveGroup(d) \/ EditGroup(d) \/ SaveEditedGroup(d)
       \/ removeGroup(d) \/ reorder(d)
CategoriesScreens(d) ==
    /\ topic = "categories"
    /\ \/ SaveCategory(d) \/ EditCategory(d) \/ SaveEditedCategory(d) \/ removeCategory(d)
       \/ SaveBudget(d) \/ pruneStaleCategories(d) \/ setBudgetArchived(d) \/ removeBudget(d)
SettingsScreens(d) ==
    /\ topic = "settings"
    /\ \/ SeedVault(d) \/ setReportingCurrency(d) \/ setSubcategoriesEnabled(d)
       \/ saveRate(d) \/ removeRate(d)
RulesScreens(d) ==
    /\ topic = "rules"
    /\ \/ skip(d) \/ EditRule(d) \/ SaveRule(d) \/ setRuleArchived(d) \/ removeRule(d)
       \/ EditTransaction(d) \/ SaveTransaction(d) \/ removeTransaction(d)
DataScreen(d) ==
    \/ topic = "import" /\ (replan(d) \/ applyImport(d))
    \/ topic = "backup" /\ (exportBackup(d) \/ restore(d) \/ SaveEntry(d) \/ removeEntry(d))

Next ==
    \/ \E d \in Devices :
        \/ AccountsScreens(d) \/ CategoriesScreens(d) \/ SettingsScreens(d)
        \/ RulesScreens(d) \/ DataScreen(d)
        \/ Run(d) \/ Check(d) \/ Write(d) \/ Crash(d)
        \/ \E from \in Devices \ {d} : Deliver(d, from)
    \/ NewDay

Spec == Init /\ [][Next]_vars

(***************************************************************************)
(* Properties.                                                             *)
(***************************************************************************)
Unarchived(rows) == {r \in rows : ~r.archived}
OnceEach(parts, rows) ==
    /\ UNION parts = rows
    /\ \A P, Q \in parts : P # Q => P \cap Q = {}

AccountsShown(d) ==
    LET accounts == Unarchived(Table(d, "accounts"))
        groups == Unarchived(Table(d, "accountGroups"))
        rates == [c \in CurrencyCodes |-> NoRate]
    IN  OnceEach({s.accounts : s \in buildSections(accounts, groups, {}, "USD", rates)}, accounts)
CategoriesShown(d) ==
    LET categories == Unarchived(Table(d, "categories")) IN
    OnceEach({{node.category} \cup node.children : node \in buildTree(categories, "expense")},
             categories)

\* Whatever two devices do to groups and accounts, and however far the other has heard
\* of it, the accounts screen shows every account in use once: in its group, or among
\* those without when the group is archived, deleted or not there yet.  The same for
\* subcategories, whose parent may have been archived or deleted elsewhere.
EveryRowShownOnce ==
    /\ topic \in {"accounts", "settings"} => \A d \in Devices : AccountsShown(d)
    /\ topic = "categories" => \A d \in Devices : CategoriesShown(d)

\* d has heard of everything.
UpToDate(d) == \A e \in Devices : IdsIn(e, "transactions") \subseteq IdsIn(d, "transactions")

\* Days on which the rule, which is a daily one, has an occurrence however it was saved.
Days == {addDays(FirstDay, i) : i \in 0 .. daysBetween(FirstDay, LastDay)}
Owed == {date \in Days : /\ date <= today
                         /\ \A v \in versions : v.startDate <= date /\ date \notin v.skipped}

\* Runs capped at Limit, killed halfway, on two devices at once, with occurrences edited,
\* deleted and skipped in between: the furthest occurrence known has all before it, so
\* that resuming after it misses none, and when a run finds nothing more to do every
\* occurrence up to today has been created, once.
NoGap ==
    topic = "rules" =>
        \A d \in Devices : UpToDate(d) =>
            LET missing == {date \in Owed : ~hasHistory(d, "transactions", date)} IN
            /\ \A date \in missing : date > latestOccurrence(d)
            /\ \A rule \in Unarchived(Table(d, "recurringRules")) :
                    DueOn(d, rule) = <<>> => missing = {}

\* Of the rows a device imported, no two have the same date, amount and payee: a line is
\* entered once, though the statement be read and applied again, or was applied halfway
\* when the app was killed, with lines of the same key in it, other readings tried in
\* between and rows from another device arriving.  Read with day and month the other way
\* round, a line has another date and so another key: it is another transaction to the
\* code, which enters it, and nothing is said here of the two.
ImportedOnce ==
    topic = "import" =>
        \A d \in Devices :
            LET Imported(t) == Newest(d, "transactions", t.id).by = d IN
            \A t, u \in {r \in Table(d, "transactions") : Imported(r)} :
                duplicateKey(t) = duplicateKey(u) => t = u

\* "A row already present with a newer stamp is left alone: restoring an old backup should
\* not undo work done since": a restored row never supersedes, on any device, one that
\* was edited after the backup (one that was deleted counts as missing, and comes back).
RestoreKeepsNewer ==
    [][\A d \in Devices : \A o \in oplog'[d] : o.basis > 0 =>
            \A p \in OpsOf(d, o.entity, o.id) : p.stamp > o.basis /\ p.value # Null => p.basis > 0]_vars
=============================================================================
