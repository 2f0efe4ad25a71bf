------------------------------ MODULE Spending ------------------------------
(***************************************************************************)
(* Categories, budgets and reports: what was spent, on what, and when.     *)
(***************************************************************************)
EXTENDS Periods, Money

(***************************************************************************)
(* The two levels of categories; a top-level one has the parent Null.      *)
(***************************************************************************)
IdsOf(categories) == {c.id : c \in categories}

IsRoot(category, scope) ==
    \A parent \in scope : parent.id = category.parentId => parent.parentId # Null

buildTree(categories, kind) ==
    LET scope == {c \in categories : c.kind = kind} IN
    {[category |-> c, children |-> {s \in scope : ~IsRoot(s, scope) /\ s.parentId = c.id}] :
        c \in {r \in scope : IsRoot(r, scope)}}

\* Mutant: spending is filed under the subcategory.
ownId(id, categories) == id
rootIdOf(id, categories) ==
    LET parents == {c.parentId : c \in {k \in categories : k.id = id}} \ {Null} IN
    IF parents \cap IdsOf(categories) = {} THEN id ELSE CHOOSE p \in parents : TRUE

descendantIds(id, categories) == {c.id : c \in {k \in categories : k.parentId = id}}

\* One pass over the table in the order it is stored.
coveredUpto(ids, table) ==
    LET Upto[i \in 0 .. Len(table)] ==
            IF i = 0 THEN ids
            ELSE IF table[i].parentId \in Upto[i - 1]
            THEN Upto[i - 1] \cup {table[i].id} ELSE Upto[i - 1]
    IN  Upto
withDescendants(ids, table) == coveredUpto(ids, table)[Len(table)]

(***************************************************************************)
(* Budgets.                                                                *)
(***************************************************************************)
countsTowards(txn, covered) == txn.kind = "expense" /\ txn.categoryId \in covered

spendDetail(budget, window, txns, covered) ==
    sumInReporting({t \in txns : countsTowards(t, covered) /\ within(t.date, window)},
                   budget.currency)

carriedInto(budget, index, txns, covered) ==
    IF ~budget.rollover \/ index <= 0 THEN 0
    ELSE SumFunction([period \in 0 .. index - 1 |->
            budget.amount - spendDetail(budget, windowByIndex(budget, period), txns, covered).total])

progressFor(budget, txns, asOf, covered) ==
    LET window == windowFor(budget, asOf)
        carried == carriedInto(budget, window.index, txns, covered)
        detail == spendDetail(budget, window, txns, covered)
        allowance == budget.amount + carried
        percent == roundHalfAwayFromZero(detail.total * 100, allowance)
    IN  [window |-> window, carried |-> carried, allowance |-> allowance,
         spent |-> detail.total, unconverted |-> detail.unconverted,
         remaining |-> allowance - detail.total,
         share |-> IF allowance > 0 THEN Least(100, percent) ELSE 100,
         over |-> allowance < detail.total]

staleCategoryIds(budget, categories) == budget.categoryIds \ IdsOf(categories)

(***************************************************************************)
(* Reports, over an inclusive range, in the reporting currency.            *)
(***************************************************************************)
InRange(txns, range, kind) == {t \in txns : t.kind = kind /\ within(t.date, range)}

totalsFor(txns, range, reporting) ==
    LET income == sumInReporting(InRange(txns, range, "income"), reporting).total
        expense == sumInReporting(InRange(txns, range, "expense"), reporting).total
    IN  [income |-> income, expense |-> expense, net |-> income - expense]

unconvertedIn(txns, range, reporting) ==
    sumInReporting(InRange(txns, range, "income") \cup InRange(txns, range, "expense"),
                   reporting).unconverted

\* category (rolled up to its root, Null when none) -> amount
spendByCategory(txns, range, reporting, categories) ==
    LET spent == Convertible(InRange(txns, range, "expense"), reporting)
        Key(t) == IF t.categoryId = Null THEN Null ELSE rootIdOf(t.categoryId, categories)
    IN  [key \in {Key(t) : t \in spent} |->
            sumInReporting({t \in spent : Key(t) = key}, reporting).total]

\* month -> income and expense, with a bucket for every month of the range
flowByMonth(txns, range, reporting) ==
    LET months == monthsIn(range) IN
    [i \in DOMAIN months |->
        totalsFor({t \in txns : within(t.date, range) /\ monthKey(t.date) = months[i]},
                  range, reporting)]

lastDayOf(month, range) == Least(endOfMonth(month * 100 + 1), range.to)

\* Every account there is, archived or left out of totals as it may be.
openingNetWorth(accounts, reporting, rates) ==
    SumFunction([a \in {b \in accounts : b.currency = reporting \/ rates[b.currency] # NoRate} |->
                    inReporting([amount |-> a.openingBalance, currency |-> a.currency,
                                 rate |-> rates[a.currency]], reporting)])

netWorthOver(accounts, txns, range, reporting, rates) ==
    LET months == monthsIn(range)
        Until(date) == totalsFor(txns, [from |-> 0, to |-> date], reporting).net
    IN  [i \in DOMAIN months |->
            [date |-> lastDayOf(months[i], range),
             amount |-> openingNetWorth(accounts, reporting, rates)
                            + Until(lastDayOf(months[i], range))]]

\* payee -> amount, of the payees with a name
topPayees(txns, range, reporting) ==
    LET named == {t \in Convertible(InRange(txns, range, "expense"), reporting) : t.payee # ""} IN
    [p \in {t.payee : t \in named} |->
        sumInReporting({t \in named : t.payee = p}, reporting).total]

rangeFor(preset, today) ==
    LET MonthsBack(n) == addMonths(startOfMonth(today), -n) IN
    CASE preset = "month"   -> currentMonth(today)
      [] preset = "quarter" -> [from |-> MonthsBack(2), to |-> today]
      [] preset = "half"    -> [from |-> MonthsBack(5), to |-> today]
      [] preset = "twelve"  -> [from |-> MonthsBack(11), to |-> today]
      [] preset = "year"    -> [from |-> format(YearOf(today), 1, 1), to |-> today]
=============================================================================
