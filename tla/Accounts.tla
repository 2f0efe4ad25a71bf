------------------------------ MODULE Accounts ------------------------------
(***************************************************************************)
(* Balances, the accounts screen, net worth, and the bills of the credit   *)
(* cards.  An account's group decides what it is; no group is Null.          *)
(***************************************************************************)
EXTENDS Calendar, Money

sideOfType(type) == IF type \in {"credit-card", "loan"} THEN "liability" ELSE "asset"
readsAsOwed(type) == sideOfType(type) = "liability"
countsInTotals(account) == ~account.excludedFromTotals

GroupOf(account, groups) == {g \in groups : g.id = account.groupId}
typeOf(account, groups) ==
    IF GroupOf(account, groups) = {} THEN "default"
    ELSE (CHOOSE g \in GroupOf(account, groups) : TRUE).type
isCreditCard(account, groups) == typeOf(account, groups) = "credit-card"
isLiability(account, groups) == sideOfType(typeOf(account, groups)) = "liability"

balanceAsOf(account, txns, date) ==
    account.openingBalance
        + SumFunction([t \in {u \in txns : u.date <= date} |-> signedFor(account.id, t)])
balanceOf(account, txns) ==
    account.openingBalance + SumFunction([t \in txns |-> signedFor(account.id, t)])

(***************************************************************************)
(* Net worth, and the same money arranged in sections.  rates maps a       *)
(* currency to its rate to the reporting currency, NoRate when none is     *)
(* known.                                                                  *)
(***************************************************************************)
Priced(accounts, reporting, rates) ==
    {a \in accounts : countsInTotals(a) /\ (a.currency = reporting \/ rates[a.currency] # NoRate)}

ValueInReporting(account, txns, reporting, rates) ==
    IF account.currency = reporting THEN balanceOf(account, txns)
    ELSE convert(balanceOf(account, txns), rates[account.currency], account.currency, reporting)

netWorth(accounts, txns, reporting, rates) ==
    SumFunction([a \in Priced({b \in accounts : ~b.archived}, reporting, rates) |->
                    ValueInReporting(a, txns, reporting, rates)])

\* Mutant: a debt is shown as it is kept.
plainBalance(balance, owed) == balance
displayBalance(balance, owed) == IF owed THEN -balance ELSE balance

sectionFor(groupId, type, members, txns, reporting, rates) ==
    [groupId |-> groupId,
     accounts |-> members,
     side |-> sideOfType(type),
     owed |-> readsAsOwed(type),
     subtotal |-> displayBalance(
        SumFunction([a \in Priced(members, reporting, rates) |->
                        ValueInReporting(a, txns, reporting, rates)]), readsAsOwed(type)),
     excluded |-> Cardinality({a \in members : ~countsInTotals(a)})]

\* Mutant: only the accounts that name no group.
groupless(accounts, groups) == {a \in accounts : a.groupId = Null}
\* Without a group, or with one that is not there.
ungrouped(accounts, groups) == {a \in accounts : GroupOf(a, groups) = {}}

buildSections(accounts, groups, txns, reporting, rates) ==
    LET Members(g) == {a \in accounts : a.groupId = g.id}
        loose == ungrouped(accounts, groups)
    IN  {sectionFor(g.id, g.type, Members(g), txns, reporting, rates) :
            g \in {h \in groups : Members(h) # {}}}
        \cup IF loose = {} THEN {}
             ELSE {sectionFor(Null, "default", loose, txns, reporting, rates)}

balanceSheet(sections) ==
    LET Sum(side) == SumFunction([s \in {u \in sections : u.side = side} |-> s.subtotal])
    IN  [assets |-> Sum("asset"), liabilities |-> Sum("liability"),
         net |-> Sum("asset") - Sum("liability")]

(***************************************************************************)
(* Statements.  A day of 0 stands for terms that were never entered.       *)
(***************************************************************************)
dayOfMonth(year, month, day) ==
    format(year, month, Least(IF day < 1 THEN 1 ELSE day, daysInMonth(year, month)))
InMonthOf(date, day) == dayOfMonth(YearOf(date), MonthOf(date), day)

\* Mutant: on the day it closes, the statement before is still the last.
statementBefore(statementDay, asOf) ==
    LET thisMonth == InMonthOf(asOf, statementDay) IN
    IF thisMonth < asOf THEN thisMonth
    ELSE InMonthOf(addMonths(thisMonth, -1), statementDay)
lastStatementDate(statementDay, asOf) ==
    LET thisMonth == InMonthOf(asOf, statementDay) IN
    IF thisMonth <= asOf THEN thisMonth
    ELSE InMonthOf(addMonths(thisMonth, -1), statementDay)

dueDateFor(dueDay, statementDate) ==
    LET sameMonth == InMonthOf(statementDate, dueDay) IN
    IF sameMonth > statementDate THEN sameMonth
    ELSE InMonthOf(addMonths(statementDate, 1), dueDay)

hasCycle(account) == account.statementDay # 0 /\ account.dueDay # 0

summariseStatement(account, txns, asOf) ==
    LET closedOn == lastStatementDate(account.statementDay, asOf)
        statementBalance == -balanceAsOf(account, txns, closedOn)
        payments == {t \in txns : /\ t.date > closedOn /\ t.date <= asOf
                                  /\ signedFor(account.id, t) > 0}
        paidSince == SumFunction([t \in payments |-> signedFor(account.id, t)])
    IN  [closedOn |-> closedOn,
         dueOn |-> dueDateFor(account.dueDay, closedOn),
         statementBalance |-> statementBalance,
         paidSince |-> paidSince,
         remaining |-> IF statementBalance > paidSince
                       THEN statementBalance - paidSince ELSE 0,
         currentBalance |-> -balanceAsOf(account, txns, asOf)]

isDueSoon(summary, days, asOf) ==
    /\ summary.remaining > 0
    /\ summary.dueOn >= asOf
    /\ daysBetween(asOf, summary.dueOn) <= days

DUE_SOON_DAYS == 14

\* The bills worth showing: cards with terms, still owing, due in two weeks.
dueSoon(accounts, groups, txns, today) ==
    {a \in accounts :
        /\ ~a.archived /\ isCreditCard(a, groups) /\ hasCycle(a)
        /\ isDueSoon(summariseStatement(a, txns, today), DUE_SOON_DAYS, today)}

CanPay(card, from, amount) ==
    amount > 0 /\ from.id # card.id /\ from.currency = card.currency

Payment(id, card, from, amount, date) ==
    [id |-> id, kind |-> "transfer", amount |-> amount, currency |-> card.currency,
     accountId |-> from.id, counterAccountId |-> card.id, categoryId |-> Null,
     date |-> date, payee |-> card.id, rate |-> NoRate]
=============================================================================
