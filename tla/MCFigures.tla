----------------------------- MODULE MCFigures ------------------------------
(***************************************************************************)
(* The figures the screens show, day after day: a ledger is picked, and    *)
(* then only the date moves.  The properties relate what a screen says     *)
(* today to what it says tomorrow, or two screens to each other.           *)
(***************************************************************************)
EXTENDS Schedule, Accounts, Spending, Import, Gateway

CONSTANTS FirstDay, LastDay     \* the days looked at

VARIABLES case, today
vars == <<case, today>>

(***************************************************************************)
(* The ledgers.                                                            *)
(***************************************************************************)
Txn(id, kind, amount, date) ==
    [id |-> id, kind |-> kind, amount |-> amount, currency |-> "USD",
     accountId |-> "card", counterAccountId |-> "", categoryId |-> "food",
     date |-> date, payee |-> "shop", rate |-> NoRate]

Rules ==
    [is : {"rule"}, unit : {"day", "week", "month", "year"}, interval : {1, 2},
     startDate : {20231231, 20240130, 20240229}, endDate : {NoDate, 20240310},
     maxOccurrences : {Unlimited, 3}, skipped : {{}, {20240206, 20240229}}]

Spent == {Txn(1, "expense", 40, 20240131), Txn(2, "expense", 70, 20240229),
          Txn(3, "expense", 15, 20240301),
          [Txn(4, "expense", 30, 20240301) EXCEPT !.categoryId = "lunch", !.payee = "",
                !.currency = "JPY", !.rate = [num |-> 1, den |-> 7]],
          [Txn(5, "expense", 9, 20240302) EXCEPT !.currency = "JPY", !.categoryId = Null],
          [Txn(6, "income", 500, 20240228) EXCEPT !.categoryId = "pay"],
          [Txn(7, "transfer", 60, 20240303) EXCEPT !.accountId = "bank",
                !.counterAccountId = "card", !.categoryId = Null],
          Txn(8, "expense", 20, 20240330), Txn(9, "income", 5, 20240330)}

Budgets ==
    [is : {"budget"}, period : {"weekly", "monthly", "yearly"},
     startDate : {20230228, 20231231, 20240130, 20240229}, amount : {50},
     currency : {"USD"}, rollover : BOOLEAN, categoryIds : {{"food"}}]

Cards ==
    [is : {"card"}, id : {"card"}, openingBalance : {-25}, currency : {"USD"},
     groupId : {"cards"}, archived : {FALSE}, statementDay : {1, 29, 30, 31},
     dueDay : {1, 15, 30, 31}]

Account(id, group, currency, opening) ==
    [id |-> id, groupId |-> group, currency |-> currency, openingBalance |-> opening,
     archived |-> FALSE, excludedFromTotals |-> FALSE]
CardAccounts == {[Account("card", group, c, -25) EXCEPT !.excludedFromTotals = left] :
                    group \in {"cards", "gone"}, c \in {"USD", "JPY"}, left \in BOOLEAN}
BankAccounts == {[Account("bank", group, "USD", 300) EXCEPT !.archived = old] :
                    group \in {"cash", Null}, old \in BOOLEAN}
Books == [is : {"books"}, card : CardAccounts, bank : BankAccounts]
Groups == {[id |-> "cards", type |-> "credit-card"], [id |-> "cash", type |-> "cash"],
           [id |-> "spare", type |-> "loan"]}
Rates == [c \in {"USD", "JPY"} |-> IF c = "JPY" THEN [num |-> 1, den |-> 150] ELSE NoRate]

Category(id, parent) == [id |-> id, parentId |-> parent, kind |-> "expense"]
Tables == {<<Category("food", Null), Category("lunch", "food"), Category("rent", Null)>>,
           <<Category("lunch", "food"), Category("food", Null)>>,
           <<Category("lunch", "food")>>, <<>>}
Presets == {"month", "quarter", "half", "twelve", "year"}
Reports == [is : {"report"}, table : Tables, preset : Presets]

Amounts == [is : {"amount"}, currency : CurrencyCodes, amount : {-1050, -7, 0, 5, 1000, 99999}]

\* A file written and read back: two columns, and fields of up to two characters.
Fields == UNION {[1 .. n -> Chars] : n \in 0 .. 2}
Files == {[is |-> "file", table |-> <<<<f, g>>, <<<<Letter>>, h>>>>] :
            f \in Fields, g \in {<<>>, <<Letter>>, <<Quote>>}, h \in Fields}

\* Two statements, one after the other.
Line(first, second, amount) ==
    [blank |-> FALSE, first |-> first, second |-> second, year |-> 24, amount |-> amount,
     payee |-> "shop", categoryName |-> Null]
Lines == {Line(d, m, a) : d \in {2, 13, 31}, m \in {2, 3, 13}, a \in {-5, 5, 0, Null}}
            \cup {[Line(1, 1, 1) EXCEPT !.blank = TRUE]}
Imports == [is : {"import"}, lines : {<<a, b>> : a, b \in Lines}, dayFirst : BOOLEAN]

\* A date the calendar has.
IsDay(date) ==
    /\ date \in Nat
    /\ MonthOf(date) \in 1 .. 12
    /\ DayOf(date) \in 1 .. daysInMonth(YearOf(date), MonthOf(date))

\* An absent value is no account and no category; the days start with a day.
ASSUME FiguresAssumption ==
    /\ Null \notin {"ann", "bob", "", "food", "lunch", "rent"}
    /\ IsDay(FirstDay) /\ YearOf(FirstDay) >= 1

\* Calls of the server adapter, from the app's own page, a listed one and another.
TokenLine(account, hash) ==
    [comment |-> FALSE, valid |-> account # "", account |-> account, hash |-> hash]
TokenComment == [comment |-> TRUE, valid |-> FALSE, account |-> "", hash |-> "t2"]
TokenFiles == {<<>>, <<TokenLine("ann", "t1"), TokenLine("bob", "t2")>>,
               <<TokenLine("ann", "t1"), TokenLine("bob", "t1")>>,
               <<TokenLine("ann", "t1"), TokenLine("", "t2")>>,
               <<TokenComment, TokenLine("ann", "t1")>>}
Envs == [maxObjectSize : {Null, 0, 2}, dataDir : {Null, "dir"}, tokensFile : {Null} \cup TokenFiles,
         origins : {{}, {Everyone}, {"app"}}]
Methods == {"GET", "PUT", "DELETE"}
Requests == {r \in [method : Methods, headers : {AdapterHeaders(m) : m \in Methods},
                    origin : {Null, "app", "page"}, token : {Null, "t1", "t2"},
                    size : {0, 2, 3, 4, 5}] :
                r.headers = AdapterHeaders(r.method)}
Calls == [is : {"call"}, env : {e \in Envs : Serving(e)},
          stored : {"ok", "quotaExceeded", "alreadyExists"}, request : Requests]

\* Requests through the git proxy, to hosts that redirect in every way.
Hosts == {<<"com", "git">>, <<"com", "git", "www">>, <<"com", "gitx">>}
ProxyConfigs == [origins : {{}, {"app"}}, hosts : {{}, {<<"com", "git">>}}]
ProxyRequests == [method : {"OPTIONS", "GET", "POST", "PUT"}, origin : {Null, "app", "page"},
                  host : Hosts \cup {Null}, endpoint : {"refs", "pack", "other"}]
Proxied == [is : {"proxy"}, config : ProxyConfigs, upstream : [Hosts -> Hosts \cup {Null, Unreadable}],
            request : ProxyRequests]

Dated == Rules \cup Budgets \cup Cards \cup Books \cup Reports
Init == /\ case \in Dated \cup Amounts \cup Files \cup Imports \cup Calls \cup Proxied
        /\ today = FirstDay
NextDay == /\ case.is \in {"rule", "budget", "card", "books", "report"}
           /\ today < LastDay
           /\ today' = addDays(today, 1)
           /\ UNCHANGED case
Spec == Init /\ [][NextDay]_vars

(***************************************************************************)
(* Rules.                                                                  *)
(***************************************************************************)
\* All that the materialiser has created by a date, in as many runs as it takes.
Created(rule, date) == ToSet(occurrencesUpTo(rule, date, MAX_SCAN, NoDate))
LastLookedAt(rule) == occurrenceAt(rule, MAX_OCCURRENCES_PER_RUN - 1)

\* The occurrence a rule's screen announces as next is the one the materialiser finds
\* when its day comes, and nothing else falls due: by day, week, month end and leap year,
\* past skipped days and up to the end of the rule.  This is so up to the last occurrence
\* nextOccurrence looks at.  From then on it announces nothing, "or null when the rule is
\* finished" as its comment has it, though the materialiser looks further and goes on.
AnnouncedIsCreated ==
    [][case.is = "rule" =>
        LET announced == nextOccurrence(case, today)
            due == Created(case, today') \ Created(case, today)
        IN  /\ Created(case, today) \subseteq Created(case, today')
            /\ IF today' <= LastLookedAt(case)
               THEN due = IF announced = today' THEN {today'} ELSE {}
               ELSE due \subseteq {today'} /\ announced = NoDate]_vars

Resumes(rule, date, limit, more) ==
    LET First == occurrencesUpTo(rule, date, limit, NoDate)
        Rest == occurrencesUpTo(rule, date, more, Last(First))
    IN  First # <<>> => First \o Rest = occurrencesUpTo(rule, date, limit + more, NoDate)

\* A run that stops at its limit and resumes after its furthest occurrence creates
\* what one long run would have: no gap, no repetition.
ResumesExactly ==
    case.is = "rule" => Resumes(case, today, 2, MAX_OCCURRENCES_PER_RUN)

(***************************************************************************)
(* Budgets and bills.                                                      *)
(***************************************************************************)
Covered == {"food", "lunch"}
WindowTiles(budget, txns, covered, date, tomorrow) ==
    LET now == progressFor(budget, txns, date, covered)
        then == progressFor(budget, txns, tomorrow, covered)
    IN  IF then.window.index = now.window.index THEN then.window = now.window
        ELSE /\ then.window.index = now.window.index + 1
             /\ then.window.from = tomorrow /\ now.window.to = date
             /\ then.carried = IF budget.rollover THEN now.remaining ELSE 0

\* A budget's windows cover every day once: tomorrow is in today's window, or opens
\* the next one the day today's ends.  At that change, what rollover brings in is
\* what was left, overspending included.
WindowsTile ==
    [][case.is = "budget" /\ today >= case.startDate =>
            WindowTiles(case, Spent, Covered, today, today')]_vars

Charges(card, txns, from, to) ==
    SumFunction([t \in {u \in txns : from < u.date /\ u.date <= to} |-> -signedFor(card.id, t)])
BillFollows(card, txns, date, tomorrow) ==
    LET now == summariseStatement(card, txns, date)
        next == summariseStatement(card, txns, tomorrow)
    IN  /\ now.dueOn > now.closedOn
        /\ now.closedOn <= date
        /\ daysBetween(now.closedOn, now.dueOn) <= 31
        /\ IF next.closedOn = now.closedOn
           THEN next.dueOn = now.dueOn /\ next.statementBalance = now.statementBalance
           ELSE /\ next.closedOn = tomorrow
                /\ next.dueOn >= now.dueOn
                /\ next.statementBalance = now.statementBalance
                        + Charges(card, txns, now.closedOn, next.closedOn)

\* A card's statements follow each other without a gap: one closes on the day it says,
\* a bill falls due within a month of that, never before the bill of the month before,
\* and the next one bills the last balance and every movement in between exactly once.
BillsFollow == [][case.is = "card" => BillFollows(case, Spent, today, today')]_vars

(***************************************************************************)
(* Screens that must agree.                                                *)
(***************************************************************************)
SheetAgrees(accounts, groups, txns, reporting, rates) ==
    balanceSheet(buildSections({a \in accounts : ~a.archived}, groups, txns, reporting, rates)).net
        = netWorth(accounts, txns, reporting, rates)

\* The balance sheet of the accounts screen comes to the net worth above it, however
\* accounts are grouped, excluded, archived, in another currency or in a lost group.
BalanceSheetIsNetWorth ==
    case.is = "books" => SheetAgrees({case.card, case.bank}, Groups, Spent, "USD", Rates)

ReportAddsUp(accounts, txns, range, reporting, rates, table, root) ==
    LET totals == totalsFor(txns, range, reporting)
        flow == flowByMonth(txns, range, reporting)
        rows == spendByCategory(txns, range, reporting, ToSet(table))
        worth == netWorthOver(accounts, txns, range, reporting, rates)
        window == [from |-> range.from, to |-> range.to, index |-> 0]
    IN  /\ totals.net = SumFunction([i \in DOMAIN flow |-> flow[i].net])
        /\ totals.expense = SumFunction(rows)
        /\ \A i \in DOMAIN worth \ {1} : worth[i].amount - worth[i - 1].amount = flow[i].net
        /\ root \in IdsOf(ToSet(table)) =>
                spendDetail([currency |-> reporting], window, txns, withDescendants({root}, table)).total
                    = IF root \in DOMAIN rows THEN rows[root] ELSE 0

\* The reports screen adds up: its totals are the sum of its months and of its
\* categories, each point of net worth moves by its month, and a budget on a
\* category covers what the report files under it.
ReportsAgree ==
    case.is = "report" =>
        ReportAddsUp({}, Spent, rangeFor(case.preset, today), "USD", Rates, case.table, "food")

(***************************************************************************)
(* Files.                                                                  *)
(***************************************************************************)
Guarded(field) == IF field # <<>> /\ Head(field) \in {Minus, CR} THEN <<Apostrophe>> \o field ELSE field

\* What is written as text reads back: an amount through a form, in every currency, and
\* an exported table field by field, whatever quotes, commas and line ends it holds, but
\* for the apostrophe put before what a spreadsheet would compute.
TextReadsBack ==
    /\ case.is = "amount" =>
        parseAmount(formatAmount(case.amount, case.currency), case.currency) = case.amount
    /\ case.is = "file" =>
        parseCsv(toCsv(case.table))
            = [r \in DOMAIN case.table |-> [f \in DOMAIN case.table[r] |-> Guarded(case.table[r][f])]]

Settled(lines, dayFirst) ==
    LET first == planImport(lines, dayFirst, {})
        again == planImport(lines, dayFirst, {duplicateKey(r) : r \in ToSet(first.ready)})
        Blank == {i \in DOMAIN lines : lines[i].blank}
    IN  /\ again.ready = <<>> /\ again.failed = first.failed
        /\ Cardinality(Blank) + Len(first.ready) + first.duplicates + first.failed = Len(lines)
        /\ \A r \in ToSet(first.ready) :
                r.amount > 0 /\ r.date <= endOfMonth(r.date) /\ r.date >= startOfMonth(r.date)

\* A statement read again once it has been imported has nothing left to import, every
\* line of it is accounted for, and every row it gives has a day its month has.
ImportSettles == case.is = "import" => Settled(case.lines, case.dayFirst)

(***************************************************************************)
(* The server and the proxy.                                               *)
(***************************************************************************)
Honest(env, request, stored) ==
    LET result == Call(env, request, stored)
        entries == {l \in ToSet(env.tokensFile) : ~l.comment}
        welcome == request.origin \in {Null} \cup env.origins \/ Everyone \in env.origins
        known == \E l \in entries : l.hash = request.token
        fits == request.method # "PUT" \/ request.size \in 1 .. Load(env).maxObjectSize
    IN  /\ result.account # Null <=> welcome /\ known /\ fits
        /\ result.account # Null =>
                \A l \in entries : l.hash = request.token => l.account = result.account
        /\ result.told = "ok" <=> result.account # Null /\ stored = "ok"

\* Every call the adapter makes gets as far as the store exactly when its page's origin is
\* let in, its token is listed and its body fits: a page of another origin reaches nothing.
\* The store then serves the one account the token is listed for, and the page is told "ok"
\* exactly when the store did what was asked: no answer that the page may not read hides one.
CallsAreHonest ==
    case.is = "call" => Honest(case.env, case.request, case.stored)

Home(request, config, upstream) ==
    LET fetched == proxyFetch(request, config, upstream).fetched IN
    /\ \A i \in DOMAIN fetched :
            \E entry \in config.hosts : SubSeq(fetched[i], 1, Len(entry)) = entry
    /\ Len(fetched) <= IF request.method = "GET" THEN MAX_REDIRECTS + 1 ELSE 1

\* Whatever the hosts redirect to, the proxy sends nothing to a host that is not listed,
\* follows no more redirects than it means to, and never repeats a request with a body.
ProxyStaysHome ==
    case.is = "proxy" => Home(case.request, case.config, case.upstream)
=============================================================================
