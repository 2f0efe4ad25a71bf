------------------------------- MODULE Import -------------------------------
(***************************************************************************)
(* Text files in and out: the comma-separated format, and the plan for     *)
(* importing a statement.  A character is one of a few kinds; a field is a *)
(* sequence of them.                                                       *)
(***************************************************************************)
EXTENDS Calendar, Money

Quote == "quote"
Comma == "comma"
CR == "cr"
LF == "lf"
Minus == "minus"
Apostrophe == "apostrophe"
Letter == "letter"
Chars == {Quote, Comma, CR, LF, Minus, Letter}

\* Mutant: a quote within quotes is left single.
Single(c) == <<c>>
Doubled(c) == IF c = Quote THEN <<Quote, Quote>> ELSE <<c>>

\* A field is guarded against being read as a formula, and quoted if it must be.
escapeField(text) ==
    LET guarded == IF text # <<>> /\ Head(text) \in {Minus, CR}
                   THEN <<Apostrophe>> \o text ELSE text
    IN  IF ToSet(guarded) \cap {Quote, Comma, CR, LF} = {} THEN guarded
        ELSE <<Quote>> \o FlattenSeq([i \in DOMAIN guarded |-> Doubled(guarded[i])]) \o <<Quote>>

Joined(parts, separator) ==
    FlattenSeq([i \in DOMAIN parts |-> IF i = 1 THEN parts[i] ELSE separator \o parts[i]])
toCsv(table) ==
    Joined([r \in DOMAIN table |->
                Joined([f \in DOMAIN table[r] |-> escapeField(table[r][f])], <<Comma>>)],
           <<CR, LF>>)

\* The reader's state: rows read, the row and the field being read, whether inside
\* quotes, whether the field has begun, and how many characters to pass over.
endField(s) == [s EXCEPT !.row = Append(@, s.field), !.field = <<>>, !.started = FALSE]
endRow(s) ==
    LET t == endField(s) IN
    [t EXCEPT !.rows = IF Len(t.row) > 1 \/ t.row[1] # <<>> THEN Append(@, t.row) ELSE @,
              !.row = <<>>]

Read(s, c, following) ==
    IF s.pass > 0 THEN [s EXCEPT !.pass = @ - 1]
    ELSE IF s.quoted
    THEN IF c # Quote THEN [s EXCEPT !.field = Append(@, c)]
         ELSE IF following = Quote THEN [s EXCEPT !.field = Append(@, Quote), !.pass = 1]
         ELSE [s EXCEPT !.quoted = FALSE]
    ELSE CASE c = Quote -> IF ~s.started /\ s.field = <<>>
                           THEN [s EXCEPT !.quoted = TRUE, !.started = TRUE]
                           ELSE [s EXCEPT !.field = Append(@, c), !.started = TRUE]
           [] c = Comma -> endField(s)
           [] c = CR -> [endRow(s) EXCEPT !.pass = IF following = LF THEN 1 ELSE 0]
           [] c = LF -> endRow(s)
           [] OTHER -> [s EXCEPT !.field = Append(@, c), !.started = TRUE]

parseCsv(text) ==
    LET Upto[i \in 0 .. Len(text)] ==
            IF i = 0
            THEN [rows |-> <<>>, row |-> <<>>, field |-> <<>>,
                  quoted |-> FALSE, started |-> FALSE, pass |-> 0]
            ELSE Read(Upto[i - 1], text[i], IF i < Len(text) THEN text[i + 1] ELSE "end")
        end == Upto[Len(text)]
    IN  (IF end.field # <<>> \/ end.row # <<>> THEN endRow(end) ELSE end).rows

(***************************************************************************)
(* A statement: each line has a day, month and year as written and an      *)
(* amount (Null when it cannot be read), or is blank.                      *)
(***************************************************************************)
duplicateKey(txn) == <<txn.date, txn.amount, txn.payee>>

PlannedRow(line, dayFirst) ==
    [date |-> parseSlashDate(line.first, line.second, line.year, dayFirst),
     amount |-> Abs(line.amount), payee |-> line.payee,
     kind |-> IF line.amount < 0 THEN "expense" ELSE "income",
     categoryName |-> line.categoryName]

Fails(line, dayFirst) ==
    \/ parseSlashDate(line.first, line.second, line.year, dayFirst) = 0
    \/ line.amount \in {Null, 0}

\* A line of the file is passed over, failed, a duplicate of one seen before, or ready.
planLine(plan, line, dayFirst) ==
    LET row == PlannedRow(line, dayFirst) IN
    IF line.blank THEN plan
    ELSE IF Fails(line, dayFirst) THEN [plan EXCEPT !.failed = @ + 1]
    ELSE IF duplicateKey(row) \in plan.seen THEN [plan EXCEPT !.duplicates = @ + 1]
    ELSE [seen |-> plan.seen \cup {duplicateKey(row)}, ready |-> Append(plan.ready, row),
          duplicates |-> plan.duplicates, failed |-> plan.failed]

planUpto(lines, dayFirst, existing) ==
    LET Upto[i \in 0 .. Len(lines)] ==
            IF i = 0 THEN [seen |-> existing, ready |-> <<>>, duplicates |-> 0, failed |-> 0]
            ELSE planLine(Upto[i - 1], lines[i], dayFirst)
    IN  Upto

\* The rows to write: read without error, and not seen before in file or ledger.
planImport(lines, dayFirst, existing) == planUpto(lines, dayFirst, existing)[Len(lines)]
=============================================================================
