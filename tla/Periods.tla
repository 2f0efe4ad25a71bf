------------------------------ MODULE Periods -------------------------------
(***************************************************************************)
(* Budget windows, anchored to the day the budget started.                 *)
(***************************************************************************)
EXTENDS Calendar

NoWindow == [from |-> 0, to |-> 0, index |-> -1]

windowStart(anchor, index) ==
    IF anchor.period = "weekly" THEN addDays(anchor.startDate, index * 7)
    ELSE addMonths(anchor.startDate,
                   IF anchor.period = "monthly" THEN index ELSE index * 12)

windowByIndex(anchor, index) ==
    [from |-> windowStart(anchor, index),
     to |-> addDays(windowStart(anchor, index + 1), -1),
     index |-> index]

estimateIndex(anchor, date) ==
    LET months == (YearOf(date) - YearOf(anchor.startDate)) * 12
                    + (MonthOf(date) - MonthOf(anchor.startDate))
    IN  CASE anchor.period = "weekly"  -> daysBetween(anchor.startDate, date) \div 7
          [] anchor.period = "monthly" -> months
          [] OTHER -> months \div 12

\* Mutant: the estimate is taken as it is.
Uncorrected(anchor, date, estimate) == estimate
\* The correction loops: down to the last window that has started, then up.
DownFrom(anchor, date, estimate) ==
    LET Down[i \in 0 .. estimate] ==
            IF i > 0 /\ windowStart(anchor, i) > date THEN Down[i - 1] ELSE i
    IN  Down
UpFrom(anchor, date) ==
    LET Up[i \in Nat] ==
            IF windowStart(anchor, i + 1) <= date THEN Up[i + 1] ELSE i
    IN  Up
Corrected(anchor, date, estimate) ==
    UpFrom(anchor, date)[DownFrom(anchor, date, estimate)[estimate]]

windowFor(anchor, date) ==
    IF date < anchor.startDate THEN NoWindow
    ELSE windowByIndex(anchor, Corrected(anchor, date, estimateIndex(anchor, date)))
=============================================================================
