------------------------------ MODULE Schedule ------------------------------
(***************************************************************************)
(* When a recurring rule falls due.  NoDate stands for null.               *)
(***************************************************************************)
EXTENDS Calendar, FiniteSets

CONSTANTS
    MAX_OCCURRENCES_PER_RUN,    \* occurrences one run creates; indices nextOccurrence looks at
    MAX_SCAN                    \* indices occurrencesUpTo looks at

ASSUME ScheduleAssumption ==
    /\ MAX_OCCURRENCES_PER_RUN \in Nat \ {0}
    /\ MAX_SCAN \in Nat
    /\ MAX_SCAN >= MAX_OCCURRENCES_PER_RUN

NoDate == 0
Unlimited == -1

occurrenceAt(schedule, index) ==
    LET step == schedule.interval * index IN
    CASE schedule.unit = "day"   -> addDays(schedule.startDate, step)
      [] schedule.unit = "week"  -> addDays(schedule.startDate, step * 7)
      [] schedule.unit = "month" -> addMonths(schedule.startDate, step)
      [] schedule.unit = "year"  -> addMonths(schedule.startDate, step * 12)

withinLimits(schedule, index, date) ==
    /\ schedule.maxOccurrences = Unlimited \/ index < schedule.maxOccurrences
    /\ schedule.endDate = NoDate \/ date <= schedule.endDate

\* Mutant: the last occurrence created is created again.
NotBefore(date, after) == after # NoDate /\ date < after
Passed(date, after) == after # NoDate /\ date <= after

\* The rounds of the loop of occurrencesUpTo from an index on.
DueFrom(schedule, asOf, after) ==
    LET Due[index \in 0 .. MAX_SCAN] ==
            LET date == occurrenceAt(schedule, index) IN
            IF index = MAX_SCAN \/ date > asOf \/ ~withinLimits(schedule, index, date)
            THEN <<>>
            ELSE IF Passed(date, after) \/ date \in schedule.skipped
            THEN Due[index + 1]
            ELSE <<date>> \o Due[index + 1]
    IN  Due
Scan(schedule, asOf, limit, after) ==
    LET dates == DueFrom(schedule, asOf, after)[0]
    IN  SubSeq(dates, 1, Least(limit, Len(dates)))

occurrencesUpTo(schedule, asOf, limit, after) ==
    IF schedule.interval < 1 \/ limit < 1 THEN <<>>
    ELSE Scan(schedule, asOf, limit, after)

\* Mutant: a skipped day is announced.
Ahead(schedule, date, asOf) == date > asOf
Upcoming(schedule, date, asOf) == date > asOf /\ date \notin schedule.skipped

nextOccurrence(schedule, asOf) ==
    LET From[index \in 0 .. MAX_OCCURRENCES_PER_RUN] ==
            LET date == occurrenceAt(schedule, index) IN
            IF index = MAX_OCCURRENCES_PER_RUN \/ ~withinLimits(schedule, index, date)
            THEN NoDate
            ELSE IF Upcoming(schedule, date, asOf) THEN date
            ELSE From[index + 1]
    IN  IF schedule.interval < 1 THEN NoDate ELSE From[0]

\* The next count occurrences, for the editor and the list of rules.
preview(schedule, count, cursor) ==
    LET From[n \in 0 .. count, after \in {cursor} \cup
                {occurrenceAt(schedule, i) : i \in 0 .. MAX_OCCURRENCES_PER_RUN - 1}] ==
            LET next == nextOccurrence(schedule, after) IN
            IF n = 0 \/ next = NoDate THEN <<>> ELSE <<next>> \o From[n - 1, next]
    IN  From[count, cursor]

ValidRule(rule) ==
    /\ rule.amount > 0
    /\ rule.interval >= 1
    /\ rule.endDate # NoDate => rule.endDate >= rule.startDate
    /\ rule.maxOccurrences # Unlimited => rule.maxOccurrences >= 1
    /\ rule.kind = "transfer" =>
        rule.counterAccountId \notin {"", rule.accountId}
=============================================================================
