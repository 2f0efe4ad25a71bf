------------------------------- MODULE Money --------------------------------
(***************************************************************************)
(* Amounts, as integers of a currency's minor unit, and conversion.  A     *)
(* currency is its code up to case; a rate is a fraction (the code's       *)
(* doubles, snapped to nine decimals before they are rounded, stand for    *)
(* one); the text of an amount is its sign and its digits.                 *)
(***************************************************************************)
EXTENDS Absent, Integers, Sequences, FiniteSets, FiniteSetsExt

CONSTANT MAX_SAFE_INTEGER   \* parseAmount refuses anything above
ASSUME SafeAssumption == MAX_SAFE_INTEGER \in Nat

CurrencyCodes == {"USD", "JPY", "KWD"}      \* one of each number of decimals
minorUnitExponent(currency) ==
    CASE currency = "JPY" -> 0 [] currency = "KWD" -> 3 [] OTHER -> 2

NoRate == [num |-> 0, den |-> 1]
Thrown == "thrown"          \* no amount: the computation ends in an exception
Abs(n) == IF n < 0 THEN -n ELSE n

(***************************************************************************)
(* The form's text field and back.                                         *)
(***************************************************************************)
DigitsOf(n, width) == [i \in 1 .. width |-> (n \div 10^(width - i)) % 10]
ValueOf(digits) ==
    LET Upto[i \in 0 .. Len(digits)] ==
            IF i = 0 THEN 0 ELSE 10 * Upto[i - 1] + digits[i]
    IN  Upto[Len(digits)]

parseAmount(text, currency) ==
    LET exponent == minorUnitExponent(currency)
        fraction == [i \in 1 .. exponent |->
                        IF i <= Len(text.fraction) THEN text.fraction[i] ELSE 0]
        value == text.whole * 10^exponent + ValueOf(fraction)
    IN  IF value > MAX_SAFE_INTEGER THEN Null
        ELSE IF text.negative THEN -value ELSE value

formatAmount(amount, currency) ==
    LET exponent == minorUnitExponent(currency) IN
    [negative |-> amount < 0,
     whole |-> Abs(amount) \div 10^exponent,
     fraction |-> DigitsOf(Abs(amount) % 10^exponent, exponent)]

signedFor(accountId, txn) ==
    CASE txn.kind = "income"  -> IF txn.accountId = accountId THEN txn.amount ELSE 0
      [] txn.kind = "expense" -> IF txn.accountId = accountId THEN -txn.amount ELSE 0
      [] OTHER -> IF txn.accountId = accountId THEN -txn.amount
                  ELSE IF txn.counterAccountId = accountId THEN txn.amount ELSE 0

(***************************************************************************)
(* Conversion.                                                             *)
(***************************************************************************)
roundHalfAwayFromZero(num, den) ==
    LET up == (2 * Abs(num) + den) \div (2 * den) IN IF num < 0 THEN -up ELSE up

convert(amount, rate, from, to) ==
    LET scale == minorUnitExponent(to) - minorUnitExponent(from) IN
    IF rate.num <= 0 THEN Thrown
    ELSE IF from = to THEN amount
    ELSE IF scale >= 0
    THEN roundHalfAwayFromZero(amount * rate.num * 10^scale, rate.den)
    ELSE roundHalfAwayFromZero(amount * rate.num, rate.den * 10^(-scale))

inReporting(txn, reporting) ==
    IF txn.currency = reporting THEN txn.amount
    ELSE IF txn.rate = NoRate THEN Null
    ELSE convert(txn.amount, txn.rate, txn.currency, reporting)

Convertible(txns, reporting) == {t \in txns : inReporting(t, reporting) # Null}

sumInReporting(txns, reporting) ==
    [total |-> SumFunction([t \in Convertible(txns, reporting) |-> inReporting(t, reporting)]),
     unconverted |-> Cardinality(txns \ Convertible(txns, reporting))]

invertRate(rate) == IF rate.num <= 0 THEN Thrown ELSE [num |-> rate.den, den |-> rate.num]

\* The quote for the day, or the most recent one before it.
rateFor(rates, base, quote, date) ==
    LET held == {r \in rates : r.base = base /\ r.quote = quote /\ r.date <= date} IN
    IF base = quote \/ held = {} THEN NoRate
    ELSE (CHOOSE r \in held : \A other \in held : other.date <= r.date).rate

rateToReporting(rates, base, reporting, date) ==
    LET direct == rateFor(rates, base, reporting, date)
        reverse == rateFor(rates, reporting, base, date)
    IN  IF base = reporting THEN [num |-> 1, den |-> 1]
        ELSE IF direct # NoRate THEN direct
        ELSE IF reverse # NoRate THEN invertRate(reverse)
        ELSE NoRate
=============================================================================
