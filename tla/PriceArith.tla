----------------------------- MODULE PriceArith -----------------------------
(***************************************************************************)
(* The arithmetic a price goes through: from the text of an exchange to a  *)
(* scaled uint64 (pricefeed/interface.go), from there to the text of the   *)
(* HTTP server (httpserver.go), to the coefficient of a rate with markup   *)
(* (rpcserver.go) and to the text tassandra-cli shows for it.              *)
(*                                                                         *)
(* A decimal text "i.f" is its two numbers and how many digits follow the  *)
(* point; numeric is FALSE for any text that is not of this form as far as *)
(* it is read (what follows the first Decimals places is not).             *)
(***************************************************************************)
EXTENDS Integers

CONSTANTS
    Decimals,   \* the decimal places of a stored price
    Word,       \* a uint64 is one of 0 .. Word - 1
    Million     \* what parts per million are parts of

\* 10^n, as a function that can be reasoned about.
Pow10[n \in Nat] == IF n = 0 THEN 1 ELSE 10 * Pow10[n - 1]

PriceScale == Pow10[Decimals]

ASSUME ArithAssumption ==
    /\ Decimals \in Nat
    /\ Million \in Nat \ {0}
    /\ Word \in Nat
    /\ PriceScale <= Word
    /\ Million <= Word

Uint == 0 .. Word - 1

Wrap(n) == n % Word

Text(i, f, n) == [numeric |-> TRUE, int |-> i, frac |-> f, places |-> n]
NotNumeric    == [numeric |-> FALSE, int |-> 0, frac |-> 0, places |-> 0]

\* What the digits of a text say, without scale, width or truncation: the
\* text stands for Digits / 10^places.
Digits(s) == s.int * Pow10[s.places] + s.frac

-----------------------------------------------------------------------------
\* Mutant: the fraction is cut to its digits but never padded.
UnpaddedFraction(f, n) == IF n > Decimals THEN f \div Pow10[n - Decimals] ELSE f

\* n digits of fraction, truncated or padded with zeros to Decimals.
Fraction(f, n) ==
    IF n > Decimals THEN f \div Pow10[n - Decimals] ELSE f * Pow10[Decimals - n]

ParseError == [ok |-> FALSE, Value |-> 0]

(***************************************************************************)
(* The integer part must fit a uint64; its product with PriceScale, and    *)
(* the sum with the fraction, wrap without notice.                         *)
(***************************************************************************)
parsePriceString(s) ==
    IF s.numeric /\ s.int \in Uint
    THEN [ok |-> TRUE,
          Value |-> Wrap(Wrap(s.int * PriceScale) + Fraction(s.frac, s.places))]
    ELSE ParseError

\* Mutant: "%d.%d", the fraction without its leading zeros.
FormatUnpadded(v) ==
    LET frac == v % PriceScale
    IN  Text(v \div PriceScale, frac,
             CHOOSE n \in 0..Decimals : frac < Pow10[n] /\ (n = 0 \/ Pow10[n - 1] <= frac))

FormatPrice(v) == Text(v \div PriceScale, v % PriceScale, Decimals)

\* 1_000_000 + markupPPM is computed in uint64.
MarkupFactor(markupPPM) == Wrap(Million + markupPPM)

\* Mutant: the division comes before the multiplication.
DividedFirst(value, markupPPM) ==
    IF markupPPM = 0 THEN value ELSE (value \div Million) * MarkupFactor(markupPPM)

Marked(value, markupPPM) ==
    IF markupPPM = 0 THEN value ELSE (value * MarkupFactor(markupPPM)) \div Million

\* Of big integers: nothing else wraps.
applyMarkup(value, markupPPM, decimalDisplay) ==
    Marked(value, markupPPM) * Pow10[decimalDisplay]

\* tassandra-cli: the fraction has scale digits; without a scale, no point.
fixedPointToDecimal(coefficient, scale) ==
    Text(coefficient \div Pow10[scale], coefficient % Pow10[scale], scale)

-----------------------------------------------------------------------------
(***************************************************************************)
(* The references.                                                         *)
(***************************************************************************)

\* v is the price the text stands for in units of 1 / PriceScale, cut off.
TruncatesTo(s, v) ==
    /\ v * Pow10[s.places] <= Digits(s) * PriceScale
    /\ Digits(s) * PriceScale < (v + 1) * Pow10[s.places]

\* r is the price raised by markupPPM parts per million, cut off.
RaisedTo(value, markupPPM, r) ==
    /\ r * Million <= value * (Million + markupPPM)
    /\ value * (Million + markupPPM) < (r + 1) * Million
=============================================================================
