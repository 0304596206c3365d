------------------------------ MODULE MCMedian ------------------------------
(***************************************************************************)
(* Adapters, arithmetic and Median together: the answers of the exchanges  *)
(* arrive one by one, and the aggregate of the quotes among them so far is *)
(* compared with the reference after each.                                 *)
(***************************************************************************)
EXTENDS Median, Feeds, Sequences

CONSTANTS
    Texts,              \* what an exchange may say its price is
    MarkupsPPM,         \* the markups of [Asset] lines
    DecimalDisplays,    \* their decimal displays
    MaxLen              \* bound: how many quotes are received

\* The fraction of a text has as many digits as follow its point.
ASSUME QuotesAssumption ==
    /\ Texts \subseteq [numeric : BOOLEAN, int : Nat, frac : Nat, places : Nat]
    /\ \A t \in Texts : t.frac < Pow10[t.places]
    /\ MarkupsPPM \subseteq Uint
    /\ DecimalDisplays \subseteq Nat

VARIABLES
    quotes,     \* the quotes received: prices of pollCurrency
    heard       \* the exchange heard last, and what it answered

heardVars == <<quotes, heard>>

(***************************************************************************)
(* For TLC: 0, 0.019 to be cut, 0.3 to be padded, integer parts whose sum  *)
(* with the fraction (2.57) or whose product (3.01) does not fit the word, *)
(* one that does not fit itself, and no number at all.                     *)
(***************************************************************************)
MCTexts ==
    {Text(0, 0, 0), Text(0, 19, 3), Text(0, 3, 1), Text(2, 57, 2),
     Text(3, 1, 2), Text(Word, 0, 0), NotNumeric}

Answers ==
    [status : {NoAnswer, OK, BadRequest, NotFound, 500}, decodes : BOOLEAN,
     errors : BOOLEAN, result : KrakenResults, price : Texts]

\* Only Kraken's body has the two extra fields, and only a body that decodes
\* has any.
MayAnswer(e, a) ==
    /\ e # "kraken" \/ ~a.decodes => ~a.errors /\ a.result = "last trade"
    /\ a.status = NoAnswer => ~a.decodes
    /\ ~a.decodes => a.price = NotNumeric

HeardInit ==
    /\ quotes = <<>>
    /\ heard = [from |-> "kraken", reply |-> CHOOSE a \in Answers : a.status = NoAnswer]

\* The loop of pollCurrency: a result is received, and kept if it is a price.
Arrive(e, a) ==
    LET r == FetchPrice(e, a)
    IN  /\ heard' = [from |-> e, reply |-> a]
        /\ quotes' = IF r.is = "price" THEN Append(quotes, r.Value) ELSE quotes

HeardNext ==
    \E e \in Exchange, a \in Answers :
        Len(quotes) < MaxLen /\ MayAnswer(e, a) /\ Arrive(e, a)

HeardSpec == HeardInit /\ [][HeardNext]_heardVars

\* The last answer is looked at in the step that receives it only.
QuotesOnly == quotes

(***************************************************************************)
(* The aggregate is the lower middle value counted by rank, for odd and    *)
(* even numbers of quotes and in the presence of ties.                     *)
(***************************************************************************)
IsLowerMiddle ==
    quotes # <<>> => IsRanked(quotes, LowerMiddle(Len(quotes)), median(quotes))

(***************************************************************************)
(* "Resistant to single-exchange outliers" (README.md:21): no minority of  *)
(* the quotes can pull the aggregate out of the range of the others.       *)
(***************************************************************************)
OutlierResisted == quotes # <<>> => ResistsMinority(quotes, median(quotes))

(***************************************************************************)
(* A feed that drops out of a cycle or comes back moves the aggregate by   *)
(* one rank at most: no quote of the others lies strictly between the      *)
(* aggregate without it and the aggregate with it.                         *)
(***************************************************************************)
MovesOneRank ==
    [][quotes # <<>> /\ quotes' # quotes =>
          LET before == median(quotes)
              after  == median(quotes')
          IN  \A i \in DOMAIN quotes :
                 ~ \/ before < quotes[i] /\ quotes[i] < after
                   \/ after < quotes[i] /\ quotes[i] < before
      ]_quotes

(***************************************************************************)
(* Nothing but a price an exchange reported counts as a quote, and nothing *)
(* it reported is lost: an error answer never smuggles one in, whatever    *)
(* its body says, and what counts is the reported price cut to the stored  *)
(* places.  Only an integer part past Word / PriceScale wraps into another *)
(* price (pricefeed/interface.go:75), and a price of zero counts (:98).    *)
(***************************************************************************)
QuotesAreReported ==
    [][LET a == heard'.reply
       IN  /\ quotes' # quotes <=>
                 Reports(heard'.from, a) /\ a.price.int \in Uint
           /\ quotes' # quotes =>
                 LET v == quotes'[Len(quotes')]
                 IN  \/ TruncatesTo(a.price, v)
                     \/ /\ (a.price.int + 1) * PriceScale > Word
                        /\ \E n \in 1..Word : TruncatesTo(a.price, v + n * Word)
      ]_heardVars

(***************************************************************************)
(* A price comes back out as it was stored: parsing what the HTTP server   *)
(* formats returns it (httpserver.go:232), and the rate tassandra-cli      *)
(* shows has the coefficient's digits (tassandra-cli/main.go:325).         *)
(***************************************************************************)
PricesShownExactly ==
    \A i \in DOMAIN quotes :
        /\ parsePriceString(FormatPrice(quotes[i])) = [ok |-> TRUE, Value |-> quotes[i]]
        /\ \A scale \in {0, Decimals} :
              LET shown == fixedPointToDecimal(quotes[i], scale)
              IN  Digits(shown) = quotes[i] /\ shown.frac < Pow10[shown.places]

(***************************************************************************)
(* A rate is the price raised by the markup and cut, never below the price *)
(* and in the order of the prices, as long as 1_000_000 + markupPPM fits   *)
(* its uint64 (rpcserver.go:193); past that the factor wraps and a rate is *)
(* never above the price.                                                  *)
(***************************************************************************)
MarkupCoversPrice ==
    \A i, j \in DOMAIN quotes, ppm \in MarkupsPPM, dd \in DecimalDisplays :
        LET rate(v) == applyMarkup(v, ppm, dd)
            unit    == Pow10[dd]
        IN  IF Million + ppm < Word
            THEN /\ RaisedTo(quotes[i], ppm, rate(quotes[i]) \div unit)
                 /\ rate(quotes[i]) % unit = 0
                 /\ quotes[i] * unit <= rate(quotes[i])
                 /\ quotes[i] <= quotes[j] => rate(quotes[i]) <= rate(quotes[j])
            ELSE rate(quotes[i]) <= quotes[i] * unit
=============================================================================
