------------------------------- MODULE Feeds -------------------------------
(***************************************************************************)
(* pricefeed/: the adapters of the four exchanges.  Each turns what came   *)
(* of one HTTP request into a price, into ErrCurrencyNotSupported or into  *)
(* another error.                                                          *)
(*                                                                         *)
(* An answer is a record: the status, 0 when the request failed or its     *)
(* context expired; whether the body decodes; for Kraken also its list of  *)
(* errors and what its result map holds; and the text of the price, which  *)
(* is empty, and so not numeric, when the field is missing.                *)
(***************************************************************************)
EXTENDS PriceArith

Exchange == {"kraken", "binance", "coinbase", "bitstamp"}

NoAnswer   == 0
OK         == 200
BadRequest == 400
NotFound   == 404

KrakenResults == {"empty", "no last trade", "last trade"}

ErrCurrencyNotSupported == [is |-> "unsupported", Value |-> 0]
FetchError              == [is |-> "error", Value |-> 0]

Quoted(text) ==
    LET p == parsePriceString(text)
    IN  IF p.ok THEN [is |-> "price", Value |-> p.Value] ELSE FetchError

\* Mutant: the body is read whatever the status.
SpotPriceUnchecked(a, unknownPair) ==
    IF a.status = unknownPair THEN ErrCurrencyNotSupported
    ELSE IF a.status = NoAnswer \/ ~a.decodes THEN FetchError
    ELSE Quoted(a.price)

\* Three of the four differ in the status that means an unknown pair only.
SpotPrice(a, unknownPair) ==
    IF a.status = unknownPair THEN ErrCurrencyNotSupported
    ELSE IF a.status # OK \/ ~a.decodes THEN FetchError
    ELSE Quoted(a.price)

binanceFetchPrice(a)  == SpotPrice(a, BadRequest)
coinbaseFetchPrice(a) == SpotPrice(a, NotFound)
bitstampFetchPrice(a) == SpotPrice(a, NotFound)

\* Kraken answers 200 to an unknown pair, with a list of errors: an error
\* like any other here, unlike an empty result.
krakenFetchPrice(a) ==
    IF a.status # OK \/ ~a.decodes \/ a.errors THEN FetchError
    ELSE IF a.result = "empty" THEN ErrCurrencyNotSupported
    ELSE IF a.result = "no last trade" THEN FetchError
    ELSE Quoted(a.price)

FetchPrice(e, a) ==
    CASE e = "kraken"   -> krakenFetchPrice(a)
      [] e = "binance"  -> binanceFetchPrice(a)
      [] e = "coinbase" -> coinbaseFetchPrice(a)
      [] e = "bitstamp" -> bitstampFetchPrice(a)

-----------------------------------------------------------------------------
\* The exchange itself says that this is its price.
Reports(e, a) ==
    /\ a.status = OK
    /\ a.decodes
    /\ a.price.numeric
    /\ e = "kraken" => ~a.errors /\ a.result = "last trade"
=============================================================================
