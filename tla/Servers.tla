------------------------------ MODULE Servers ------------------------------
(***************************************************************************)
(* rpcserver.go and httpserver.go beside the poller: QueryAssetRates, a    *)
(* call of which reads latest once for the subject and, unless it pays in  *)
(* BTC, once more for the payment asset, and the three kinds of price      *)
(* lookups over HTTP; with the requests tassandra-cli makes of both.       *)
(*                                                                         *)
(* A reading of latest (under mu) is a step, and so is a query of the      *)
(* store.  The expiry of a rate is in PollTiming.                          *)
(***************************************************************************)
EXTENDS Oracle, Config

CONSTANTS
    AssetSections,      \* what [Asset] may say when the daemon starts
    RateRequests,       \* the requests made of QueryAssetRates
    HttpRequests,       \* the requests made of the HTTP server
    SecondsPerMinute,
    NoDate,             \* no date parameter
    NotADate,           \* a date parameter that is not an integer
    NoExchange          \* no exchange parameter

ASSUME ServersAssumption ==
    /\ Word = 2 * HalfWord
    /\ SecondsPerMinute \in Nat \ {0}
    /\ NotADate \notin Nat
    /\ NoExchange \notin Exchanges
    /\ \A lines \in AssetSections : lines \in Seq(Range(lines))

VARIABLES
    assets,     \* RpcServer.assets
    call,       \* the call of QueryAssetRates in flight
    reply,      \* what the last call returned
    told        \* currency -> newest minute a client was told as current

serverVars == <<assets, call, reply, told>>
allVars    == <<vars, serverVars>>

Never    == -1
Idle     == [step |-> "idle"]
NoAssets == [id \in {} |-> 0]

ServersInit ==
    /\ Init
    /\ assets = NoAssets
    /\ call = Idle
    /\ reply = Idle
    /\ told = [c \in Currencies |-> Never]

\* What has been told once the prices S, <<currency, minute>> each, are too.
Telling(S) ==
    [c \in Currencies |-> Max({told[c]} \cup {p[2] : p \in {q \in S : q[1] = c}})]

-----------------------------------------------------------------------------
(***************************************************************************)
(* QueryAssetRates.  A specifier has a kind: nil, unset (no variant of the *)
(* oneof), or one of four variants with an ID.                             *)
(***************************************************************************)
Specifier(kind, id) == [kind |-> kind, id |-> id]

NilSpecifier == Specifier("nil", Written(NoName, FALSE))

IdKinds  == {"AssetId", "AssetIdStr"}
KeyKinds == {"GroupKey", "GroupKeyStr"}

\* The IDs without a byte, or a digit, other than zero.
ZeroIDs == {NoName, "00"}

\* Where assetSpecifierToHex returns no error.
IsSpecified(spec) == spec.kind \in IdKinds \cup KeyKinds

\* Bytes are encoded, and strings folded, to lowercase.
assetSpecifierToHex(spec) == Folded(spec.id)

\* Mutant: a group key of zeros is BTC too.
ZeroWhateverKind(spec) ==
    spec.kind = "nil" \/ (IsSpecified(spec) /\ Folded(spec.id) \in ZeroIDs)

\* A payment in BTC.
isZeroAsset(spec) ==
    spec.kind = "nil" \/ (spec.kind \in IdKinds /\ Folded(spec.id) \in ZeroIDs)

IsConfigured(spec) ==
    IsSpecified(spec) /\ assetSpecifierToHex(spec) \in DOMAIN assets

AssetOf(spec) == assets[assetSpecifierToHex(spec)]

HasPrice(spec) == IsConfigured(spec) /\ AssetOf(spec).Currency \in DOMAIN latest

FixedPoint(coefficient, scale) == [Coefficient |-> coefficient, Scale |-> scale]

\* Millisatoshis of a bitcoin: of any scale the word has here.
BtcPaymentRate == FixedPoint(100000, 0)

AssetRate(spec, price) ==
    FixedPoint(applyMarkup(price.Value, AssetOf(spec).MarkupPPM,
                           AssetOf(spec).DecimalDisplay), Decimals)

\* The server hands a request to its handler.
QueryAssetRates(req) ==
    /\ daemon = "serving"
    /\ call = Idle
    /\ call' = [step |-> "subject", req |-> req, told |-> told]
    /\ UNCHANGED <<vars, assets, reply, told>>

errorResponse(code) ==
    /\ call' = Idle
    /\ reply' = [code |-> code]
    /\ UNCHANGED <<vars, assets, told>>

SubjectFails ==
    /\ call.step = "subject"
    /\ LET spec == call.req.subject
       IN  /\ ~HasPrice(spec)
           /\ errorResponse(IF IsSpecified(spec) /\ ~IsConfigured(spec)
                            THEN "UNSUPPORTED_ASSET" ELSE "UNSPECIFIED")

\* Mutant: whether LatestPrice found a price is not checked.
ReadSubjectUnchecked ==
    /\ call.step = "subject"
    /\ LET spec == call.req.subject
       IN  /\ IsConfigured(spec)
           /\ call' = [step |-> "payment", req |-> call.req, told |-> call.told,
                       stored |-> IF HasPrice(spec)
                                  THEN latest[AssetOf(spec).Currency] ELSE NoStored]
    /\ UNCHANGED <<vars, assets, reply, told>>

\* The first LatestPrice.
ReadSubject ==
    /\ call.step = "subject"
    /\ LET spec == call.req.subject
       IN  /\ HasPrice(spec)
           /\ call' = [step |-> "payment", req |-> call.req, told |-> call.told,
                       stored |-> latest[AssetOf(spec).Currency]]
    /\ UNCHANGED <<vars, assets, reply, told>>

PaymentFails ==
    /\ call.step = "payment"
    /\ LET spec == call.req.payment
       IN  ~isZeroAsset(spec) /\ ~HasPrice(spec)
    /\ errorResponse("UNSPECIFIED")

Rates(subjectRate, paymentRate) ==
    [code |-> "OK", SubjectAssetRate |-> subjectRate,
     PaymentAssetRate |-> paymentRate]

SubjectPrice == <<AssetOf(call.req.subject).Currency, call.stored.MinuteTS>>

PayInBtc ==
    /\ call.step = "payment"
    /\ isZeroAsset(call.req.payment)
    /\ call' = Idle
    /\ reply' = Rates(AssetRate(call.req.subject, call.stored), BtcPaymentRate)
    /\ told' = Telling({SubjectPrice})
    /\ UNCHANGED <<vars, assets>>

\* The second LatestPrice.
PayInAsset ==
    /\ call.step = "payment"
    /\ ~isZeroAsset(call.req.payment)
    /\ HasPrice(call.req.payment)
    /\ LET spec == call.req.payment
           paid == AssetOf(spec).Currency
       IN  /\ reply' = Rates(AssetRate(call.req.subject, call.stored),
                             AssetRate(spec, latest[paid]))
           /\ told' = Telling({SubjectPrice, <<paid, latest[paid].MinuteTS>>})
    /\ call' = Idle
    /\ UNCHANGED <<vars, assets>>

RpcStep ==
    \/ \E req \in RateRequests : QueryAssetRates(req)
    \/ SubjectFails \/ ReadSubject
    \/ PaymentFails \/ PayInBtc \/ PayInAsset

-----------------------------------------------------------------------------
(***************************************************************************)
(* GET /price/{currency}                                                   *)
(***************************************************************************)
ErrorStatus(status) == [status |-> status]

PriceResponse(price) ==
    [status |-> 200, Price |-> FormatPrice(price.Value), Timestamp |-> price.MinuteTS]

\* Mutant: the current price is looked up in the store.
CurrentFromStore(c) ==
    LET price == LatestAggregatedPrice(c)
    IN  IF price.found THEN PriceResponse(price) ELSE ErrorStatus(503)

handleCurrentPrice(c) ==
    IF c \in DOMAIN latest THEN PriceResponse(latest[c]) ELSE ErrorStatus(503)

\* The answer to what a query of the store found.  A query may fail for
\* other reasons than a closed store, with the same answer.
FromStore(price) ==
    IF ~open THEN ErrorStatus(500)
    ELSE IF price.found THEN PriceResponse(price) ELSE ErrorStatus(404)

handleLatestExchangePrice(c, exchange) == FromStore(LatestExchangePrice(c, exchange))

\* Mutant: rounded to the nearest minute.
NearestMinute(date) == (date + SecondsPerMinute \div 2) \div SecondsPerMinute

\* Truncate(time.Minute)
MinuteOf(date) == date \div SecondsPerMinute

handleHistoricalPrice(c, exchange, date) ==
    IF date = NotADate THEN ErrorStatus(400)
    ELSE IF exchange = NoExchange THEN FromStore(AggregatedPriceAt(c, MinuteOf(date)))
    ELSE FromStore(ExchangePriceAt(c, exchange, MinuteOf(date)))

HttpRequest(fiat, date, exchange) ==
    [currency |-> fiat, date |-> date, exchange |-> exchange]

handlePrice(r) ==
    LET c == Folded(r.currency)
    IN  IF r.date # NoDate THEN handleHistoricalPrice(c, r.exchange, r.date)
        ELSE IF r.exchange # NoExchange THEN handleLatestExchangePrice(c, r.exchange)
        ELSE handleCurrentPrice(c)

\* The HTTP server is up until run returns, whether or not it was shut down
\* in time.  A handler makes one reading, so it is one step.
Get(r) ==
    /\ daemon \in {"serving", "stopping", "closed"}
    /\ LET response == handlePrice(r)
       IN  told' = IF r.date = NoDate /\ r.exchange = NoExchange /\ response.status = 200
                   THEN Telling({<<Folded(r.currency), response.Timestamp>>}) ELSE told
    /\ UNCHANGED <<vars, assets, call, reply>>

-----------------------------------------------------------------------------
(***************************************************************************)
(* What tassandra-cli asks of the two.                                     *)
(***************************************************************************)

\* A date of 0 asks for the current price; an exchange needs a date, though
\* the server would answer with its latest price.
getprice(fiat, date, exchange) ==
    IF exchange # NoExchange /\ date = 0 THEN {}
    ELSE {HttpRequest(fiat, IF date = 0 THEN NoDate ELSE date, exchange)}

\* No payment asset is BTC.  The transaction type, which must be one of two,
\* is sent and ignored by the server.
parseTxType(type) == type \in {"purchase", "sale", ""}

getrate(asset, payment, type) ==
    IF ~parseTxType(type) THEN {}
    ELSE {[subject |-> Specifier("AssetIdStr", asset),
           payment |-> IF Folded(payment) = NoName THEN NilSpecifier
                       ELSE Specifier("AssetIdStr", payment)]}

-----------------------------------------------------------------------------
(***************************************************************************)
(* The daemon with its servers.  It does not start on an [Asset] section   *)
(* with a line that does not parse.  GracefulStop, deferred after Stop and *)
(* so run before it, waits for the call in flight.                         *)
(***************************************************************************)
StartWithServers ==
    \E lines \in AssetSections :
        /\ AssetsAccepted(lines)
        /\ Start
        /\ assets' = NewRpcServer(assetConfigs(lines))
        /\ UNCHANGED <<call, reply, told>>

GracefulStop == call = Idle /\ Stop /\ UNCHANGED serverVars

ServersGone ==
    /\ Exit \/ Crash
    /\ assets' = NoAssets
    /\ call' = Idle
    /\ UNCHANGED <<reply, told>>

OracleStep ==
    \/ StopReturns \/ LoopStep \/ FetchStep \/ PollStep
    \/ TickerFires \/ ClockTurns \/ UserStep

ServersNext ==
    \/ StartWithServers \/ GracefulStop \/ ServersGone
    \/ OracleStep /\ UNCHANGED serverVars
    \/ RpcStep
    \/ \E r \in HttpRequests : Get(r)

ServersSpec == ServersInit /\ [][ServersNext]_allVars

-----------------------------------------------------------------------------
(***************************************************************************)
(* The types of what the servers hold.  A call that goes on to the payment *)
(* asset holds a price, and its subject is an asset with a current one:    *)
(* no poll, restart or other call takes it away (rpcserver.go:77-94).      *)
(***************************************************************************)
ServersTypeOK ==
    /\ told \in [Currencies -> Minutes \cup {Never}]
    /\ call.step \in {"idle", "subject", "payment"}
    /\ call # Idle =>
          call.req \in RateRequests /\ call.told \in [Currencies -> Minutes \cup {Never}]
    /\ call.step = "payment" => HasPrice(call.req.subject) /\ call.stored \in Stored

(***************************************************************************)
(* The current price never goes back in time, for anybody: a call of       *)
(* QueryAssetRates or of GET /price that starts after somebody was told    *)
(* the price of some minute answers with that minute or a later one,       *)
(* across restarts and with the two readings of one call in between.  And  *)
(* of a call with two assets in one currency the payment rate is never the *)
(* older (rpcserver.go:87, 160; httpserver.go:124).                        *)
(***************************************************************************)
AnswersNeverGoBack ==
    /\ \A c \in DOMAIN latest : told[c] <= latest[c].MinuteTS
    /\ call.step = "payment" =>
          LET c == AssetOf(call.req.subject).Currency
          IN  /\ call.told[c] <= call.stored.MinuteTS
              /\ call.stored.MinuteTS <= latest[c].MinuteTS

(***************************************************************************)
(* What was told as current is on record: while the store is open a lookup *)
(* of any date from that minute on finds a price, of that minute or a      *)
(* later one but not of a minute after the date; and the latest price of   *)
(* an exchange is the one found under any second of its minute             *)
(* (httpserver.go:140-228).                                                *)
(***************************************************************************)
PricesToldAreOnRecord ==
    open =>
        /\ \A c \in Currencies, m \in Minutes, s \in 0 .. SecondsPerMinute - 1 :
              told[c] # Never /\ told[c] <= m =>
                  LET answer == handleHistoricalPrice(c, NoExchange,
                                                      m * SecondsPerMinute + s)
                  IN  /\ answer.status = 200
                      /\ told[c] <= answer.Timestamp /\ answer.Timestamp <= m
        /\ \A c \in Currencies, f \in Feeds, s \in 0 .. SecondsPerMinute - 1 :
              LET last == handleLatestExchangePrice(c, f)
              IN  last.status = 200 =>
                      last = handleHistoricalPrice(c, f,
                                 last.Timestamp * SecondsPerMinute + s)

(***************************************************************************)
(* What a line of the configuration says of an asset, without the table:   *)
(* the last line with the ID, in whatever case it is written or asked for. *)
(***************************************************************************)
RateByLine(line, price, rate) ==
    LET unit == Pow10[IF line.parts = 4 THEN line.decimals ELSE 0]
    IN  /\ rate.Scale = Decimals
        /\ rate.Coefficient % unit = 0
        /\ Million + line.markup < Word =>
              RaisedTo(price.Value, line.markup, rate.Coefficient \div unit)

LastLine(lines, spec) ==
    lines[Max({i \in DOMAIN lines : lines[i].id.name = spec.id.name})]

(***************************************************************************)
(* The rates of an answer are those of some accepted [Asset] section: the  *)
(* price read for the subject's own currency raised by its own markup and  *)
(* display scale, and likewise for the payment asset, or the rate of BTC   *)
(* where the payment is none or an ID of zeros; a group key of zeros is an *)
(* asset like any other (rpcserver.go:47, 76-112, 138-174, 239).  A markup *)
(* whose factor wraps (:193) is in MarkupCoversPrice of MCMedian.          *)
(***************************************************************************)
RatesFollowConfig ==
    [][call.step = "payment" /\ call' = Idle /\ daemon' = daemon /\ reply'.code = "OK" =>
          \E lines \in AssetSections :
              LET subject == call.req.subject
                  payment == call.req.payment
                  line    == LastLine(lines, payment)
              IN  /\ AssetsAccepted(lines)
                  /\ RateByLine(LastLine(lines, subject), call.stored,
                                reply'.SubjectAssetRate)
                  /\ IF \/ payment.kind = "nil"
                        \/ payment.kind \notin KeyKinds /\ payment.id.name \in ZeroIDs
                     THEN reply'.PaymentAssetRate = BtcPaymentRate
                     ELSE RateByLine(line, latest[line.currency.name],
                                     reply'.PaymentAssetRate)
      ]_allVars
=============================================================================
