--------------------------- MODULE ServersProofs ---------------------------
(***************************************************************************)
(* What clients are told, for any number of feeds, currencies, assets and  *)
(* requests.  The servers only read what the poller writes, so all that is *)
(* proved of Oracle holds beside them (ServersLeaveOracle).  The rates are *)
(* those of the configuration by the arithmetic of QuoteProofs.            *)
(***************************************************************************)
EXTENDS Servers, OracleProofs, QuoteProofs

-----------------------------------------------------------------------------
(***************************************************************************)
(* Steps of the poller.                                                    *)
(***************************************************************************)

\* Whatever the servers do is a step of Oracle or none at all.
LEMMA NextOfOracle == [ServersNext]_allVars => [Next]_vars
BY DEF ServersNext, allVars, StartWithServers, GracefulStop, ServersGone,
       OracleStep, RpcStep, QueryAssetRates, errorResponse, SubjectFails,
       ReadSubject, PaymentFails, PayInBtc, PayInAsset, Get, Next, DaemonStep

\* The INSERT of the aggregate, its publication and the end of the process: no
\* other step writes aggregated_prices or latest.
LEMMA PriceSteps ==
    [Next]_vars =>
        \/ UNCHANGED <<aggregated_prices, latest>>
        \/ CommitAggregate \/ Publish
        \/ ProcessEnds /\ UNCHANGED aggregated_prices
BY DEF Next, vars, oracleVars, locals, storeVars, DaemonStep, LoopStep, FetchStep,
       PollStep, Start, OpenStore, CloseStore, Stop, StopReturns, Exit, Crash,
       TickerFires, TakeTick, TakeQuit, PollCurrency, PollDone, QuoteArrives,
       FetchFails, NoneObtained, AllReceived, SaveQuote, InsertExchangePrice,
       InsertFails, Aggregate, CommitFails, LeaveCurrency, BroadcastUpdate,
       UserStep, ClockTurns

\* While the servers serve, the steps beside them lose no current price.
LEMMA PricesStayWhileServing ==
    ASSUME OracleStep, daemon = "serving"
    PROVE  daemon' = "serving" /\ DOMAIN latest \subseteq DOMAIN latest'
BY DEF OracleStep, StopReturns, LoopStep, FetchStep, PollStep, TickerFires,
       ClockTurns, UserStep, TakeTick, TakeQuit, PollCurrency, PollDone,
       QuoteArrives, FetchFails, NoneObtained, AllReceived, SaveQuote, Aggregate,
       CommitAggregate, CommitFails, Publish, BroadcastUpdate, LeaveCurrency,
       oracleVars

(***************************************************************************)
(* The price of a minute is settled: it has a row, and the current price,  *)
(* if there is one, is of that minute or a later one.                      *)
(***************************************************************************)
Settled(c, m) ==
    /\ <<c, m>> \in DOMAIN aggregated_prices
    /\ c \in DOMAIN latest => m <= latest[c].MinuteTS

\* No step of the oracle unsettles a price.
LEMMA SettledStays ==
    ASSUME TypeInv, InStep, [Next]_vars, NEW c, NEW m, Settled(c, m)
    PROVE  Settled(c, m)'
<1> USE DEF Settled
<1>1. CASE UNCHANGED <<aggregated_prices, latest>>
  BY <1>1
<1>2. CASE CommitAggregate
  BY <1>2 DEF CommitAggregate, InsertAggregatedPrice, Upsert
<1>3. CASE Publish
  <2>1. /\ aggregated_prices' = aggregated_prices
        /\ latest' = [d \in DOMAIN latest \cup {currency} |->
                         IF d = currency THEN stored ELSE latest[d]]
    BY <1>3 DEF Publish, storeVars
  <2>2. \A k \in DOMAIN aggregated_prices :
            k[1] = currency => k[2] <= stored.MinuteTS
    BY <1>3 DEF Publish, InStep, AfterMedian
  <2>3. CASE c = currency
    <3>1. m <= stored.MinuteTS
      BY <2>2, <2>3
    <3> QED
      BY <2>1, <2>3, <3>1
  <2>4. CASE c # currency
    BY <2>1, <2>4
  <2> QED
    BY <2>3, <2>4
<1>4. CASE ProcessEnds /\ UNCHANGED aggregated_prices
  BY <1>4 DEF ProcessEnds, NoPrices
<1> QED
  BY <1>1, <1>2, <1>3, <1>4, PriceSteps

\* The current price is settled.
LEMMA LatestIsSettled ==
    ASSUME TypeInv, InStep, NEW c \in DOMAIN latest
    PROVE  /\ c \in Currencies
           /\ latest[c] \in Stored /\ latest[c].MinuteTS \in Minutes
           /\ Settled(c, latest[c].MinuteTS)
<1>1. c \in Currencies /\ latest[c] \in Stored
  BY DEF TypeInv, TypeOK, PollerTypeOK
<1>2. latest[c].MinuteTS \in Minutes /\ latest[c].MinuteTS \in Int
  BY <1>1, StoreAssumption DEF Stored
<1>3. <<c, latest[c].MinuteTS>> \in DOMAIN aggregated_prices
  BY DEF InStep
<1> QED
  BY <1>1, <1>2, <1>3 DEF Settled

-----------------------------------------------------------------------------
(***************************************************************************)
(* What has been told.                                                     *)
(***************************************************************************)
Told == Minutes \cup {Never}

\* What is told is a minute or Never, a number either way.
LEMMA ToldIsInt ==
    /\ \A t \in Told : t \in Int /\ t <= t
    /\ \A m \in Minutes : m \in Nat /\ m \in Int
BY OracleAssumption DEF Told, Never

\* Of any set of minutes told there is a newest.
LEMMA LatestTold ==
    ASSUME NEW M \in SUBSET Told, M # {}
    PROVE  Max(M) \in M /\ \A m \in M : m <= Max(M)
<1>1. IsFiniteSet(Told) /\ Told \subseteq Int
  <2>1. Told = -1 .. MaxMinute
    BY OracleAssumption DEF Told, Never
  <2> QED
    BY <2>1, OracleAssumption, FS_Interval
<1>2. M \in SUBSET Int /\ IsFiniteSet(M)
  BY <1>1, FS_Subset
<1> QED
  BY <1>2, GreatestExists

\* Whatever was told is settled.
ToldOK ==
    /\ told \in [Currencies -> Told]
    /\ \A c \in Currencies : told[c] # Never => Settled(c, told[c])

\* Nobody has been told a price newer than the current one.
LEMMA ToldNotAhead ==
    ASSUME TypeInv, InStep, ToldOK, NEW c \in DOMAIN latest
    PROVE  told[c] <= latest[c].MinuteTS
<1>1. c \in Currencies /\ latest[c].MinuteTS \in Nat
  BY LatestIsSettled, ToldIsInt
<1>2. CASE told[c] = Never
  BY <1>1, <1>2 DEF Never
<1>3. CASE told[c] # Never
  BY <1>1, <1>3 DEF ToldOK, Settled
<1> QED
  BY <1>2, <1>3

\* Whoever is told settled prices has been told nothing that is not settled.
LEMMA TellingSettled ==
    ASSUME ToldOK, NEW S,
           \A p \in S : p[2] \in Minutes /\ Settled(p[1], p[2])
    PROVE  /\ Telling(S) \in [Currencies -> Told]
           /\ \A c \in Currencies :
                 /\ told[c] <= Telling(S)[c]
                 /\ Telling(S)[c] # Never => Settled(c, Telling(S)[c])
<1> SUFFICES ASSUME NEW c \in Currencies
             PROVE  /\ Telling(S)[c] \in Told
                    /\ told[c] <= Telling(S)[c]
                    /\ Telling(S)[c] # Never => Settled(c, Telling(S)[c])
  BY DEF Telling
<1> DEFINE M == {told[c]} \cup {p[2] : p \in {q \in S : q[1] = c}}
<1>1. Telling(S)[c] = Max(M)
  BY DEF Telling
<1>2. M \in SUBSET Told /\ M # {} /\ told[c] \in M
  BY DEF ToldOK, Told
<1>3. \A m \in M : m # Never => Settled(c, m)
  BY DEF ToldOK
<1> HIDE DEF M
<1>4. Max(M) \in M /\ \A m \in M : m <= Max(M)
  BY <1>2, LatestTold
<1> QED
  BY <1>1, <1>2, <1>3, <1>4

-----------------------------------------------------------------------------
(***************************************************************************)
(* The call in flight.  What it will be compared with has been told before *)
(* it started, and the price it has read is settled.                       *)
(***************************************************************************)
SubjectCurrency == AssetOf(call.req.subject).Currency

SubjectRead ==
    /\ IsConfigured(call.req.subject)
    /\ SubjectCurrency \in DOMAIN latest \cap Currencies
    /\ call.stored \in Stored
    /\ call.told[SubjectCurrency] <= call.stored.MinuteTS
    /\ Settled(SubjectCurrency, call.stored.MinuteTS)

InFlight ==
    /\ daemon = "serving"
    /\ call.req \in RateRequests
    /\ call.told \in [Currencies -> Told]
    /\ \A c \in Currencies : call.told[c] <= told[c]
    /\ call.step = "subject" \/ (call.step = "payment" /\ SubjectRead)

ServersInv == ToldOK /\ (call = Idle \/ InFlight)

\* Nothing is told and no call is in flight at the start.
LEMMA ServersInitInv == ServersInit => ServersInv
BY DEF ServersInit, ServersInv, ToldOK, Told, Never

\* The poller, the daemon and the clock beside the servers.
LEMMA ToldStays ==
    ASSUME TypeInv, InStep, [Next]_vars, ToldOK, told' = told
    PROVE  ToldOK'
<1>1. \A c \in Currencies : told[c] # Never => Settled(c, told[c])'
  BY SettledStays DEF ToldOK
<1> QED
  BY <1>1 DEF ToldOK, Settled

\* A step of the poller under the servers, with a call in flight or none.
LEMMA OracleStepInv ==
    ASSUME TypeInv, InStep, ServersInv, OracleStep, UNCHANGED serverVars
    PROVE  ServersInv'
<1>1. [Next]_vars
  BY DEF OracleStep, Next, DaemonStep
<1>2. /\ assets' = assets /\ call' = call /\ told' = told
  BY DEF serverVars
<1>3. ToldOK'
  BY <1>1, <1>2, ToldStays DEF ServersInv
<1>4. CASE call = Idle
  BY <1>2, <1>3, <1>4 DEF ServersInv
<1>5. CASE InFlight
  <2>1. daemon' = "serving" /\ DOMAIN latest \subseteq DOMAIN latest'
    BY <1>5, PricesStayWhileServing DEF InFlight
  <2>2. call.step = "payment" => SubjectRead'
    <3> SUFFICES ASSUME SubjectRead PROVE SubjectRead'
      BY <1>5 DEF InFlight
    <3>1. Settled(SubjectCurrency, call.stored.MinuteTS)'
      <4>1. Settled(SubjectCurrency, call.stored.MinuteTS)
        BY DEF SubjectRead
      <4> DEFINE c == SubjectCurrency  m == call.stored.MinuteTS
      <4>2. c' = c /\ m' = m
        BY <1>2 DEF SubjectCurrency, AssetOf
      <4>3. Settled(c, m)
        BY <4>1
      <4> HIDE DEF c, m
      <4>4. /\ <<c, m>> \in DOMAIN aggregated_prices'
            /\ c \in DOMAIN latest' => m <= latest'[c].MinuteTS
        BY <1>1, <4>3, SettledStays DEF Settled
      <4> QED
        BY <4>2, <4>4 DEF Settled, c, m
    <3> QED
      BY <1>2, <2>1, <3>1 DEF SubjectRead, SubjectCurrency, AssetOf, IsConfigured
  <2> QED
    BY <1>2, <1>3, <1>5, <2>1, <2>2 DEF InFlight, ServersInv
<1> QED
  BY <1>4, <1>5 DEF ServersInv

\* The daemon starts, stops or ends.
LEMMA StartStopInv ==
    ASSUME TypeInv, InStep, ServersInv,
           StartWithServers \/ GracefulStop \/ ServersGone
    PROVE  ServersInv'
<1>1. [Next]_vars /\ told' = told
  BY DEF StartWithServers, GracefulStop, ServersGone, Next, DaemonStep, serverVars
<1>2. ToldOK'
  BY <1>1, ToldStays DEF ServersInv
<1>3. call' = Idle
  BY DEF StartWithServers, GracefulStop, ServersGone, serverVars, ServersInv,
         InFlight, Start
<1> QED
  BY <1>2, <1>3 DEF ServersInv

\* A client is told the prices S.
LEMMA ToldMore ==
    ASSUME ServersInv, UNCHANGED vars, NEW S, told' = Telling(S),
           \A p \in S : p[2] \in Minutes /\ Settled(p[1], p[2])
    PROVE  ToldOK' /\ \A c \in Currencies : told[c] <= told'[c]
<1>1. ToldOK
  BY DEF ServersInv
<1>2. aggregated_prices' = aggregated_prices /\ latest' = latest
  BY DEF vars, storeVars, oracleVars
<1>3. \A c \in Currencies : told'[c] # Never => Settled(c, told'[c])
  BY <1>1, TellingSettled
<1>4. told' \in [Currencies -> Told] /\ \A c \in Currencies : told[c] <= told'[c]
  BY <1>1, TellingSettled
<1> QED
  BY <1>2, <1>3, <1>4 DEF ToldOK, Settled

\* A lookup over HTTP.
LEMMA GetInv ==
    ASSUME TypeInv, InStep, ServersInv, NEW req \in HttpRequests, Get(req)
    PROVE  ServersInv'
<1> DEFINE c == Folded(req.currency)
<1>1. UNCHANGED <<vars, assets, call>>
  BY DEF Get
<1>2. CASE told' = told
  <2>1. aggregated_prices' = aggregated_prices /\ latest' = latest /\ daemon' = daemon
    BY <1>1 DEF vars, storeVars, oracleVars
  <2> QED
    BY <1>1, <1>2, <2>1 DEF ServersInv, ToldOK, Settled, InFlight, SubjectRead,
       SubjectCurrency, AssetOf, IsConfigured
<1>3. CASE told' # told
  <2>1. /\ req.date = NoDate /\ req.exchange = NoExchange
        /\ handlePrice(req).status = 200
        /\ told' = Telling({<<c, handlePrice(req).Timestamp>>})
    BY <1>3 DEF Get
  <2>2. handlePrice(req) = handleCurrentPrice(c)
    BY <2>1 DEF handlePrice
  <2>3. c \in DOMAIN latest /\ handlePrice(req).Timestamp = latest[c].MinuteTS
    BY <2>1, <2>2 DEF handleCurrentPrice, ErrorStatus, PriceResponse
  <2> HIDE DEF c
  <2>4. latest[c].MinuteTS \in Minutes /\ Settled(c, latest[c].MinuteTS)
    BY <2>3, LatestIsSettled
  <2> DEFINE S == {<<c, latest[c].MinuteTS>>}
  <2>5. told' = Telling(S) /\ \A p \in S : p[2] \in Minutes /\ Settled(p[1], p[2])
    BY <2>1, <2>3, <2>4
  <2> HIDE DEF S
  <2>6. ToldOK' /\ \A d \in Currencies : told[d] <= told'[d]
    BY <1>1, <2>5, ToldMore
  <2>7. CASE call = Idle
    BY <1>1, <2>6, <2>7 DEF ServersInv
  <2>8. CASE InFlight
    <3>1. \A d \in Currencies : call.told[d] <= told'[d]
      <4> TAKE d \in Currencies
      <4>1. call.told[d] \in Told /\ told[d] \in Told /\ told'[d] \in Told
        BY <2>6, <2>8 DEF InFlight, ServersInv, ToldOK
      <4>2. call.told[d] \in Int /\ told[d] \in Int /\ told'[d] \in Int
        BY <4>1, ToldIsInt
      <4>3. call.told[d] <= told[d] /\ told[d] <= told'[d]
        BY <2>6, <2>8 DEF InFlight
      <4> QED
        BY <4>2, <4>3
    <3>2. latest' = latest /\ aggregated_prices' = aggregated_prices /\ daemon' = daemon
      BY <1>1 DEF vars, oracleVars, storeVars
    <3> QED
      BY <1>1, <2>6, <2>8, <3>1, <3>2 DEF InFlight, ServersInv, SubjectRead,
         SubjectCurrency, AssetOf, IsConfigured, Settled
  <2> QED
    BY <2>7, <2>8 DEF ServersInv
<1> QED
  BY <1>2, <1>3

\* A step of QueryAssetRates.
LEMMA RpcInv ==
    ASSUME TypeInv, InStep, ServersInv, RpcStep
    PROVE  ServersInv'
<1>1. UNCHANGED <<vars, assets>>
  BY DEF RpcStep, QueryAssetRates, SubjectFails, errorResponse, ReadSubject,
         PaymentFails, PayInBtc, PayInAsset
<1>2. /\ latest' = latest /\ aggregated_prices' = aggregated_prices
      /\ daemon' = daemon /\ assets' = assets
  BY <1>1 DEF vars, oracleVars, storeVars
<1>3. told' = told => ToldOK'
  BY <1>2 DEF ServersInv, ToldOK, Settled
<1>4. ASSUME NEW req \in RateRequests, QueryAssetRates(req)
      PROVE  ServersInv'
  <2>1. /\ daemon = "serving" /\ told' = told
        /\ call' = [step |-> "subject", req |-> req, told |-> told]
    BY <1>4 DEF QueryAssetRates
  <2>2. \A c \in Currencies : told[c] <= told[c]
    <3> TAKE c \in Currencies
    <3>1. told[c] \in Told
      BY DEF ServersInv, ToldOK
    <3> QED
      BY <3>1, ToldIsInt
  <2> QED
    BY <1>2, <1>3, <2>1, <2>2 DEF ServersInv, ToldOK, InFlight
<1>5. CASE SubjectFails \/ PaymentFails
  BY <1>3, <1>5 DEF SubjectFails, PaymentFails, errorResponse, ServersInv
<1>6. CASE ReadSubject
  <2> DEFINE c == SubjectCurrency
  <2>1. /\ call.step = "subject" /\ HasPrice(call.req.subject) /\ told' = told
        /\ call' = [step |-> "payment", req |-> call.req, told |-> call.told,
                    stored |-> latest[c]]
    BY <1>6 DEF ReadSubject, SubjectCurrency
  <2>2. InFlight /\ ToldOK
    BY <2>1 DEF ServersInv, Idle
  <2>3. c \in DOMAIN latest /\ IsConfigured(call.req.subject)
    BY <2>1 DEF HasPrice, SubjectCurrency
  <2>4. SubjectCurrency' = c
    BY <1>2, <2>1 DEF SubjectCurrency, AssetOf
  <2>5. IsConfigured(call.req.subject)'
    BY <1>2, <2>1, <2>3 DEF IsConfigured
  <2> HIDE DEF c
  <2>6. /\ c \in Currencies /\ latest[c].MinuteTS \in Minutes
        /\ latest[c] \in Stored
        /\ Settled(c, latest[c].MinuteTS)
    BY <2>3, LatestIsSettled
  <2>7. call.told[c] <= latest[c].MinuteTS
    <3>1. call.told[c] \in Told /\ told[c] \in Told
      BY <2>2, <2>6 DEF InFlight, ToldOK
    <3>2. call.told[c] \in Int /\ told[c] \in Int /\ latest[c].MinuteTS \in Int
      BY <2>6, <3>1, ToldIsInt
    <3>3. call.told[c] <= told[c] /\ told[c] <= latest[c].MinuteTS
      BY <2>2, <2>3, <2>6, ToldNotAhead DEF InFlight
    <3> QED
      BY <3>2, <3>3
  <2>8. SubjectRead'
    BY <1>2, <2>1, <2>3, <2>4, <2>5, <2>6, <2>7 DEF SubjectRead, Settled
  <2> QED
    BY <1>2, <1>3, <2>1, <2>2, <2>8 DEF ServersInv, InFlight
<1>7. ASSUME PayInBtc \/ PayInAsset
      PROVE  ServersInv'
  <2>1. call.step = "payment" /\ call' = Idle
    BY <1>7 DEF PayInBtc, PayInAsset
  <2>2. InFlight /\ SubjectRead
    BY <2>1 DEF ServersInv, Idle, InFlight
  <2>3. SubjectPrice[2] \in Minutes /\ Settled(SubjectPrice[1], SubjectPrice[2])
    BY <2>2 DEF SubjectRead, SubjectPrice, SubjectCurrency, Stored
  <2>4. PICK S : /\ told' = Telling(S)
                 /\ \A p \in S : p[2] \in Minutes /\ Settled(p[1], p[2])
    <3>1. CASE PayInBtc
      <4>1. told' = Telling({SubjectPrice})
        BY <3>1 DEF PayInBtc
      <4> QED
        BY <2>3, <4>1
    <3>2. CASE PayInAsset
      <4> DEFINE paid == AssetOf(call.req.payment).Currency
                 price == <<paid, latest[paid].MinuteTS>>
      <4>1. told' = Telling({SubjectPrice, price}) /\ paid \in DOMAIN latest
        BY <3>2 DEF PayInAsset, HasPrice
      <4>2. price[2] \in Minutes /\ Settled(price[1], price[2])
        BY <4>1, LatestIsSettled
      <4> QED
        BY <2>3, <4>1, <4>2
    <3> QED
      BY <1>7, <3>1, <3>2
  <2>5. ToldOK'
    BY <1>1, <2>4, ToldMore
  <2> QED
    BY <2>1, <2>5 DEF ServersInv
<1> QED
  BY <1>4, <1>5, <1>6, <1>7 DEF RpcStep

-----------------------------------------------------------------------------
\* The servers leave the poller as it is: what holds of Oracle holds of
\* Oracle beside them (rpcserver.go and httpserver.go only read).
THEOREM ServersLeaveOracle == ServersSpec => Spec
<1>1. ServersInit => Init
  BY DEF ServersInit
<1> QED
  BY <1>1, NextOfOracle, PTL DEF ServersSpec, Spec

\* The inductive invariant, on top of those of Oracle.
LEMMA ServersInvariant == ServersSpec => []ServersInv
<1>1. TypeInv /\ InStep /\ ServersInv /\ [ServersNext]_allVars => ServersInv'
  <2> SUFFICES ASSUME TypeInv, InStep, ServersInv, [ServersNext]_allVars
               PROVE  ServersInv'
    OBVIOUS
  <2>1. CASE UNCHANGED allVars
    <3>1. /\ UNCHANGED <<aggregated_prices, latest, daemon, assets, call, told>>
      BY <2>1 DEF allVars, vars, oracleVars, storeVars, serverVars
    <3> QED
      BY <3>1 DEF ServersInv, ToldOK, Settled, InFlight, SubjectRead,
         SubjectCurrency, AssetOf, IsConfigured
  <2>2. CASE ServersNext
    BY <2>2, StartStopInv, OracleStepInv, RpcInv, GetInv DEF ServersNext
  <2> QED
    BY <2>1, <2>2
<1> QED
  BY <1>1, ServersInitInv, ServersLeaveOracle, TypeInvariant, InStepInvariant,
     PTL DEF ServersSpec

\* Type correctness of what the servers hold.
THEOREM ServersTypeCorrect == ServersSpec => []ServersTypeOK
<1>1. ServersInv => ServersTypeOK
  BY DEF ServersInv, ToldOK, Told, InFlight, SubjectRead, SubjectCurrency, Idle,
     HasPrice, ServersTypeOK
<1> QED
  BY <1>1, ServersInvariant, PTL

\* The current price never goes back in time for anybody, across restarts and
\* with the two readings of one call in between (rpcserver.go:87, 160;
\* httpserver.go:124).
THEOREM AnswersMoveForward == ServersSpec => []AnswersNeverGoBack
<1>1. TypeInv /\ InStep /\ ServersInv => AnswersNeverGoBack
  <2> SUFFICES ASSUME TypeInv, InStep, ServersInv PROVE AnswersNeverGoBack
    OBVIOUS
  <2>1. ASSUME NEW c \in DOMAIN latest PROVE told[c] <= latest[c].MinuteTS
    BY <2>1, ToldNotAhead DEF ServersInv
  <2>2. ASSUME call.step = "payment"
        PROVE  /\ call.told[SubjectCurrency] <= call.stored.MinuteTS
               /\ call.stored.MinuteTS <= latest[SubjectCurrency].MinuteTS
    BY <2>2 DEF ServersInv, Idle, InFlight, SubjectRead, Settled
  <2> QED
    BY <2>1, <2>2 DEF AnswersNeverGoBack, SubjectCurrency
<1> QED
  BY <1>1, ServersInvariant, ServersLeaveOracle, TypeInvariant, InStepInvariant, PTL

-----------------------------------------------------------------------------
(***************************************************************************)
(* What was told is on record.                                             *)
(***************************************************************************)

\* Any second of a minute is cut to it.
LEMMA SecondsOfMinute ==
    ASSUME NEW m \in Minutes, NEW s \in 0 .. SecondsPerMinute - 1
    PROVE  /\ MinuteOf(m * SecondsPerMinute + s) = m
           /\ m * SecondsPerMinute + s # NotADate
<1> DEFINE n == SecondsPerMinute
           d == (m * n + s) \div n
           e == (m * n + s) % n
<1>1. m \in Nat /\ n \in Nat \ {0} /\ s \in Nat /\ s < n
  BY ToldIsInt, ServersAssumption
<1> HIDE DEF n
<1>2. d \in Int /\ e \in 0 .. n - 1 /\ m * n + s = d * n + e
  BY <1>1
<1>3. (m - d) * n = e - s
  BY <1>1, <1>2
<1>4. m * n + s \in Nat
  BY <1>1
<1> HIDE DEF d, e
<1>5. m - d >= 1 => (m - d) * n >= n
  BY <1>1, <1>2
<1>6. m - d <= -1 => (m - d) * n <= -n
  BY <1>1, <1>2
<1>7. d = m
  BY <1>1, <1>2, <1>3, <1>5, <1>6
<1> QED
  BY <1>4, <1>7, ServersAssumption DEF MinuteOf, n, d

\* What a query answers, and the server with it, if there is a row.
LEMMA NewestAnswer ==
    ASSUME open, NEW rows, DOMAIN rows \in SUBSET Minutes
    PROVE  /\ FromStore(Newest(rows)).status = 200 <=> DOMAIN rows # {}
           /\ DOMAIN rows # {} =>
                 /\ FromStore(Newest(rows)).Timestamp = Max(DOMAIN rows)
                 /\ Max(DOMAIN rows) \in DOMAIN rows
                 /\ \A m \in DOMAIN rows : m <= Max(DOMAIN rows)
                 /\ Newest(rows) =
                       StoredPrice(rows[Max(DOMAIN rows)], Max(DOMAIN rows))
<1>1. CASE DOMAIN rows = {}
  BY <1>1 DEF FromStore, Newest, ErrNotFound, ErrorStatus
<1>2. CASE DOMAIN rows # {}
  <2>1. Max(DOMAIN rows) \in DOMAIN rows /\ \A m \in DOMAIN rows : m <= Max(DOMAIN rows)
    <3>1. IsFiniteSet(Minutes) /\ Minutes \subseteq Int
      BY OracleAssumption, StoreAssumption, FS_Interval
    <3>2. DOMAIN rows \in SUBSET Int /\ IsFiniteSet(DOMAIN rows)
      BY <3>1, FS_Subset
    <3> QED
      BY <1>2, <3>2, GreatestExists
  <2>2. Newest(rows) = StoredPrice(rows[Max(DOMAIN rows)], Max(DOMAIN rows))
    BY <1>2 DEF Newest
  <2> QED
    BY <1>2, <2>1, <2>2 DEF FromStore, StoredPrice, PriceResponse
<1> QED
  BY <1>1, <1>2

\* A lookup of a date from the minute told on finds a price.
LEMMA AggregateOnRecord ==
    ASSUME TypeInv, ServersInv, open, NEW c \in Currencies, NEW m \in Minutes,
           NEW s \in 0 .. SecondsPerMinute - 1, told[c] # Never, told[c] <= m
    PROVE  LET answer == handleHistoricalPrice(c, NoExchange,
                                               m * SecondsPerMinute + s)
           IN  /\ answer.status = 200
               /\ told[c] <= answer.Timestamp /\ answer.Timestamp <= m
<1> DEFINE M == {n \in AggregatedMinutes(c) : n <= m}
           rows == AggregatedRows(c, M)
           answer == handleHistoricalPrice(c, NoExchange, m * SecondsPerMinute + s)
<1>1. answer = FromStore(Newest(rows))
  BY SecondsOfMinute DEF handleHistoricalPrice, AggregatedPriceAt
<1>2. DOMAIN rows = M
  BY DEF AggregatedRows
<1>3. M \in SUBSET Minutes
  BY DEF AggregatedMinutes, TypeInv, TypeOK, StoreTypeOK, IsTable, AggregateKeys
<1>4. told[c] \in M
  <2> DEFINE k == <<c, told[c]>>
  <2>1. k \in DOMAIN aggregated_prices /\ k[1] = c /\ k[2] = told[c]
    BY DEF ServersInv, ToldOK, Settled
  <2> HIDE DEF k
  <2>2. told[c] \in AggregatedMinutes(c)
    BY <2>1 DEF AggregatedMinutes
  <2> QED
    BY <2>2
<1>5. \A n \in M : n <= m
  OBVIOUS
<1> HIDE DEF M, rows, answer
<1>6. /\ answer.status = 200 /\ answer.Timestamp = Max(M)
      /\ Max(M) \in M /\ \A n \in M : n <= Max(M)
  BY <1>1, <1>2, <1>3, <1>4, NewestAnswer
<1> QED
  BY <1>4, <1>5, <1>6 DEF answer

\* The latest price of an exchange is found under any second of its minute.
LEMMA SampleOnRecord ==
    ASSUME TypeInv, open, NEW c \in Currencies, NEW f \in Feeds,
           NEW s \in 0 .. SecondsPerMinute - 1,
           handleLatestExchangePrice(c, f).status = 200
    PROVE  LET last == handleLatestExchangePrice(c, f)
           IN  last = handleHistoricalPrice(c, f,
                          last.Timestamp * SecondsPerMinute + s)
<1> DEFINE M == ExchangeMinutes(c, f)
           rows == ExchangeRows(c, f, M)
           last == handleLatestExchangePrice(c, f)
           t == last.Timestamp
           atT == ExchangeRows(c, f, M \cap {t})
<1>1. last = FromStore(Newest(rows)) /\ DOMAIN rows = M
  BY DEF handleLatestExchangePrice, LatestExchangePrice, ExchangeRows
<1>2. M \in SUBSET Minutes
  BY DEF ExchangeMinutes, TypeInv, TypeOK, StoreTypeOK, IsTable, ExchangeKeys
<1>3. t = Max(M) /\ t \in M /\ Newest(rows) = StoredPrice(rows[t], t)
  <2> HIDE DEF M, rows
  <2> QED
    BY <1>1, <1>2, NewestAnswer
<1>4. M \cap {t} = {t} /\ t \in Minutes
  BY <1>2, <1>3
<1>5. DOMAIN atT = {t} /\ atT[t] = rows[t]
  BY <1>3, <1>4 DEF ExchangeRows
<1>6. Newest(atT) = StoredPrice(rows[t], t)
  <2> HIDE DEF atT, rows, t
  <2>1. DOMAIN atT \in SUBSET Minutes /\ DOMAIN atT # {}
    BY <1>4, <1>5
  <2>2. Max(DOMAIN atT) = t
    BY <1>5, <2>1, NewestAnswer
  <2> QED
    BY <1>5, <2>1, <2>2, NewestAnswer
<1>7. handleHistoricalPrice(c, f, t * SecondsPerMinute + s)
        = FromStore(ExchangePriceAt(c, f, t))
  <2>1. f # NoExchange
    BY ServersAssumption DEF Feeds
  <2>2. /\ MinuteOf(t * SecondsPerMinute + s) = t
        /\ t * SecondsPerMinute + s # NotADate
    <3> HIDE DEF t
    <3> QED
      BY <1>4, SecondsOfMinute
  <2> QED
    BY <2>1, <2>2 DEF handleHistoricalPrice
<1>8. ExchangePriceAt(c, f, t) = Newest(atT)
  BY DEF ExchangePriceAt
<1> QED
  BY <1>1, <1>3, <1>6, <1>7, <1>8

\* Whatever was told as current is found again under its minute, while the
\* store is open, and so is the latest price of an exchange
\* (httpserver.go:140-228).
THEOREM ToldStaysOnRecord == ServersSpec => []PricesToldAreOnRecord
<1>1. TypeInv /\ ServersInv => PricesToldAreOnRecord
  BY AggregateOnRecord, SampleOnRecord DEF PricesToldAreOnRecord
<1> QED
  BY <1>1, ServersInvariant, ServersLeaveOracle, TypeInvariant, PTL

-----------------------------------------------------------------------------
(***************************************************************************)
(* The table of the assets.                                                *)
(***************************************************************************)

\* It is that of an accepted section, or empty while no daemon runs.
AssetsOK ==
    \/ assets = NoAssets
    \/ \E lines \in AssetSections :
          AssetsAccepted(lines) /\ assets = NewRpcServer(assetConfigs(lines))

\* NewRpcServer fills the table once and nothing writes it after
\* (rpcserver.go:47).
LEMMA AssetsInvariant == ServersSpec => []AssetsOK
<1>1. ServersInit => AssetsOK
  BY DEF ServersInit, AssetsOK
<1>2. AssetsOK /\ [ServersNext]_allVars => AssetsOK'
  <2> SUFFICES ASSUME AssetsOK, [ServersNext]_allVars PROVE AssetsOK'
    OBVIOUS
  <2>1. CASE StartWithServers
    BY <2>1 DEF StartWithServers, AssetsOK
  <2>2. CASE ServersGone
    BY <2>2 DEF ServersGone, AssetsOK
  <2>3. CASE assets' = assets
    BY <2>3 DEF AssetsOK
  <2>4. StartWithServers \/ ServersGone \/ assets' = assets
    BY DEF ServersNext, allVars, serverVars, GracefulStop, RpcStep, QueryAssetRates,
           SubjectFails, errorResponse, ReadSubject, PaymentFails, PayInBtc,
           PayInAsset, Get
  <2> QED
    BY <2>1, <2>2, <2>3, <2>4
<1> QED
  BY <1>1, <1>2, PTL DEF ServersSpec

\* The asset found for a specifier is what the last line with its ID says.
LEMMA ConfiguredByLine ==
    ASSUME NEW lines \in AssetSections, AssetsAccepted(lines),
           assets = NewRpcServer(assetConfigs(lines)),
           NEW spec, IsConfigured(spec)
    PROVE  LET line == LastLine(lines, spec)
           IN  ParsesAsAsset(line) /\ AssetOf(spec) = parseAssetString(line)
<1> DEFINE cfgs == assetConfigs(lines)
           id == spec.id.name
           I == {i \in DOMAIN lines : lines[i].id.name = id}
           J == {i \in DOMAIN cfgs : cfgs[i].AssetID = id}
<1>1. /\ DOMAIN cfgs = DOMAIN lines
      /\ \A i \in DOMAIN lines :
            /\ cfgs[i] = parseAssetString(lines[i])
            /\ cfgs[i].AssetID = lines[i].id.name
  BY DEF assetConfigs, parseAssetString, Folded
<1>2. J = I
  BY <1>1
<1>3. /\ assets = [x \in {cfgs[i].AssetID : i \in DOMAIN cfgs} |->
                      cfgs[Max({i \in DOMAIN cfgs : cfgs[i].AssetID = x})]]
      /\ id \in DOMAIN assets
      /\ AssetOf(spec) = assets[id]
  BY DEF NewRpcServer, IsConfigured, AssetOf, assetSpecifierToHex, Folded
<1> HIDE DEF cfgs
<1>4. AssetOf(spec) = cfgs[Max(J)] /\ J # {}
  BY <1>3
<1>5. Max(I) \in I
  <2>1. DOMAIN lines = 1 .. Len(lines) /\ Len(lines) \in Nat
    BY ServersAssumption
  <2>2. IsFiniteSet(1 .. Len(lines)) /\ 1 .. Len(lines) \subseteq Int
    BY <2>1, FS_Interval
  <2>3. I \subseteq 1 .. Len(lines) /\ I # {}
    BY <1>2, <1>4, <2>1
  <2> HIDE DEF I
  <2>4. I \in SUBSET Int /\ IsFiniteSet(I)
    BY <2>2, <2>3, FS_Subset
  <2> QED
    BY <2>3, <2>4, GreatestExists
<1>6. LastLine(lines, spec) = lines[Max(I)]
  BY DEF LastLine
<1> HIDE DEF I, J
<1>7. Max(I) \in DOMAIN lines
  BY <1>5 DEF I
<1> QED
  BY <1>1, <1>2, <1>4, <1>6, <1>7 DEF AssetsAccepted

\* The rate of an asset of a line is the one the line asks for.
LEMMA RateOfLine ==
    ASSUME NEW spec, NEW line, ParsesAsAsset(line),
           AssetOf(spec) = parseAssetString(line),
           NEW price, price.Value \in Uint64
    PROVE  RateByLine(line, price, AssetRate(spec, price))
<1> DEFINE v == price.Value
           ppm == line.markup
           dd == IF line.parts = 4 THEN line.decimals ELSE 0
           unit == Pow10[dd]
           r == Marked(v, ppm)
<1>1. v \in Uint /\ ppm \in Uint
  <2>1. Uint64 = Uint
    BY ServersAssumption DEF Uint64, Uint
  <2> QED
    BY <2>1 DEF ParsesAsAsset
<1>2. dd \in Nat
  BY DEF ParsesAsAsset
<1>3. /\ AssetRate(spec, price).Coefficient = applyMarkup(v, ppm, dd)
      /\ AssetRate(spec, price).Scale = Decimals
  BY DEF AssetRate, FixedPoint, parseAssetString
<1>4. RateByLine(line, price, AssetRate(spec, price)) <=>
          /\ AssetRate(spec, price).Scale = Decimals
          /\ AssetRate(spec, price).Coefficient % unit = 0
          /\ Million + ppm < Word =>
                RaisedTo(v, ppm, AssetRate(spec, price).Coefficient \div unit)
  BY DEF RateByLine
<1> HIDE DEF v, ppm, dd, unit
<1>5. r \in Nat /\ (Million + ppm < Word => RaisedTo(v, ppm, r))
  BY <1>1, MarkedIsRaised, WrappedIsLowered
<1>6. /\ applyMarkup(v, ppm, dd) \div unit = r
      /\ applyMarkup(v, ppm, dd) % unit = 0
  BY <1>2, <1>5, RateIsMarked DEF unit
<1> QED
  BY <1>3, <1>4, <1>5, <1>6

(***************************************************************************)
(* An asset that is configured is so by a line of an accepted section, and *)
(* its rate at any price of a uint64 is the one that line asks for.        *)
(***************************************************************************)
LEMMA RateFollowsLine ==
    ASSUME NEW lines \in AssetSections, AssetsAccepted(lines),
           assets = NewRpcServer(assetConfigs(lines)),
           NEW spec, IsConfigured(spec), NEW price, price.Value \in Uint64
    PROVE  /\ RateByLine(LastLine(lines, spec), price, AssetRate(spec, price))
           /\ AssetOf(spec).Currency = LastLine(lines, spec).currency.name
<1> DEFINE line == LastLine(lines, spec)
<1>1. ParsesAsAsset(line) /\ AssetOf(spec) = parseAssetString(line)
  BY ConfiguredByLine
<1> HIDE DEF line
<1>2. RateByLine(line, price, AssetRate(spec, price))
  BY <1>1, RateOfLine
<1>3. AssetOf(spec).Currency = line.currency.name
  BY <1>1 DEF parseAssetString, Folded
<1> QED
  BY <1>2, <1>3 DEF line

\* Only the last reading of a call answers it with rates while the daemon runs.
LEMMA AnsweringStep ==
    ASSUME ServersInv, ServersNext, call.step = "payment", call' = Idle,
           daemon' = daemon, reply'.code = "OK"
    PROVE  PayInBtc \/ PayInAsset
<1>1. call # Idle /\ daemon # "down"
  BY DEF Idle, ServersInv, InFlight
<1>2. ~ StartWithServers /\ ~ ServersGone /\ ~ GracefulStop
  BY <1>1 DEF StartWithServers, ServersGone, GracefulStop, Exit, Crash, ProcessEnds,
              Start, Stop
<1>3. ~ (OracleStep /\ UNCHANGED serverVars)
  BY <1>1 DEF serverVars
<1>4. \A r \in HttpRequests : ~ Get(r)
  BY <1>1 DEF Get
<1>5. ~ PaymentFails
  BY DEF PaymentFails, errorResponse
<1>6. ~ SubjectFails /\ ~ ReadSubject /\ \A req \in RateRequests : ~ QueryAssetRates(req)
  BY <1>1 DEF SubjectFails, ReadSubject, QueryAssetRates
<1> QED
  BY <1>2, <1>3, <1>4, <1>5, <1>6 DEF ServersNext, RpcStep

(***************************************************************************)
(* The rates of an answer are those of an accepted [Asset] section, at the *)
(* prices read for the two assets' own currencies (rpcserver.go:76-112,    *)
(* 138-174, 239), whatever the sections, the requests and the prices.      *)
(***************************************************************************)
THEOREM RatesAreConfigured == ServersSpec => RatesFollowConfig
<1> DEFINE Step ==
        call.step = "payment" /\ call' = Idle /\ daemon' = daemon /\ reply'.code = "OK" =>
          \E lines \in AssetSections :
              LET subject == call.req.subject
                  payment == call.req.payment
                  line    == LastLine(lines, payment)
              IN  /\ AssetsAccepted(lines)
                  /\ RateByLine(LastLine(lines, subject), call.stored,
                                reply'.SubjectAssetRate)
                  /\ IF \/ payment.kind = "nil"
                        \/ payment.kind \notin KeyKinds /\ payment.id.name \in ZeroIDs
                     THEN reply'.PaymentAssetRate = BtcPaymentRate
                     ELSE RateByLine(line, latest[line.currency.name],
                                     reply'.PaymentAssetRate)
<1>1. TypeInv /\ InStep /\ ServersInv /\ AssetsOK /\ [ServersNext]_allVars
          => [Step]_allVars
  <2> SUFFICES ASSUME TypeInv, InStep, ServersInv, AssetsOK, ServersNext,
                      call.step = "payment", call' = Idle, daemon' = daemon,
                      reply'.code = "OK"
               PROVE  Step
    OBVIOUS
  <2> DEFINE subject == call.req.subject
             payment == call.req.payment
             zero == \/ payment.kind = "nil"
                     \/ payment.kind \notin KeyKinds /\ payment.id.name \in ZeroIDs
  <2>1. IsConfigured(subject) /\ call.stored.Value \in Uint64
    BY DEF ServersInv, InFlight, Idle, SubjectRead, Stored
  <2>2. PICK lines \in AssetSections :
            AssetsAccepted(lines) /\ assets = NewRpcServer(assetConfigs(lines))
    BY <2>1 DEF AssetsOK, NoAssets, IsConfigured
  <2>3. RateByLine(LastLine(lines, subject), call.stored,
                   AssetRate(subject, call.stored))
    BY <2>1, <2>2, RateFollowsLine
  <2>4. reply'.SubjectAssetRate = AssetRate(subject, call.stored)
    BY AnsweringStep DEF PayInBtc, PayInAsset, Rates
  <2>5. CASE PayInBtc
    <3>1. zero
      BY <2>5 DEF PayInBtc, isZeroAsset, IdKinds, KeyKinds, Folded
    <3>2. reply'.PaymentAssetRate = BtcPaymentRate
      BY <2>5 DEF PayInBtc, Rates
    <3> QED
      BY <2>2, <2>3, <2>4, <3>1, <3>2
  <2>6. CASE PayInAsset
    <3> DEFINE line == LastLine(lines, payment)
               paid == AssetOf(payment).Currency
    <3>1. IsConfigured(payment) /\ paid \in DOMAIN latest
      BY <2>6 DEF PayInAsset, HasPrice
    <3>2. ~ zero
      BY <2>6, <3>1 DEF PayInAsset, isZeroAsset, IsConfigured, IsSpecified, IdKinds,
                        KeyKinds, Folded
    <3>3. reply'.PaymentAssetRate = AssetRate(payment, latest[paid])
      BY <2>6 DEF PayInAsset, Rates
    <3>4. latest[paid].Value \in Uint64
      BY <3>1, LatestIsSettled DEF Stored
    <3>5. /\ RateByLine(line, latest[paid], AssetRate(payment, latest[paid]))
          /\ paid = line.currency.name
      BY <2>2, <3>1, <3>4, RateFollowsLine
    <3> HIDE DEF line, paid
    <3>6. RateByLine(line, latest[line.currency.name], reply'.PaymentAssetRate)
      BY <3>3, <3>5
    <3> QED
      BY <2>2, <2>3, <2>4, <3>2, <3>6 DEF line
  <2> QED
    BY <2>5, <2>6, AnsweringStep
<1> QED
  BY <1>1, ServersInvariant, AssetsInvariant, ServersLeaveOracle, TypeInvariant,
     InStepInvariant, PTL DEF ServersSpec, RatesFollowConfig
=============================================================================
