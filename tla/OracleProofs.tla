---------------------------- MODULE OracleProofs ----------------------------
(***************************************************************************)
(* Proofs about Oracle, for any feeds, currencies, quotes, word width,     *)
(* number of minutes and subscribers, with and without store failures.     *)
(*                                                                         *)
(* TypeOK and ScopeOK are one inductive invariant; InStep is inductive     *)
(* relative to them; the properties follow from the three.                 *)
(***************************************************************************)
EXTENDS Oracle, StoreProofs, SubscriptionsProofs

-----------------------------------------------------------------------------
(***************************************************************************)
(* The median of the quotes received is one of them, so it is a uint64,    *)
(* and no minority of the feeds can dictate it.                            *)
(***************************************************************************)
LEMMA MedianOfQuotes ==
    ASSUME PollerTypeOK, DOMAIN prices # {}
    PROVE  /\ median(QuotedValues) \in Quotes
           /\ ResistsMinority(QuotedValues, median(QuotedValues))
<1> DEFINE F == DOMAIN prices
<1>1. IsFiniteSet(F)
  BY OracleAssumption, FS_Subset DEF PollerTypeOK, Feeds
<1>2. \A f \in F : QuotedValues[f] \in Quotes
  BY DEF PollerTypeOK, QuotedValues
<1>3. QuotedValues \in [F -> Int]
  <2>1. Quotes \subseteq Int
    BY OracleAssumption, StoreAssumption DEF Uint64
  <2> QED
    BY <1>2, <2>1 DEF QuotedValues
<1>4. DOMAIN QuotedValues = F
  BY DEF QuotedValues
<1>5. IsRanked(QuotedValues, LowerMiddle(Cardinality(F)), median(QuotedValues))
  BY <1>1, <1>3, MedianIsLowerMiddle
<1>6. \E f \in F : QuotedValues[f] = median(QuotedValues)
  BY <1>4, <1>5 DEF IsRanked
<1>7. ResistsMinority(QuotedValues, median(QuotedValues))
  BY <1>1, <1>3, MedianResistsMinority
<1> QED
  BY <1>2, <1>6, <1>7

-----------------------------------------------------------------------------
(***************************************************************************)
(* Type correctness, one component at a time.                              *)
(***************************************************************************)
TypeInv == TypeOK /\ ScopeOK /\ SubscribedIsOpen

LEMMA InitTypeInv == Init => TypeInv
<1> SUFFICES ASSUME Init PROVE TypeInv
  OBVIOUS
<1>1. StoreTypeOK
  BY DEF Init, StoreInit, StoreTypeOK, IsTable, EmptyTable
<1>2. SubsTypeOK /\ SubscribedIsOpen
  BY SubsInitInv DEF Init, SubsInv
<1>3. 0 \in Minutes /\ 0 \in Uint64
  BY OracleAssumption, StoreAssumption DEF Uint64
<1>4. PollerTypeOK
  BY <1>3 DEF Init, PollerTypeOK, DaemonStates, PollerStates, NoQuotes, NoPrices,
              NoStored, Stored
<1>5. ScopeOK
  BY DEF Init, ScopeOK, AfterQuotes
<1> QED
  BY <1>1, <1>2, <1>4, <1>5 DEF TypeInv, TypeOK

LEMMA StoreTypeStep ==
    ASSUME TypeInv, [Next]_vars
    PROVE  StoreTypeOK'
<1> USE DEF TypeInv, TypeOK
<1>1. CASE UNCHANGED storeVars
  BY <1>1 DEF StoreTypeOK, storeVars
<1>2. CASE OpenStore \/ CloseStore
  BY <1>2 DEF OpenStore, CloseStore, StoreTypeOK
<1>3. ASSUME NEW f \in Feeds, SaveQuote(f)
      PROVE  StoreTypeOK'
  <2>1. CASE UNCHANGED storeVars
    BY <1>1, <2>1
  <2>2. CASE InsertExchangePrice(f, currency, prices[f].Value, prices[f].MinuteTS)
    <3>1. <<f, currency, prices[f].MinuteTS>> \in ExchangeKeys
      BY <1>3 DEF SaveQuote, PollerTypeOK, ScopeOK, AfterQuotes, ExchangeKeys, Feeds
    <3>2. prices[f].Value \in Uint64
      BY <1>3, OracleAssumption DEF SaveQuote, PollerTypeOK
    <3>3. IsTable(exchange_prices', ExchangeKeys)
      BY <2>2, <3>1, <3>2, ToInt64Type, UpsertIsTable
      DEF InsertExchangePrice, StoreTypeOK
    <3> QED
      BY <2>2, <3>3 DEF InsertExchangePrice, StoreTypeOK
  <2> QED
    BY <1>3, <2>1, <2>2 DEF SaveQuote, InsertFails
<1>4. CASE CommitAggregate
  <2>1. <<currency, stored.MinuteTS>> \in AggregateKeys
    BY <1>4 DEF CommitAggregate, PollerTypeOK, ScopeOK, AfterQuotes, AggregateKeys,
                Stored
  <2>2. stored.Value \in Uint64
    BY DEF PollerTypeOK, Stored
  <2>3. IsTable(aggregated_prices', AggregateKeys)
    BY <1>4, <2>1, <2>2, ToInt64Type, UpsertIsTable
    DEF CommitAggregate, InsertAggregatedPrice, StoreTypeOK
  <2> QED
    BY <1>4, <2>3 DEF CommitAggregate, InsertAggregatedPrice, StoreTypeOK
<1>5. [Next]_vars =>
        \/ UNCHANGED storeVars \/ OpenStore \/ CloseStore
        \/ \E f \in Feeds : SaveQuote(f)
        \/ CommitAggregate
  BY DEF Next, vars, DaemonStep, LoopStep, FetchStep, PollStep, Start, Stop,
         StopReturns, Exit, Crash, TickerFires, TakeTick, TakeQuit, PollCurrency,
         PollDone,
         QuoteArrives, FetchFails, NoneObtained, AllReceived, Aggregate, CommitFails,
         InsertFails, Publish, BroadcastUpdate, UserStep, ClockTurns
<1> QED
  BY <1>1, <1>2, <1>3, <1>4, <1>5

LEMMA SubsTypeStep ==
    ASSUME TypeInv, [Next]_vars
    PROVE  SubsTypeOK' /\ SubscribedIsOpen'
<1> USE DEF TypeInv, TypeOK
<1>1. CASE UNCHANGED subsVars
  BY <1>1 DEF SubsTypeOK, SubscribedIsOpen, subsVars
<1>2. CASE ProcessEnds
  <2>1. nextSubID' = 0 /\ nextSubID' \in 0 .. MaxSubs
    BY <1>2, SubsAssumption DEF ProcessEnds
  <2>2. DOMAIN chans' = {} /\ 0 .. nextSubID' - 1 = {}
    BY <1>2, <2>1 DEF ProcessEnds, NoChannels
  <2>3. chans' \in [{} -> Channel]
    BY <1>2 DEF ProcessEnds, NoChannels
  <2> QED
    BY <1>2, <2>1, <2>2, <2>3 DEF ProcessEnds, SubsTypeOK, SubscribedIsOpen
<1>3. CASE UserStep
  <2>1. CASE SubscribePrice
    BY <2>1, SubscribeInv DEF SubsInv
  <2>2. ASSUME NEW id \in subs, Cancel(id)
        PROVE  SubsTypeOK' /\ SubscribedIsOpen'
    BY <2>2, CancelInv DEF SubsInv
  <2>3. ASSUME NEW id \in DOMAIN chans, Receive(id)
        PROVE  SubsTypeOK' /\ SubscribedIsOpen'
    BY <2>3, ReceiveInv DEF SubsInv
  <2> QED
    BY <1>3, <2>1, <2>2, <2>3 DEF UserStep
<1>4. CASE BroadcastUpdate
  <2>1. [Currency |-> currency, Price |-> stored] \in Updates
    BY <1>4, OracleAssumption
    DEF BroadcastUpdate, PollerTypeOK, ScopeOK, AfterQuotes, Stored
  <2> QED
    BY <1>4, <2>1, BroadcastInv DEF BroadcastUpdate, SubsInv
<1>5. [Next]_vars => UNCHANGED subsVars \/ ProcessEnds \/ UserStep \/ BroadcastUpdate
  BY DEF Next, vars, DaemonStep, LoopStep, FetchStep, PollStep, Start, Stop,
         StopReturns, Exit, Crash, TickerFires, TakeTick, TakeQuit, PollCurrency,
         PollDone,
         QuoteArrives, FetchFails, NoneObtained, AllReceived, SaveQuote, Aggregate,
         CommitAggregate, CommitFails, Publish, ClockTurns
<1> QED
  BY <1>1, <1>2, <1>3, <1>4, <1>5

LEMMA PollerTypeStep ==
    ASSUME TypeInv, [Next]_vars
    PROVE  PollerTypeOK' /\ ScopeOK'
<1> USE OracleAssumption
    DEF TypeInv, TypeOK, PollerTypeOK, ScopeOK, AfterQuotes, DaemonStates,
        PollerStates
<1> DEFINE Goal == PollerTypeOK' /\ ScopeOK'
<1>1. CASE Start
  BY <1>1 DEF Start, OpenStore, locals
<1>2. CASE Stop
  BY <1>2 DEF Stop, locals, storeVars
<1>3. CASE ProcessEnds
  <2>1. NoStored \in Stored
    BY StoreAssumption DEF NoStored, Stored, Uint64
  <2>2. /\ NoQuotes \in [DOMAIN NoQuotes -> [Value : Quotes, MinuteTS : Minutes]]
        /\ DOMAIN NoQuotes = {}
    BY DEF NoQuotes
  <2>3. NoPrices \in [DOMAIN NoPrices -> Stored] /\ DOMAIN NoPrices = {}
    BY DEF NoPrices
  <2> QED
    BY <1>3, <2>1, <2>2, <2>3 DEF ProcessEnds, DropLocals
<1>4. CASE TickerFires
  BY <1>4 DEF TickerFires, locals, storeVars
<1>5. CASE LoopStep
  BY <1>5 DEF LoopStep, TakeTick, TakeQuit, locals, storeVars
<1>6. ASSUME NEW c \in Currencies, PollCurrency(c) PROVE Goal
  BY <1>6 DEF PollCurrency, CurrencyFeeds, storeVars
<1>7. CASE PollDone
  BY <1>7 DEF PollDone, locals, storeVars
<1>8. ASSUME NEW f \in Feeds, NEW v \in Quotes, QuoteArrives(f, v) PROVE Goal
  <2>1. prices' \in [DOMAIN prices' -> [Value : Quotes, MinuteTS : Minutes]]
    BY <1>8 DEF QuoteArrives
  <2>2. DOMAIN prices' = DOMAIN prices \cup {f}
    BY <1>8 DEF QuoteArrives
  <2> QED
    BY <1>8, <2>1, <2>2 DEF QuoteArrives, storeVars
<1>9. ASSUME NEW f \in Feeds, FetchFails(f) PROVE Goal
  BY <1>9 DEF FetchFails, storeVars
<1>10. ASSUME LeaveCurrency, UNCHANGED <<latest, open>>, pc # "off" PROVE Goal
  <2>1. NoStored \in Stored
    BY StoreAssumption DEF NoStored, Stored, Uint64
  <2>2. /\ NoQuotes \in [DOMAIN NoQuotes -> [Value : Quotes, MinuteTS : Minutes]]
        /\ DOMAIN NoQuotes = {}
    BY DEF NoQuotes
  <2> QED
    BY <1>10, <2>1, <2>2 DEF LeaveCurrency, DropLocals
<1>11. CASE NoneObtained
  BY <1>10, <1>11 DEF NoneObtained, storeVars
<1>12. CASE AllReceived
  BY <1>12 DEF AllReceived, storeVars
<1>13. ASSUME NEW f \in Feeds, SaveQuote(f) PROVE Goal
  <2>1. open' = open
    BY <1>13 DEF SaveQuote, InsertFails, InsertExchangePrice, storeVars
  <2> QED
    BY <1>13, <2>1 DEF SaveQuote
<1>14. CASE Aggregate
  <2>1. median(QuotedValues) \in Uint64
    BY <1>14, MedianOfQuotes DEF Aggregate
  <2>2. stored' \in Stored
    BY <1>14, <2>1 DEF Aggregate, Stored
  <2> QED
    BY <1>14, <2>2 DEF Aggregate, storeVars
<1>15. CASE CommitAggregate
  BY <1>15 DEF CommitAggregate, InsertAggregatedPrice, locals
<1>16. CASE CommitFails
  BY <1>10, <1>16 DEF CommitFails, InsertFails, storeVars
<1>17. CASE Publish
  <2>1. latest' \in [DOMAIN latest' -> Stored] /\ DOMAIN latest' \subseteq Currencies
    BY <1>17 DEF Publish
  <2> QED
    BY <1>17, <2>1 DEF Publish, locals, storeVars
<1>18. CASE BroadcastUpdate
  BY <1>10, <1>18 DEF BroadcastUpdate, storeVars
<1>19. CASE UserStep
  BY <1>19 DEF UserStep, oracleVars, locals, storeVars
<1>20. CASE ClockTurns
  BY <1>20 DEF ClockTurns, locals, storeVars
<1>21. CASE UNCHANGED vars
  BY <1>21 DEF vars, oracleVars, locals, storeVars
<1>22. CASE StopReturns
  BY <1>22 DEF StopReturns, CloseStore, locals
<1>23. Exit \/ Crash => ProcessEnds
  BY DEF Exit, Crash
<1> QED
  BY <1>1, <1>2, <1>3, <1>4, <1>5, <1>6, <1>7, <1>8, <1>9, <1>11, <1>12, <1>13,
     <1>14, <1>15, <1>16, <1>17, <1>18, <1>19, <1>20, <1>21, <1>22,
     <1>23
  DEF Next, DaemonStep, FetchStep, PollStep

LEMMA TypeInvariant == Spec => []TypeInv
<1>1. TypeInv /\ [Next]_vars => TypeInv'
  BY StoreTypeStep, SubsTypeStep, PollerTypeStep DEF TypeInv, TypeOK
<1> QED
  BY <1>1, InitTypeInv, PTL DEF Spec

(***************************************************************************)
(* Every variable keeps its type: a stored value fits the signed column, a *)
(* median is a price, a row names a configured currency and feed.          *)
(***************************************************************************)
THEOREM TypeCorrect == Spec => []TypeOK
BY TypeInvariant, PTL DEF TypeInv

(***************************************************************************)
(* The poller never meets a closed store: Stop waits (oracle.go:121-126)   *)
(* before main.go closes it.                                               *)
(***************************************************************************)
THEOREM PollerAlwaysHasStore == Spec => []PollerHasStore
<1>1. TypeInv => PollerHasStore
  BY DEF TypeInv, ScopeOK, PollerHasStore
<1> QED
  BY <1>1, TypeInvariant, PTL

(***************************************************************************)
(* No broadcast of the oracle sends on a closed channel.                   *)
(***************************************************************************)
THEOREM OracleNeverSendsOnClosed == Spec => []SubscribedIsOpen
BY TypeInvariant, PTL DEF TypeInv

-----------------------------------------------------------------------------
(***************************************************************************)
(* The aggregate in hand is the median of quotes still in scope.           *)
(***************************************************************************)
LEMMA AggregateStep ==
    ASSUME TypeInv, AggregateResistsMinority, [Next]_vars
    PROVE  AggregateResistsMinority'
<1> USE DEF AggregateResistsMinority
<1>1. CASE Aggregate
  <2>1. DOMAIN prices # {} /\ ResistsMinority(QuotedValues, median(QuotedValues))
    BY <1>1, MedianOfQuotes DEF Aggregate, TypeInv, TypeOK, ScopeOK, AfterQuotes
  <2>2. QuotedValues' = QuotedValues /\ stored'.Value = median(QuotedValues)
    BY <1>1 DEF Aggregate, QuotedValues
  <2> QED
    BY <1>1, <2>1, <2>2 DEF Aggregate
<1>2. CASE UNCHANGED <<prices, stored>> /\ (pc \in AfterMedian \/ pc' \notin AfterMedian)
  BY <1>2 DEF QuotedValues, AfterMedian
<1>3. CASE pc' \notin AfterMedian
  BY <1>3 DEF AfterMedian
<1>4. [Next]_vars =>
        \/ Aggregate
        \/ UNCHANGED <<prices, stored>> /\ (pc \in AfterMedian \/ pc' \notin AfterMedian)
        \/ pc' \notin AfterMedian
  BY DEF Next, vars, oracleVars, locals, DaemonStep, LoopStep, FetchStep, PollStep,
         Start, Stop, StopReturns, Exit, Crash, ProcessEnds, TickerFires, TakeTick,
         TakeQuit,
         PollCurrency, PollDone, QuoteArrives, FetchFails, NoneObtained, AllReceived,
         SaveQuote, CommitAggregate, CommitFails, LeaveCurrency, Publish,
         BroadcastUpdate, UserStep, ClockTurns, AfterMedian
<1> QED
  BY <1>1, <1>2, <1>3, <1>4

(***************************************************************************)
(* What is stored, published and broadcast cannot be dictated by a         *)
(* minority of the feeds that answered, for any number of feeds.           *)
(***************************************************************************)
THEOREM AggregatesResistMinority == Spec => []AggregateResistsMinority
<1>1. Init => AggregateResistsMinority
  BY DEF Init, AggregateResistsMinority
<1>2. TypeInv /\ AggregateResistsMinority /\ [Next]_vars => AggregateResistsMinority'
  BY AggregateStep
<1> QED
  BY <1>1, <1>2, TypeInvariant, PTL DEF Spec

-----------------------------------------------------------------------------
(***************************************************************************)
(* InStep.  Only four kinds of step disturb it: the clock, the reading of  *)
(* the clock with the median, the INSERT of the aggregate, and Publish.    *)
(***************************************************************************)
LEMMA InStepClock ==
    ASSUME TypeInv, InStep, ClockTurns
    PROVE  InStep'
<1>1. now \in Int /\ now' = now + 1
  BY OracleAssumption DEF ClockTurns, TypeInv, TypeOK, PollerTypeOK
<1>2. \A k \in DOMAIN aggregated_prices : k[2] \in Int
  BY StoreAssumption DEF TypeInv, TypeOK, StoreTypeOK, IsTable, AggregateKeys
<1>3. stored.MinuteTS \in Int
  BY StoreAssumption DEF TypeInv, TypeOK, PollerTypeOK, Stored
<1> QED
  BY <1>1, <1>2, <1>3
  DEF ClockTurns, InStep, locals, storeVars, Publishing, IsNewestRow

LEMMA InStepAggregate ==
    ASSUME TypeInv, InStep, Aggregate
    PROVE  InStep'
<1>1. now \in Int /\ stored'.MinuteTS = now
  BY OracleAssumption DEF Aggregate, TypeInv, TypeOK, PollerTypeOK
<1> QED
  BY <1>1 DEF Aggregate, InStep, AfterMedian, storeVars, Publishing, IsNewestRow

LEMMA InStepCommit ==
    ASSUME TypeInv, InStep, CommitAggregate
    PROVE  InStep'
<1> DEFINE key == <<currency, stored.MinuteTS>>
           col == ToInt64(stored.Value)
<1>1. /\ aggregated_prices' = Upsert(aggregated_prices, key, col)
      /\ pc = "commit" /\ pc' = "publish"
      /\ UNCHANGED <<now, currency, stored, latest>>
  BY DEF CommitAggregate, InsertAggregatedPrice, locals
<1>2. DOMAIN aggregated_prices' = DOMAIN aggregated_prices \cup {key}
  BY <1>1 DEF Upsert
<1>3. aggregated_prices'[key] = col
  BY <1>1 DEF Upsert
<1>4. \A k \in DOMAIN aggregated_prices :
          k # key => aggregated_prices'[k] = aggregated_prices[k]
  BY <1>1 DEF Upsert
<1>5. stored.MinuteTS \in Int /\ stored.MinuteTS <= stored.MinuteTS
  BY StoreAssumption DEF TypeInv, TypeOK, PollerTypeOK, Stored
<1>6. /\ stored.MinuteTS <= now
      /\ \A k \in DOMAIN aggregated_prices :
            k[1] = currency => k[2] <= stored.MinuteTS
  BY <1>1 DEF InStep, AfterMedian
<1>7. \A k \in DOMAIN aggregated_prices' : k[2] <= now'
  BY <1>1, <1>2, <1>6 DEF InStep
<1>8. \A k \in DOMAIN aggregated_prices' :
          k[1] = currency' => k[2] <= stored'.MinuteTS
  BY <1>1, <1>2, <1>5, <1>6
<1>9. \A c \in DOMAIN latest' :
          /\ <<c, latest'[c].MinuteTS>> \in DOMAIN aggregated_prices'
          /\ \/ Publishing(c)'
             \/ /\ IsNewestRow(c, latest[c].MinuteTS)'
                /\ aggregated_prices'[<<c, latest'[c].MinuteTS>>] =
                      ToInt64(latest'[c].Value)
  <2>1. SUFFICES ASSUME NEW c \in DOMAIN latest, c # currency
                 PROVE  /\ IsNewestRow(c, latest[c].MinuteTS)'
                        /\ aggregated_prices'[<<c, latest[c].MinuteTS>>] =
                              ToInt64(latest[c].Value)
    BY <1>1, <1>2 DEF InStep, Publishing
  <2>2. /\ IsNewestRow(c, latest[c].MinuteTS)
        /\ aggregated_prices[<<c, latest[c].MinuteTS>>] = ToInt64(latest[c].Value)
    BY <1>1, <2>1 DEF InStep, Publishing
  <2>3. key # <<c, latest[c].MinuteTS>> /\ key[1] # c
    BY <2>1
  <2> QED
    BY <1>1, <1>2, <1>4, <2>2, <2>3 DEF IsNewestRow
<1> QED
  BY <1>1, <1>2, <1>3, <1>6, <1>7, <1>8, <1>9 DEF InStep, AfterMedian

LEMMA InStepPublish ==
    ASSUME TypeInv, InStep, Publish
    PROVE  InStep'
<1>1. /\ pc = "publish" /\ pc' = "broadcast"
      /\ latest' = [c \in DOMAIN latest \cup {currency} |->
                       IF c = currency THEN stored ELSE latest[c]]
      /\ UNCHANGED <<now, currency, stored, aggregated_prices>>
  BY DEF Publish, locals, storeVars
<1>2. /\ IsNewestRow(currency, stored.MinuteTS)
      /\ aggregated_prices[<<currency, stored.MinuteTS>>] = ToInt64(stored.Value)
  BY <1>1 DEF InStep, AfterMedian, IsNewestRow
<1>3. \A c \in DOMAIN latest' :
          /\ <<c, latest'[c].MinuteTS>> \in DOMAIN aggregated_prices'
          /\ IsNewestRow(c, latest[c].MinuteTS)'
          /\ aggregated_prices'[<<c, latest'[c].MinuteTS>>] = ToInt64(latest'[c].Value)
  BY <1>1, <1>2 DEF InStep, IsNewestRow, Publishing
<1>4. currency' \in DOMAIN latest' /\ latest'[currency'] = stored'
  BY <1>1
<1> QED
  BY <1>1, <1>2, <1>3, <1>4 DEF InStep, AfterMedian

LEMMA InStepStep ==
    ASSUME TypeInv, InStep, [Next]_vars
    PROVE  InStep'
<1>1. CASE /\ UNCHANGED <<now, aggregated_prices, latest>>
           /\ pc' \notin AfterMedian /\ pc # "publish"
  BY <1>1 DEF InStep, AfterMedian, Publishing, IsNewestRow
<1>2. CASE UNCHANGED <<now, aggregated_prices, latest, pc, currency, stored>>
  BY <1>2 DEF InStep, AfterMedian, Publishing, IsNewestRow
<1>3. CASE ProcessEnds /\ UNCHANGED aggregated_prices
  BY <1>3 DEF ProcessEnds, InStep, AfterMedian, NoPrices
<1>4. [Next]_vars =>
        \/ ClockTurns \/ Aggregate \/ CommitAggregate \/ Publish
        \/ /\ UNCHANGED <<now, aggregated_prices, latest>>
           /\ pc' \notin AfterMedian /\ pc # "publish"
        \/ UNCHANGED <<now, aggregated_prices, latest, pc, currency, stored>>
        \/ ProcessEnds /\ UNCHANGED aggregated_prices
  BY DEF Next, vars, oracleVars, locals, storeVars, DaemonStep, LoopStep, FetchStep,
         PollStep, Start, OpenStore, CloseStore, Stop, StopReturns, Exit, Crash,
         TickerFires, TakeTick,
         TakeQuit, PollCurrency, PollDone, QuoteArrives, FetchFails, NoneObtained,
         AllReceived, SaveQuote, InsertExchangePrice, InsertFails, CommitFails,
         LeaveCurrency, BroadcastUpdate, UserStep, AfterMedian, TypeInv, ScopeOK
<1> QED
  BY <1>1, <1>2, <1>3, <1>4, InStepClock, InStepAggregate, InStepCommit, InStepPublish

LEMMA InStepInvariant == Spec => []InStep
<1>1. Init => InStep
  BY DEF Init, StoreInit, EmptyTable, NoPrices, InStep, AfterMedian
<1>2. TypeInv /\ InStep /\ [Next]_vars => InStep'
  BY InStepStep
<1> QED
  BY <1>1, <1>2, TypeInvariant, PTL DEF Spec

-----------------------------------------------------------------------------
\* The row newer than every other is the one a lookup of the latest finds.
LEMMA LatestIsNewestRow ==
    ASSUME TypeInv, NEW c, NEW m, IsNewestRow(c, m)
    PROVE  LatestAggregatedPrice(c) =
              [found |-> TRUE, Value |-> ToUint64(aggregated_prices[<<c, m>>]),
               MinuteTS |-> m]
<1> DEFINE M == AggregatedMinutes(c)
           rows == AggregatedRows(c, M)
<1>1. \A k \in DOMAIN aggregated_prices : k = <<k[1], k[2]>> /\ k[2] \in Minutes
  BY DEF TypeInv, TypeOK, StoreTypeOK, IsTable, AggregateKeys
<1>2. M \in SUBSET Int /\ m \in M /\ \A n \in M : n <= m
  BY <1>1, StoreAssumption DEF IsNewestRow, AggregatedMinutes
<1>3. DOMAIN rows = M /\ rows[m] = aggregated_prices[<<c, m>>]
  BY <1>2 DEF AggregatedRows
<1> HIDE DEF rows, M
<1>4. Newest(rows) = StoredPrice(rows[m], m)
  BY <1>2, <1>3, NewestIs
<1> QED
  BY <1>3, <1>4 DEF LatestAggregatedPrice, StoredPrice, rows, M

(***************************************************************************)
(* LatestPrice and the store agree, but for the moment between the INSERT  *)
(* and the publication of a newer aggregate.                               *)
(***************************************************************************)
THEOREM LatestAgreesWithStore == Spec => []LatestIsNewest
<1>1. TypeInv /\ InStep => LatestIsNewest
  <2>1. SUFFICES ASSUME TypeInv, InStep, NEW c \in DOMAIN latest, ~Publishing(c)
                 PROVE  LatestAggregatedPrice(c) =
                           [found |-> TRUE, Value |-> latest[c].Value,
                            MinuteTS |-> latest[c].MinuteTS]
    BY DEF LatestIsNewest
  <2>2. /\ IsNewestRow(c, latest[c].MinuteTS)
        /\ aggregated_prices[<<c, latest[c].MinuteTS>>] = ToInt64(latest[c].Value)
    BY <2>1 DEF InStep
  <2>3. latest[c].Value \in Uint64
    BY <2>1 DEF TypeInv, TypeOK, PollerTypeOK, Stored
  <2> QED
    BY <2>1, <2>2, <2>3, LatestIsNewestRow, ValueRoundTrips
<1> QED
  BY <1>1, TypeInvariant, InStepInvariant, PTL

(***************************************************************************)
(* Once a currency has a later row the lookup of a minute is settled.      *)
(***************************************************************************)
LEMMA PastStep ==
    ASSUME TypeInv, InStep, [Next]_vars,
           aggregated_prices' # aggregated_prices,
           NEW k \in DOMAIN aggregated_prices, NEW m \in Minutes, m < k[2]
    PROVE  AggregatedPriceAt(k[1], m)' = AggregatedPriceAt(k[1], m)
<1>1. CommitAggregate
  BY DEF Next, vars, oracleVars, locals, storeVars, DaemonStep, LoopStep, FetchStep,
         PollStep, Start, OpenStore, CloseStore, Stop, StopReturns, Exit, Crash,
         TickerFires, TakeTick, TakeQuit, PollCurrency, PollDone, QuoteArrives,
         FetchFails, NoneObtained, AllReceived, SaveQuote, InsertExchangePrice,
         InsertFails, Aggregate, CommitFails, Publish, BroadcastUpdate, UserStep,
         ClockTurns
<1> DEFINE key == <<currency, stored.MinuteTS>>
<1>2. /\ aggregated_prices' = Upsert(aggregated_prices, key, ToInt64(stored.Value))
      /\ StoreTypeOK /\ key \in AggregateKeys
  BY <1>1 DEF CommitAggregate, InsertAggregatedPrice, InStep, AfterMedian, ScopeOK,
              AfterQuotes, TypeInv, TypeOK, PollerTypeOK, Stored, AggregateKeys
<1>3. ~(key[1] = k[1] /\ key[2] <= m)
  <2>1. k[1] = currency => k[2] <= stored.MinuteTS
    BY <1>1 DEF CommitAggregate, InStep, AfterMedian
  <2>2. m \in Int /\ k[2] \in Int /\ stored.MinuteTS \in Int
    BY StoreAssumption DEF TypeInv, TypeOK, PollerTypeOK, Stored, StoreTypeOK,
                           IsTable, AggregateKeys
  <2> QED
    BY <2>1, <2>2
<1> HIDE DEF key
<1> QED
  BY <1>2, <1>3, LookupUnmoved

(***************************************************************************)
(* The past is settled: a lookup of a minute before a stored one answers   *)
(* the same for ever.                                                      *)
(***************************************************************************)
THEOREM PastSettled == Spec => PastIsSettled
<1>1. TypeInv /\ InStep /\ [Next]_vars =>
        [\A k \in DOMAIN aggregated_prices, m \in Minutes :
            m < k[2] => AggregatedPriceAt(k[1], m)' = AggregatedPriceAt(k[1], m)
        ]_aggregated_prices
  BY PastStep
<1> QED
  BY <1>1, TypeInvariant, InStepInvariant, PTL DEF Spec, PastIsSettled

-----------------------------------------------------------------------------
(***************************************************************************)
(* Subscribers.  The prices and rows an update refers to stay, or grow.    *)
(***************************************************************************)

\* Everything that is not ahead now is not ahead after the step.
Kept == \A u \in Updates : NotAhead(u) => NotAhead(u)'

LEMMA PricesOnlyGrow ==
    ASSUME TypeInv, InStep, [Next]_vars
    PROVE  Kept \/ (ProcessEnds /\ UNCHANGED aggregated_prices)
<1> USE DEF Kept, NotAhead
<1>1. CASE UNCHANGED <<aggregated_prices, latest>>
  BY <1>1
<1>2. CASE CommitAggregate
  <2>1. DOMAIN aggregated_prices \subseteq DOMAIN aggregated_prices' /\ latest' = latest
    BY <1>2 DEF CommitAggregate, InsertAggregatedPrice, Upsert
  <2> QED
    BY <2>1
<1>3. CASE Publish
  <2>1. /\ aggregated_prices' = aggregated_prices
        /\ latest' = [c \in DOMAIN latest \cup {currency} |->
                         IF c = currency THEN stored ELSE latest[c]]
    BY <1>3 DEF Publish, storeVars
  <2>2. \A k \in DOMAIN aggregated_prices :
            k[1] = currency => k[2] <= stored.MinuteTS
    BY <1>3 DEF Publish, InStep, AfterMedian
  <2>3. SUFFICES ASSUME NEW u \in Updates, NotAhead(u) PROVE NotAhead(u)'
    OBVIOUS
  <2>4. CASE u.Currency = currency
    <3>1. u.Price.MinuteTS <= stored.MinuteTS
      BY <2>2, <2>3, <2>4
    <3> QED
      BY <2>1, <2>3, <2>4, <3>1
  <2>5. CASE u.Currency # currency
    BY <2>1, <2>3, <2>5
  <2> QED
    BY <2>4, <2>5
<1>4. [Next]_vars =>
        \/ UNCHANGED <<aggregated_prices, latest>>
        \/ CommitAggregate \/ Publish
        \/ ProcessEnds /\ UNCHANGED aggregated_prices
  BY DEF Next, vars, oracleVars, locals, storeVars, DaemonStep, LoopStep, FetchStep,
         PollStep, Start, OpenStore, CloseStore, Stop, StopReturns, Exit, Crash,
         TickerFires, TakeTick,
         TakeQuit, PollCurrency, PollDone, QuoteArrives, FetchFails, NoneObtained,
         AllReceived, SaveQuote, InsertExchangePrice, InsertFails, Aggregate,
         CommitFails, LeaveCurrency, BroadcastUpdate, UserStep, ClockTurns
<1> QED
  BY <1>1, <1>2, <1>3, <1>4

\* A buffer of updates not ahead of latest and in the order of their minutes.
Behind(buf) == (\A i \in DOMAIN buf : NotAhead(buf[i])) /\ InMinuteOrder(buf)

LEMMA BehindStays ==
    ASSUME Kept, NEW buf \in Seq(Updates), Behind(buf)
    PROVE  (\A i \in DOMAIN buf : NotAhead(buf[i])') /\ InMinuteOrder(buf)
<1>1. \A i \in DOMAIN buf : buf[i] \in Updates
  OBVIOUS
<1> QED
  BY <1>1 DEF Kept, Behind

LEMMA BehindAppend ==
    ASSUME TypeInv, NEW buf \in Seq(Updates), Behind(buf),
           NEW update \in Updates, update.Currency \in DOMAIN latest,
           latest[update.Currency] = update.Price, NotAhead(update)
    PROVE  Behind(Offer(buf, update))
<1>1. CASE Len(buf) < SubBufferSize
  <2> DEFINE new == Append(buf, update)
  <2>1. Offer(buf, update) = new
    BY <1>1 DEF Offer
  <2>2. /\ DOMAIN new = 1 .. Len(buf) + 1 /\ DOMAIN buf = 1 .. Len(buf)
        /\ Len(buf) \in Nat /\ new[Len(buf) + 1] = update
        /\ \A i \in DOMAIN buf : new[i] = buf[i]
    OBVIOUS
  <2> HIDE DEF new
  <2>3. \A i \in DOMAIN new : NotAhead(new[i])
    <3> TAKE i \in DOMAIN new
    <3>1. CASE i = Len(buf) + 1
      BY <2>2, <3>1
    <3>2. CASE i # Len(buf) + 1
      <4>1. i \in DOMAIN buf /\ new[i] = buf[i]
        BY <2>2, <3>2
      <4> QED
        BY <4>1 DEF Behind
    <3> QED
      BY <3>1, <3>2
  <2>4. InMinuteOrder(new)
    <3>1. SUFFICES ASSUME NEW i \in DOMAIN new, NEW j \in DOMAIN new,
                          i < j, new[i].Currency = new[j].Currency
                   PROVE  new[i].Price.MinuteTS <= new[j].Price.MinuteTS
      BY DEF InMinuteOrder
    <3>2. i \in DOMAIN buf /\ new[i] = buf[i]
      BY <2>2, <3>1
    <3>3. CASE j = Len(buf) + 1
      <4>1. NotAhead(buf[i]) /\ new[j] = update
        BY <2>2, <3>2, <3>3 DEF Behind
      <4> QED
        BY <3>1, <3>2, <4>1 DEF NotAhead
    <3>4. CASE j # Len(buf) + 1
      <4>1. j \in DOMAIN buf /\ new[j] = buf[j]
        BY <2>2, <3>4
      <4> QED
        BY <3>1, <3>2, <4>1 DEF Behind, InMinuteOrder
    <3> QED
      BY <3>3, <3>4
  <2> QED
    BY <2>1, <2>3, <2>4 DEF Behind
<1>2. CASE ~(Len(buf) < SubBufferSize)
  BY <1>2 DEF Offer
<1> QED
  BY <1>1, <1>2

LEMMA BehindTail ==
    ASSUME NEW buf \in Seq(Updates), buf # <<>>, Behind(buf)
    PROVE  Behind(Tail(buf))
<1>1. \A i \in DOMAIN Tail(buf) : i + 1 \in DOMAIN buf /\ Tail(buf)[i] = buf[i + 1]
                                  /\ i \in Nat
  OBVIOUS
<1>2. \A i, j \in DOMAIN Tail(buf) : i < j => i + 1 < j + 1
  BY <1>1
<1> HIDE DEF Behind
<1> QED
  BY <1>1, <1>2 DEF Behind, InMinuteOrder

\* Buffers that were behind before a step that keeps the prices are after it.
LEMMA FollowAfter ==
    ASSUME Kept,
           \A id \in DOMAIN chans' :
              \E buf \in Seq(Updates) : Behind(buf) /\ chans'[id].buf = buf
    PROVE  UpdatesFollowLatest'
<1>1. SUFFICES ASSUME NEW id \in DOMAIN chans'
               PROVE  /\ \A i \in DOMAIN chans'[id].buf : NotAhead(chans[id].buf[i])'
                      /\ InMinuteOrder(chans'[id].buf)
  BY DEF UpdatesFollowLatest, InMinuteOrder
<1>2. PICK buf \in Seq(Updates) : Behind(buf) /\ chans'[id].buf = buf
  OBVIOUS
<1>3. (\A i \in DOMAIN buf : NotAhead(buf[i])') /\ InMinuteOrder(buf)
  BY <1>2, BehindStays
<1> QED
  BY <1>2, <1>3 DEF NotAhead

LEMMA FollowStep ==
    ASSUME TypeInv, InStep, UpdatesFollowLatest, [Next]_vars
    PROVE  UpdatesFollowLatest'
<1> DEFINE BehindNext == \A id \in DOMAIN chans' :
               \E buf \in Seq(Updates) : Behind(buf) /\ chans'[id].buf = buf
<1>1. \A id \in DOMAIN chans :
          chans[id] \in Channel /\ chans[id].buf \in Seq(Updates) /\ Behind(chans[id].buf)
  BY DEF TypeInv, TypeOK, SubsTypeOK, Channel, UpdatesFollowLatest, Behind
<1>2. CASE UNCHANGED chans
  <2>1. BehindNext
    BY <1>1, <1>2
  <2>2. CASE Kept
    BY <2>1, <2>2, FollowAfter
  <2>3. CASE ProcessEnds
    BY <2>3 DEF ProcessEnds, NoChannels, UpdatesFollowLatest
  <2> QED
    BY <2>2, <2>3, PricesOnlyGrow
<1>3. CASE ProcessEnds
  BY <1>3 DEF ProcessEnds, NoChannels, UpdatesFollowLatest
<1>4. CASE UserStep
  <2>1. Kept
    BY <1>4 DEF UserStep, oracleVars, storeVars, Kept, NotAhead
  <2>2. CASE SubscribePrice
    <3>1. \A id \in DOMAIN chans' : id \in DOMAIN chans \/ chans'[id].buf = <<>>
      BY <2>2 DEF SubscribePrice
    <3>2. \A id \in DOMAIN chans : chans'[id] = chans[id] \/ chans'[id].buf = <<>>
      BY <2>2 DEF SubscribePrice
    <3>3. <<>> \in Seq(Updates) /\ Behind(<<>>)
      BY DEF Behind, InMinuteOrder
    <3>4. BehindNext
      BY <1>1, <3>1, <3>2, <3>3
    <3> QED
      BY <2>1, <3>4, FollowAfter
  <2>3. ASSUME NEW c \in subs, Cancel(c) PROVE UpdatesFollowLatest'
    <3>1. \A id \in DOMAIN chans' : id \in DOMAIN chans /\ chans'[id].buf = chans[id].buf
      BY <1>1, <2>3 DEF Cancel, Channel
    <3>2. BehindNext
      BY <1>1, <3>1
    <3> QED
      BY <2>1, <3>2, FollowAfter
  <2>4. ASSUME NEW r \in DOMAIN chans, Receive(r) PROVE UpdatesFollowLatest'
    <3>1. /\ chans[r].buf # <<>>
          /\ \A id \in DOMAIN chans' :
                 /\ id \in DOMAIN chans
                 /\ chans'[id].buf = IF id = r THEN Tail(chans[r].buf) ELSE chans[id].buf
      BY <1>1, <2>4 DEF Receive, Channel
    <3>2. Tail(chans[r].buf) \in Seq(Updates) /\ Behind(Tail(chans[r].buf))
      BY <1>1, <3>1, BehindTail
    <3>3. BehindNext
      BY <1>1, <3>1, <3>2
    <3> QED
      BY <2>1, <3>3, FollowAfter
  <2> QED
    BY <1>4, <2>2, <2>3, <2>4 DEF UserStep
<1>5. CASE BroadcastUpdate
  <2> DEFINE update == [Currency |-> currency, Price |-> stored]
  <2>1. Kept
    BY <1>5 DEF BroadcastUpdate, storeVars, Kept, NotAhead
  <2>2. update \in Updates
    BY <1>5, OracleAssumption DEF BroadcastUpdate, TypeInv, TypeOK, PollerTypeOK,
                                  ScopeOK, AfterQuotes, Stored
  <2>3. /\ update.Currency \in DOMAIN latest
        /\ latest[update.Currency] = update.Price
        /\ <<update.Currency, update.Price.MinuteTS>> \in DOMAIN aggregated_prices
    BY <1>5 DEF BroadcastUpdate, InStep
  <2>4. NotAhead(update)
    <3>1. stored.MinuteTS \in Int
      BY StoreAssumption DEF TypeInv, TypeOK, PollerTypeOK, Stored
    <3> QED
      BY <2>3, <3>1 DEF NotAhead
  <2>5. Broadcast(update)
    BY <1>5 DEF BroadcastUpdate
  <2> HIDE DEF update
  <2>6. \A id \in DOMAIN chans' :
            /\ id \in DOMAIN chans
            /\ chans'[id].buf \in {chans[id].buf, Offer(chans[id].buf, update)}
    BY <1>1, <2>5 DEF Broadcast, Channel
  <2>7. \A buf \in Seq(Updates) :
            Behind(buf) => /\ Offer(buf, update) \in Seq(Updates)
                           /\ Behind(Offer(buf, update))
    BY <2>2, <2>3, <2>4, BehindAppend DEF Offer
  <2>8. BehindNext
    BY <1>1, <2>6, <2>7
  <2> QED
    BY <2>1, <2>8, FollowAfter
<1>6. [Next]_vars => UNCHANGED chans \/ ProcessEnds \/ UserStep \/ BroadcastUpdate
  BY DEF Next, vars, subsVars, DaemonStep, LoopStep, FetchStep, PollStep, Start, Stop,
         StopReturns, Exit, Crash, TickerFires, TakeTick, TakeQuit, PollCurrency,
         PollDone,
         QuoteArrives, FetchFails, NoneObtained, AllReceived, SaveQuote, Aggregate,
         CommitAggregate, CommitFails, Publish, ClockTurns
<1> QED
  BY <1>2, <1>3, <1>4, <1>5, <1>6

(***************************************************************************)
(* A subscriber never learns of a price before LatestPrice and the store   *)
(* have it, for any number of subscribers and any buffer.                  *)
(***************************************************************************)
THEOREM SubscribersNeverAhead == Spec => []UpdatesFollowLatest
<1>1. Init => UpdatesFollowLatest
  BY DEF Init, SubsInit, NoChannels, UpdatesFollowLatest
<1>2. TypeInv /\ InStep /\ UpdatesFollowLatest /\ [Next]_vars => UpdatesFollowLatest'
  BY FollowStep
<1> QED
  BY <1>1, <1>2, TypeInvariant, InStepInvariant, PTL DEF Spec

-----------------------------------------------------------------------------
(***************************************************************************)
(* Refinement: INSERT of an aggregate records, Publish announces, the end  *)
(* of the process wipes, everything else stutters.                         *)
(***************************************************************************)
THEOREM OracleImplementsHistory == Spec => ImplementsHistory
<1> DEFINE hist == [k \in DOMAIN aggregated_prices |-> ToUint64(aggregated_prices[k])]
<1>1. Init => H!Init
  BY DEF Init, StoreInit, EmptyTable, NoPrices, H!Init, H!NoEntries
<1>2. ASSUME TypeInv, InStep, [Next]_vars
      PROVE  [H!Next]_(H!historyVars)
  <2>1. CASE UNCHANGED <<aggregated_prices, latest>>
    BY <2>1 DEF H!historyVars
  <2>2. CASE CommitAggregate
    <3> DEFINE key == <<currency, stored.MinuteTS>>
               col == ToInt64(stored.Value)
    <3>1. /\ currency \in Currencies /\ stored.MinuteTS \in Minutes
          /\ stored.Value \in Uint64
      BY <1>2, <2>2 DEF CommitAggregate, TypeInv, TypeOK, PollerTypeOK, Stored,
                        ScopeOK, AfterQuotes
    <3>2. aggregated_prices' = Upsert(aggregated_prices, key, col) /\ latest' = latest
      BY <2>2 DEF CommitAggregate, InsertAggregatedPrice
    <3>3. \A k \in DOMAIN aggregated_prices : k[1] = currency => k[2] <= stored.MinuteTS
      BY <1>2, <2>2 DEF CommitAggregate, InStep, AfterMedian
    <3>4. ToUint64(col) = stored.Value
      BY <3>1, ValueRoundTrips
    <3>5. hist' = H!With(hist, key, stored.Value)
      BY <3>2, <3>4 DEF H!With, Upsert
    <3>6. H!Record(currency, stored.MinuteTS, stored.Value)
      BY <3>2, <3>3, <3>5 DEF H!Record
    <3> QED
      BY <3>1, <3>6 DEF H!Next
  <2>3. CASE Publish
    <3>1. /\ pc = "publish" /\ aggregated_prices' = aggregated_prices
          /\ latest' = [c \in DOMAIN latest \cup {currency} |->
                           IF c = currency THEN stored ELSE latest[c]]
      BY <2>3 DEF Publish, storeVars
    <3>2. /\ currency \in Currencies /\ stored.MinuteTS \in Minutes
          /\ stored.Value \in Uint64 /\ stored \in Stored
      BY <1>2, <3>1 DEF TypeInv, TypeOK, PollerTypeOK, Stored, ScopeOK, AfterQuotes
    <3>3. /\ IsNewestRow(currency, stored.MinuteTS)
          /\ aggregated_prices[<<currency, stored.MinuteTS>>] = ToInt64(stored.Value)
      BY <1>2, <3>1 DEF InStep, AfterMedian, IsNewestRow
    <3>4. stored = [Value |-> hist[<<currency, stored.MinuteTS>>],
                    MinuteTS |-> stored.MinuteTS]
      BY <3>2, <3>3, ValueRoundTrips DEF Stored, IsNewestRow
    <3>5. H!IsNewestAt(currency, stored.MinuteTS)
      BY <3>3 DEF H!IsNewestAt, IsNewestRow
    <3>6. latest' = H!With(latest, currency, stored)
      BY <3>1 DEF H!With
    <3>7. H!Announce(currency, stored.MinuteTS)
      BY <3>1, <3>4, <3>5, <3>6 DEF H!Announce
    <3> QED
      BY <3>2, <3>7 DEF H!Next
  <2>4. CASE ProcessEnds /\ UNCHANGED aggregated_prices
    <3>1. latest' = H!NoEntries /\ aggregated_prices' = aggregated_prices
      BY <2>4 DEF ProcessEnds, NoPrices, H!NoEntries
    <3>2. H!Wipe
      BY <3>1 DEF H!Wipe
    <3> QED
      BY <3>2 DEF H!Next
  <2> QED
    BY <1>2, <2>1, <2>2, <2>3, <2>4
    DEF Next, vars, oracleVars, locals, storeVars, DaemonStep, LoopStep, FetchStep,
        PollStep, Start, OpenStore, CloseStore, Stop, StopReturns, Exit, Crash,
         TickerFires, TakeTick,
        TakeQuit, PollCurrency, PollDone, QuoteArrives, FetchFails, NoneObtained,
        AllReceived, SaveQuote, InsertExchangePrice, InsertFails, Aggregate,
        CommitFails, LeaveCurrency, BroadcastUpdate, UserStep, ClockTurns
<1> QED
  BY <1>1, <1>2, TypeInvariant, InStepInvariant, PTL DEF Spec, ImplementsHistory, H!Spec

-----------------------------------------------------------------------------
(***************************************************************************)
(* Samples.  SavedSoFar is inductive relative to the types; the arrival of *)
(* a quote, the INSERT of one, the clock and the start of a currency       *)
(* disturb it.                                                             *)
(***************************************************************************)

\* A quote is stamped with the minute it arrives in, no row being newer.
LEMMA ArrivalStep ==
    ASSUME TypeInv, SavedSoFar, NEW f \in Feeds, NEW v \in Quotes,
           QuoteArrives(f, v)
    PROVE  SavedSoFar'
<1>1. /\ pc = "gather" /\ pc' = pc /\ now' = now /\ currency' = currency
      /\ exchange_prices' = exchange_prices
      /\ DOMAIN prices' = DOMAIN prices \cup {f}
      /\ prices'[f].MinuteTS = now
      /\ \A g \in DOMAIN prices : g # f => prices'[g] = prices[g]
  BY DEF QuoteArrives, storeVars
<1>2. now <= now
  BY StoreAssumption DEF TypeInv, TypeOK, PollerTypeOK
<1>3. ASSUME NEW g \in DOMAIN prices'
      PROVE  /\ prices'[g].MinuteTS <= now
             /\ \A k \in DOMAIN exchange_prices :
                   k[1] = g /\ k[2] = currency => k[3] <= prices'[g].MinuteTS
  <2>1. CASE g = f
    BY <1>1, <1>2, <2>1 DEF SavedSoFar
  <2>2. CASE g # f
    BY <1>1, <1>3, <2>2 DEF SavedSoFar
  <2> QED
    BY <2>1, <2>2
<1> QED
  BY <1>1, <1>3 DEF SavedSoFar, AfterQuotes, AfterMedian

\* The INSERT of a quote leaves its row or marks it lost.
LEMMA SaveStep ==
    ASSUME TypeInv, SavedSoFar, NEW f \in Feeds, SaveQuote(f)
    PROVE  SavedSoFar'
<1> DEFINE key == <<f, currency, prices[f].MinuteTS>>
<1>1. /\ pc = "persist" /\ f \in DOMAIN prices /\ unsaved' = unsaved \ {f}
      /\ UNCHANGED <<now, pc, prices, currency>>
  BY DEF SaveQuote, TypeInv, TypeOK, PollerTypeOK
<1>2. prices[f].MinuteTS <= now /\ prices[f].MinuteTS <= prices[f].MinuteTS
  BY <1>1, StoreAssumption DEF SavedSoFar, TypeInv, TypeOK, PollerTypeOK
<1>3. CASE UNCHANGED exchange_prices /\ lost' = lost \cup {f}
  <2>1. DOMAIN prices' \ (unsaved' \cup lost') \subseteq
           DOMAIN prices \ (unsaved \cup lost)
    BY <1>1, <1>3
  <2> QED
    BY <1>1, <1>3, <2>1 DEF SavedSoFar, AfterQuotes, AfterMedian
<1>4. CASE /\ exchange_prices' = Upsert(exchange_prices, key, ToInt64(prices[f].Value))
           /\ lost' = lost
  <2>1. /\ DOMAIN exchange_prices' = DOMAIN exchange_prices \cup {key}
        /\ exchange_prices'[key] = ToInt64(prices[f].Value)
        /\ \A k \in DOMAIN exchange_prices :
              k # key => exchange_prices'[k] = exchange_prices[k]
    BY <1>4 DEF Upsert
  <2>2. \A k \in DOMAIN exchange_prices' : k[3] <= now
    BY <1>2, <2>1 DEF SavedSoFar
  <2>3. ASSUME NEW g \in DOMAIN prices
        PROVE  /\ prices[g].MinuteTS <= now
               /\ \A k \in DOMAIN exchange_prices' :
                     k[1] = g /\ k[2] = currency => k[3] <= prices[g].MinuteTS
    BY <1>2, <2>1 DEF SavedSoFar
  <2>4. ASSUME NEW g \in DOMAIN prices \ (unsaved' \cup lost)
        PROVE  /\ <<g, currency, prices[g].MinuteTS>> \in DOMAIN exchange_prices'
               /\ exchange_prices'[<<g, currency, prices[g].MinuteTS>>] =
                     ToInt64(prices[g].Value)
    <3>1. CASE g = f
      BY <2>1, <3>1
    <3>2. CASE g # f
      <4>1. g \in DOMAIN prices \ (unsaved \cup lost)
        BY <1>1, <2>4, <3>2
      <4> QED
        BY <1>1, <2>1, <3>2, <4>1 DEF SavedSoFar, AfterQuotes
    <3> QED
      BY <3>1, <3>2
  <2> HIDE DEF key
  <2> QED
    BY <1>1, <1>4, <2>2, <2>3, <2>4 DEF SavedSoFar, AfterQuotes, AfterMedian
<1> QED
  BY <1>3, <1>4 DEF SaveQuote, InsertExchangePrice, InsertFails, storeVars

\* No row and no quote is of a minute past the new one.
LEMMA ClockKeepsSamples ==
    ASSUME TypeInv, SavedSoFar, ClockTurns
    PROVE  SavedSoFar'
<1>1. /\ now' = now + 1 /\ UNCHANGED <<pc, exchange_prices>>
      /\ UNCHANGED <<currency, prices, unsaved, lost>>
  BY DEF ClockTurns, locals, storeVars
<1>2. now \in Int
  BY StoreAssumption DEF TypeInv, TypeOK, PollerTypeOK
<1>3. \A k \in DOMAIN exchange_prices : k[3] \in Int
  BY StoreAssumption DEF TypeInv, TypeOK, StoreTypeOK, IsTable, ExchangeKeys
<1>4. \A f \in DOMAIN prices : prices[f].MinuteTS \in Int
  BY StoreAssumption DEF TypeInv, TypeOK, PollerTypeOK
<1>5. /\ \A k \in DOMAIN exchange_prices : k[3] <= now'
      /\ \A f \in DOMAIN prices : prices[f].MinuteTS <= now'
  BY <1>1, <1>2, <1>3, <1>4 DEF SavedSoFar
<1> QED
  BY <1>1, <1>5 DEF SavedSoFar

LEMMA SavedSoFarStep ==
    ASSUME TypeInv, SavedSoFar, [Next]_vars
    PROVE  SavedSoFar'
<1>1. ASSUME NEW c \in Currencies, PollCurrency(c) PROVE SavedSoFar'
  <2>1. pc = "poll" /\ pc' = "gather" /\ UNCHANGED <<now, prices, exchange_prices>>
    BY <1>1 DEF PollCurrency, storeVars
  <2> QED
    BY <2>1 DEF SavedSoFar, AfterQuotes, AfterMedian
<1>2. CASE Aggregate
  BY <1>2 DEF Aggregate, storeVars, SavedSoFar, AfterQuotes, AfterMedian
<1>3. CASE AllReceived
  <2>1. /\ unsaved' = DOMAIN prices /\ pc' = "persist"
        /\ UNCHANGED <<now, prices, currency, exchange_prices>>
    BY <1>3 DEF AllReceived, storeVars
  <2> QED
    BY <2>1 DEF SavedSoFar, AfterQuotes, AfterMedian
<1>4. CASE /\ UNCHANGED <<now, prices, unsaved, lost, currency, exchange_prices>>
           /\ pc' \in AfterMedian => pc \in AfterMedian
           /\ pc' \in AfterQuotes => pc \in AfterQuotes
           /\ pc' \in {"off", "select", "poll"} => pc \in {"off", "select", "poll"}
  BY <1>4 DEF SavedSoFar
<1>5. CASE /\ prices' = NoQuotes /\ UNCHANGED <<now, exchange_prices>>
           /\ pc' \notin AfterQuotes
  BY <1>5 DEF NoQuotes, SavedSoFar, AfterQuotes, AfterMedian
<1>6. daemon = "down" => pc = "off"
  BY DEF TypeInv, ScopeOK
<1>7. [Next]_vars =>
        \/ \E f \in Feeds, v \in Quotes : QuoteArrives(f, v)
        \/ \E f \in Feeds : SaveQuote(f)
        \/ \E c \in Currencies : PollCurrency(c)
        \/ Aggregate \/ AllReceived \/ ClockTurns
        \/ /\ UNCHANGED <<now, prices, unsaved, lost, currency, exchange_prices>>
           /\ pc' \in AfterMedian => pc \in AfterMedian
           /\ pc' \in AfterQuotes => pc \in AfterQuotes
           /\ pc' \in {"off", "select", "poll"} => pc \in {"off", "select", "poll"}
        \/ /\ prices' = NoQuotes /\ UNCHANGED <<now, exchange_prices>>
           /\ pc' \notin AfterQuotes
  BY <1>6
  DEF Next, vars, oracleVars, locals, storeVars, DaemonStep, LoopStep, FetchStep,
      PollStep, Start, OpenStore, CloseStore, Stop, StopReturns, Exit, Crash,
      ProcessEnds, DropLocals, TickerFires, TakeTick, TakeQuit, PollDone,
      FetchFails, NoneObtained, LeaveCurrency, CommitAggregate,
      InsertAggregatedPrice, CommitFails, InsertFails, Publish, BroadcastUpdate,
      UserStep, AfterQuotes, AfterMedian
<1> QED
  BY <1>1, <1>2, <1>3, <1>4, <1>5, <1>7, ArrivalStep, SaveStep, ClockKeepsSamples

LEMMA SavedSoFarInvariant == Spec => []SavedSoFar
<1>1. Init => SavedSoFar
  BY DEF Init, StoreInit, EmptyTable, NoQuotes, SavedSoFar, AfterQuotes, AfterMedian
<1>2. TypeInv /\ SavedSoFar /\ [Next]_vars => SavedSoFar'
  BY SavedSoFarStep
<1> QED
  BY <1>1, <1>2, TypeInvariant, PTL DEF Spec

\* What the store answers for an exchange is the quote it has accepted of it.
LEMMA LatestIsTheQuote ==
    ASSUME TypeInv, SavedSoFar, pc \in AfterMedian, NEW f \in DOMAIN prices \ lost
    PROVE  LatestExchangePrice(currency, f) =
              [found |-> TRUE, Value |-> prices[f].Value,
               MinuteTS |-> prices[f].MinuteTS]
<1> DEFINE M == ExchangeMinutes(currency, f)
           rows == ExchangeRows(currency, f, M)
           m == prices[f].MinuteTS
<1>1. /\ <<f, currency, m>> \in DOMAIN exchange_prices
      /\ exchange_prices[<<f, currency, m>>] = ToInt64(prices[f].Value)
  BY DEF SavedSoFar, AfterMedian, AfterQuotes
<1>2. \A k \in DOMAIN exchange_prices : k = <<k[1], k[2], k[3]>> /\ k[3] \in Minutes
  BY DEF TypeInv, TypeOK, StoreTypeOK, IsTable, ExchangeKeys
<1>3. M \in SUBSET Int /\ m \in M /\ \A n \in M : n <= m
  BY <1>1, <1>2, StoreAssumption DEF SavedSoFar, ExchangeMinutes
<1>4. DOMAIN rows = M /\ rows[m] = exchange_prices[<<f, currency, m>>]
  BY <1>3 DEF ExchangeRows
<1>5. prices[f].Value \in Uint64
  BY OracleAssumption DEF TypeInv, TypeOK, PollerTypeOK
<1> HIDE DEF rows, M, m
<1>6. Newest(rows) = StoredPrice(rows[m], m)
  BY <1>3, <1>4, NewestIs
<1> QED
  BY <1>1, <1>4, <1>5, <1>6, ValueRoundTrips
  DEF LatestExchangePrice, StoredPrice, rows, M, m

(***************************************************************************)
(* With and without failing INSERTs, across crashes, restarts and minutes, *)
(* an aggregate goes on record after the samples it came from: the store   *)
(* answers each sample it has accepted, and the aggregate lies within what *)
(* it answers for any majority that holds only such samples.               *)
(***************************************************************************)
THEOREM RecordsBackAggregates == Spec => []RecordBacksAggregate
<1>1. TypeInv /\ SavedSoFar /\ AggregateResistsMinority => RecordBacksAggregate
  <2> SUFFICES ASSUME TypeInv, SavedSoFar, AggregateResistsMinority,
                      pc \in AfterMedian
               PROVE  /\ \A f \in DOMAIN Breakdown :
                            Breakdown[f] = [found |-> TRUE, Value |-> prices[f].Value,
                                            MinuteTS |-> prices[f].MinuteTS]
                      /\ \A O \in SUBSET DOMAIN prices :
                            lost \subseteq O
                            /\ 2 * Cardinality(O) < Cardinality(DOMAIN prices) =>
                                WithinQuotes(BreakdownValues, DOMAIN prices \ O,
                                             stored.Value)
    BY DEF RecordBacksAggregate
  <2>1. \A f \in DOMAIN Breakdown :
            Breakdown[f] = [found |-> TRUE, Value |-> prices[f].Value,
                            MinuteTS |-> prices[f].MinuteTS]
    BY LatestIsTheQuote DEF Breakdown
  <2>2. ASSUME NEW O \in SUBSET DOMAIN prices, lost \subseteq O,
               2 * Cardinality(O) < Cardinality(DOMAIN prices)
        PROVE  WithinQuotes(BreakdownValues, DOMAIN prices \ O, stored.Value)
    <3>1. WithinQuotes(QuotedValues, DOMAIN prices \ O, stored.Value)
      <4>1. DOMAIN QuotedValues = DOMAIN prices
        BY DEF QuotedValues
      <4>2. ResistsMinority(QuotedValues, stored.Value)
        BY DEF AggregateResistsMinority, AfterMedian
      <4> QED
        BY <2>2, <4>1, <4>2 DEF ResistsMinority
    <3>2. \A f \in DOMAIN prices \ O : BreakdownValues[f] = QuotedValues[f]
      <4>1. DOMAIN Breakdown = DOMAIN prices \ lost
        BY DEF Breakdown
      <4> QED
        BY <2>1, <2>2, <4>1 DEF BreakdownValues, QuotedValues
    <3> QED
      BY <3>1, <3>2 DEF WithinQuotes
  <2> QED
    BY <2>1, <2>2
<1> QED
  BY <1>1, TypeInvariant, SavedSoFarInvariant, AggregatesResistMinority, PTL
=============================================================================
