------------------------------- MODULE Oracle -------------------------------
(***************************************************************************)
(* oracle/oracle.go: the poller that asks every feed for every currency,   *)
(* stores the quotes, aggregates them, publishes the aggregate and         *)
(* broadcasts it, inside a daemon that opens the store, starts the oracle, *)
(* stops it and closes the store, and that may crash at any point and be   *)
(* started again.  It composes the aggregation (Median), the store         *)
(* (PriceStore) and the subscribers (Subscriptions).                       *)
(*                                                                         *)
(* A step of the poller is what it does up to the next effect another      *)
(* goroutine, or a crash, can tell apart: one quote received, one INSERT,  *)
(* one reading of the clock, one critical section.                         *)
(***************************************************************************)
EXTENDS PriceStore, Subscriptions, Median

CONSTANTS
    Serves,         \* feed -> the currencies it is configured for
    Quotes,         \* what a feed may quote
    NoCurrency,     \* outside pollCurrency there is no currency
    MaxMinute,      \* bound: the clock stops here
    StoreMayFail    \* an INSERT may return an error

Feeds == Exchanges

\* Of the minutes of the store the clock passes 0..MaxMinute.
ASSUME OracleAssumption ==
    /\ IsFiniteSet(Feeds)
    /\ Serves \in [Feeds -> SUBSET Currencies]
    /\ Quotes \subseteq Uint64
    /\ MaxMinute \in Nat
    /\ Minutes = 0 .. MaxMinute
    /\ StoreMayFail \in BOOLEAN
    /\ NoCurrency \notin Currencies
    /\ Updates = [Currency : Currencies,
                  Price : [Value : Uint64, MinuteTS : Minutes]]

VARIABLES
    now,        \* time.Now().Truncate(time.Minute)
    daemon,     \* where run() of main.go is
    pc,         \* where the goroutine that polls is
    pending,    \* currencies this pollAll has not reached yet
    currency,   \* the argument of pollCurrency
    waiting,    \* feeds whose result has not been received
    prices,     \* feed -> quote received in this pollCurrency
    unsaved,    \* feeds whose quote is still to be inserted
    lost,       \* feeds whose INSERT failed: known to the log only
    stored,     \* the aggregate of this pollCurrency
    latest,     \* Oracle.latest: currency -> aggregate
    tick        \* the ticker's channel holds a tick

locals     == <<currency, waiting, prices, unsaved, lost, stored>>
oracleVars == <<now, daemon, pc, pending, locals, latest, tick>>
vars       == <<oracleVars, storeVars, subsVars>>

\* In the program an aggregate also names its currency and repeats its minute
\* as a time.Time.
Stored == [Value : Uint64, MinuteTS : Minutes]

NoQuotes == [f \in {} |-> 0]
NoPrices == [c \in {} |-> 0]
NoStored == [Value |-> 0, MinuteTS |-> 0]

CurrencyFeeds(c) == {f \in Feeds : c \in Serves[f]}
Polled           == {c \in Currencies : CurrencyFeeds(c) # {}}

Init ==
    /\ StoreInit
    /\ SubsInit
    /\ now = 0
    /\ daemon = "down"
    /\ pc = "off"
    /\ pending = {}
    /\ currency = NoCurrency
    /\ waiting = {}
    /\ prices = NoQuotes
    /\ unsaved = {}
    /\ lost = {}
    /\ stored = NoStored
    /\ latest = NoPrices
    /\ tick = FALSE

\* The variables of pollCurrency go out of scope.
DropLocals ==
    /\ currency' = NoCurrency
    /\ waiting' = {}
    /\ prices' = NoQuotes
    /\ unsaved' = {}
    /\ lost' = {}
    /\ stored' = NoStored

\* The process goes away, and all it had in memory.
ProcessEnds ==
    /\ daemon' = "down"
    /\ pc' = "off"
    /\ pending' = {}
    /\ DropLocals
    /\ latest' = NoPrices
    /\ tick' = FALSE
    /\ subs' = {}
    /\ nextSubID' = 0
    /\ chans' = NoChannels
    /\ panicked' = FALSE
    /\ UNCHANGED now

-----------------------------------------------------------------------------
(***************************************************************************)
(* The daemon.  main.go opens the store, runs Start, which polls once in   *)
(* its own goroutine before it starts pollLoop, serves, and on a signal    *)
(* runs Stop and then closes the store.                                    *)
(***************************************************************************)

\* New, then Start as far as the call of pollAll.
Start ==
    /\ daemon = "down"
    /\ daemon' = "starting"
    /\ pc' = "poll"
    /\ pending' = Polled
    /\ OpenStore
    /\ UNCHANGED <<now, locals, latest, tick, subsVars>>

\* close(quit)
Stop ==
    /\ daemon = "serving"
    /\ daemon' = "stopping"
    /\ UNCHANGED <<now, pc, pending, locals, latest, tick, storeVars, subsVars>>

\* Mutant: Stop does not wait for pollLoop.
StopReturnsAtOnce ==
    /\ daemon = "stopping"
    /\ daemon' = "closed"
    /\ CloseStore
    /\ UNCHANGED <<now, pc, pending, locals, latest, tick, subsVars>>

\* wg.Wait returns, and the deferred Close of the store runs.
StopReturns ==
    /\ daemon = "stopping"
    /\ pc = "off"
    /\ daemon' = "closed"
    /\ CloseStore
    /\ UNCHANGED <<now, pc, pending, locals, latest, tick, subsVars>>

\* run returns.
Exit ==
    /\ daemon = "closed"
    /\ ProcessEnds
    /\ UNCHANGED storeVars

\* The process dies, by a panic of any goroutine for one; SQLite keeps what
\* was committed.
Crash ==
    /\ daemon # "down"
    /\ CloseStore
    /\ ProcessEnds

-----------------------------------------------------------------------------
(***************************************************************************)
(* pollLoop                                                                *)
(***************************************************************************)

\* The ticker drops a tick the loop is too slow to take.
TickerFires ==
    /\ daemon \in {"serving", "stopping"}
    /\ pc # "off"
    /\ tick' = TRUE
    /\ UNCHANGED <<now, daemon, pc, pending, locals, latest, storeVars, subsVars>>

\* When both channels of the select are ready Go picks either: a tick may
\* start another poll after Stop was called.
TakeTick ==
    /\ pc = "select"
    /\ tick
    /\ tick' = FALSE
    /\ pc' = "poll"
    /\ pending' = Polled
    /\ UNCHANGED <<now, daemon, locals, latest, storeVars, subsVars>>

\* Mutant: a waiting tick is taken first.
TakeQuitIfNoTick ==
    /\ pc = "select"
    /\ ~tick
    /\ daemon = "stopping"
    /\ pc' = "off"
    /\ UNCHANGED <<now, daemon, pending, locals, latest, tick, storeVars, subsVars>>

TakeQuit ==
    /\ pc = "select"
    /\ daemon = "stopping"
    /\ pc' = "off"
    /\ UNCHANGED <<now, daemon, pending, locals, latest, tick, storeVars, subsVars>>

-----------------------------------------------------------------------------
(***************************************************************************)
(* pollAll: the currencies one after the other, in the order of a map.     *)
(***************************************************************************)

\* pollCurrency starts one goroutine for each feed of c.
PollCurrency(c) ==
    /\ pc = "poll"
    /\ c \in pending
    /\ pc' = "gather"
    /\ pending' = pending \ {c}
    /\ currency' = c
    /\ waiting' = CurrencyFeeds(c)
    /\ UNCHANGED <<now, daemon, prices, unsaved, lost, stored, latest, tick,
                   storeVars, subsVars>>

\* The initial poll is the end of Start.
PollDone ==
    /\ pc = "poll"
    /\ pending = {}
    /\ pc' = "select"
    /\ daemon' = IF daemon = "starting" THEN "serving" ELSE daemon
    /\ UNCHANGED <<now, pending, locals, latest, tick, storeVars, subsVars>>

-----------------------------------------------------------------------------
(***************************************************************************)
(* pollCurrency                                                            *)
(***************************************************************************)

LeaveCurrency ==
    /\ pc' = "poll"
    /\ DropLocals
    /\ UNCHANGED <<now, daemon, pending, tick>>

\* A feed answers, stamping its quote with the clock, and is received.
QuoteArrives(f, v) ==
    /\ pc = "gather"
    /\ f \in waiting
    /\ waiting' = waiting \ {f}
    /\ prices' = [g \in DOMAIN prices \cup {f} |->
                     IF g = f THEN [Value |-> v, MinuteTS |-> now] ELSE prices[g]]
    /\ UNCHANGED <<now, daemon, pc, pending, currency, unsaved, lost, stored,
                   latest, tick, storeVars, subsVars>>

\* An error, the currency not supported, or the deadline of FetchTimeout.
FetchFails(f) ==
    /\ pc = "gather"
    /\ f \in waiting
    /\ waiting' = waiting \ {f}
    /\ UNCHANGED <<now, daemon, pc, pending, currency, prices, unsaved, lost,
                   stored, latest, tick, storeVars, subsVars>>

NoneObtained ==
    /\ pc = "gather"
    /\ waiting = {}
    /\ DOMAIN prices = {}
    /\ LeaveCurrency
    /\ UNCHANGED <<latest, storeVars, subsVars>>

\* Mutant: the check of len(prices) is missing.
AllReceivedUnchecked ==
    /\ pc = "gather"
    /\ waiting = {}
    /\ pc' = "persist"
    /\ unsaved' = DOMAIN prices
    /\ UNCHANGED <<now, daemon, pending, currency, waiting, prices, lost, stored,
                   latest, tick, storeVars, subsVars>>

\* Mutant: the loop waits for a price of every feed.
AllQuoted ==
    /\ pc = "gather"
    /\ DOMAIN prices = CurrencyFeeds(currency)
    /\ pc' = "persist"
    /\ unsaved' = DOMAIN prices
    /\ UNCHANGED <<now, daemon, pending, currency, waiting, prices, lost, stored,
                   latest, tick, storeVars, subsVars>>

AllReceived ==
    /\ pc = "gather"
    /\ waiting = {}
    /\ DOMAIN prices # {}
    /\ pc' = "persist"
    /\ unsaved' = DOMAIN prices
    /\ UNCHANGED <<now, daemon, pending, currency, waiting, prices, lost, stored,
                   latest, tick, storeVars, subsVars>>

\* An error of SQLite, or the store closed under the poller.
InsertFails == (StoreMayFail \/ ~open) /\ UNCHANGED storeVars

\* An error is logged and the next quote inserted.
SaveQuote(f) ==
    /\ pc = "persist"
    /\ f \in unsaved
    /\ unsaved' = unsaved \ {f}
    /\ \/ /\ InsertExchangePrice(f, currency, prices[f].Value, prices[f].MinuteTS)
          /\ UNCHANGED lost
       \/ InsertFails /\ lost' = lost \cup {f}
    /\ UNCHANGED <<now, daemon, pc, pending, currency, waiting, prices, stored,
                   latest, tick, subsVars>>

QuotedValues == [f \in DOMAIN prices |-> prices[f].Value]

\* Mutant: the aggregate is stored before the quotes.
AggregateFirst ==
    /\ pc = "persist"
    /\ stored' = [Value |-> median(QuotedValues), MinuteTS |-> now]
    /\ pc' = "commit"
    /\ UNCHANGED <<now, daemon, pending, currency, waiting, prices, unsaved, lost,
                   latest, tick, storeVars, subsVars>>

\* The clock is read again, maybe in a later minute than the quotes'.
Aggregate ==
    /\ pc = "persist"
    /\ unsaved = {}
    /\ stored' = [Value |-> median(QuotedValues), MinuteTS |-> now]
    /\ pc' = "commit"
    /\ UNCHANGED <<now, daemon, pending, currency, waiting, prices, unsaved, lost,
                   latest, tick, storeVars, subsVars>>

\* Mutant: the broadcast goes out and latest is not updated.
CommitThenBroadcast ==
    /\ pc = "commit"
    /\ InsertAggregatedPrice(currency, stored.Value, stored.MinuteTS)
    /\ pc' = "broadcast"
    /\ UNCHANGED <<now, daemon, pending, locals, latest, tick, subsVars>>

CommitAggregate ==
    /\ pc = "commit"
    /\ InsertAggregatedPrice(currency, stored.Value, stored.MinuteTS)
    /\ pc' = "publish"
    /\ UNCHANGED <<now, daemon, pending, locals, latest, tick, subsVars>>

\* Mutant: the error is logged and the aggregate published all the same.
CommitErrorIgnored ==
    /\ pc = "commit"
    /\ InsertFails
    /\ pc' = "publish"
    /\ UNCHANGED <<now, daemon, pending, locals, latest, tick, subsVars>>

\* Mutant: the error ends the whole poll, not this currency's.
CommitErrorEndsPoll ==
    /\ pc = "commit"
    /\ InsertFails
    /\ pc' = "select"
    /\ DropLocals
    /\ UNCHANGED <<now, daemon, pending, tick, latest, subsVars>>

\* The error returns: latest keeps the aggregate before.
CommitFails ==
    /\ pc = "commit"
    /\ InsertFails
    /\ LeaveCurrency
    /\ UNCHANGED <<latest, subsVars>>

\* Under mu.
Publish ==
    /\ pc = "publish"
    /\ latest' = [c \in DOMAIN latest \cup {currency} |->
                     IF c = currency THEN stored ELSE latest[c]]
    /\ pc' = "broadcast"
    /\ UNCHANGED <<now, daemon, pending, locals, tick, storeVars, subsVars>>

\* Under subsMu.
BroadcastUpdate ==
    /\ pc = "broadcast"
    /\ Broadcast([Currency |-> currency, Price |-> stored])
    /\ LeaveCurrency
    /\ UNCHANGED <<latest, storeVars>>

-----------------------------------------------------------------------------
(***************************************************************************)
(* The users of the oracle while its process runs.  A second cancel of one *)
(* subscription panics (Subscriptions): it is one of the causes of Crash.  *)
(***************************************************************************)
UserStep ==
    /\ daemon # "down"
    /\ \/ SubscribePrice
       \/ \E id \in subs : Cancel(id)
       \/ \E id \in DOMAIN chans : Receive(id)
    /\ UNCHANGED <<oracleVars, storeVars>>

\* The wall clock, which nobody sets back.
ClockTurns ==
    /\ now < MaxMinute
    /\ now' = now + 1
    /\ UNCHANGED <<daemon, pc, pending, locals, latest, tick, storeVars, subsVars>>

FetchStep ==
    \E f \in Feeds : FetchFails(f) \/ \E v \in Quotes : QuoteArrives(f, v)

PollStep ==
    \/ \E c \in Currencies : PollCurrency(c)
    \/ PollDone
    \/ NoneObtained \/ AllReceived
    \/ \E f \in Feeds : SaveQuote(f)
    \/ Aggregate
    \/ CommitAggregate \/ CommitFails
    \/ Publish
    \/ BroadcastUpdate

LoopStep == TakeTick \/ TakeQuit

DaemonStep == Start \/ Stop \/ StopReturns \/ Exit \/ Crash

Next ==
    \/ DaemonStep \/ LoopStep \/ FetchStep \/ PollStep
    \/ TickerFires \/ ClockTurns \/ UserStep

Spec == Init /\ [][Next]_vars

-----------------------------------------------------------------------------
(***************************************************************************)
(* Fairness, for the liveness properties only.  The goroutines get to run; *)
(* every FetchPrice returns, at the latest when the context of FetchTimeout*)
(* expires; the ticker keeps ticking; and the select, which picks at       *)
(* random, does not ignore the closed quit channel for ever.  Nothing      *)
(* makes the daemon start, stop or crash, the store fail, or users act.    *)
(***************************************************************************)
Fairness ==
    /\ WF_vars(FetchStep)
    /\ WF_vars(PollStep)
    /\ WF_vars(LoopStep) /\ SF_vars(TakeQuit)
    /\ WF_vars(TickerFires)
    /\ WF_vars(StopReturns \/ Exit)

FairSpec == Spec /\ Fairness

-----------------------------------------------------------------------------
DaemonStates == {"down", "starting", "serving", "stopping", "closed"}
PollerStates == {"off", "select", "poll", "gather", "persist", "commit",
                 "publish", "broadcast"}

PollerTypeOK ==
    /\ now \in Minutes
    /\ daemon \in DaemonStates
    /\ pc \in PollerStates
    /\ pending \subseteq Polled
    /\ currency \in Currencies \cup {NoCurrency}
    /\ waiting \subseteq Feeds
    /\ prices \in [DOMAIN prices -> [Value : Quotes, MinuteTS : Minutes]]
    /\ DOMAIN prices \subseteq Feeds
    /\ unsaved \subseteq DOMAIN prices
    /\ lost \subseteq DOMAIN prices
    /\ stored \in Stored
    /\ latest \in [DOMAIN latest -> Stored]
    /\ DOMAIN latest \subseteq Currencies
    /\ tick \in BOOLEAN

(***************************************************************************)
(* The types of the whole: tables of keys once each and signed values, the *)
(* channels of the subscribers, and the locals and phases of the poller.   *)
(***************************************************************************)
TypeOK == StoreTypeOK /\ SubsTypeOK /\ PollerTypeOK

(***************************************************************************)
(* What is in scope where: the strengthening of TypeOK that makes it       *)
(* inductive.  Inside pollCurrency there is a currency, past the early     *)
(* return there is a quote, and while it runs the poller has a process     *)
(* with an open store.                                                     *)
(***************************************************************************)
AfterQuotes == {"persist", "commit", "publish", "broadcast"}
AfterMedian == {"commit", "publish", "broadcast"}

ScopeOK ==
    /\ pc \in {"gather"} \cup AfterQuotes => currency \in Currencies
    /\ pc \in AfterQuotes => DOMAIN prices # {}
    /\ pc # "off" => open /\ daemon \in {"starting", "serving", "stopping"}

(***************************************************************************)
(* The strengthening of LatestIsNewest and UpdatesFollowLatest: no row is  *)
(* of a minute to come, the aggregate in hand is no older than any row of  *)
(* its currency, it is the newest row from its INSERT on and the current   *)
(* price from then on, and every current price has a row.                  *)
(***************************************************************************)
Publishing(c) == pc = "publish" /\ currency = c

IsNewestRow(c, m) ==
    /\ <<c, m>> \in DOMAIN aggregated_prices
    /\ \A k \in DOMAIN aggregated_prices : k[1] = c => k[2] <= m

InStep ==
    /\ \A k \in DOMAIN aggregated_prices : k[2] <= now
    /\ pc \in AfterMedian =>
          /\ stored.MinuteTS <= now
          /\ \A k \in DOMAIN aggregated_prices :
                k[1] = currency => k[2] <= stored.MinuteTS
    /\ pc \in {"publish", "broadcast"} =>
          /\ <<currency, stored.MinuteTS>> \in DOMAIN aggregated_prices
          /\ aggregated_prices[<<currency, stored.MinuteTS>>] = ToInt64(stored.Value)
    /\ pc = "broadcast" => currency \in DOMAIN latest /\ latest[currency] = stored
    /\ \A c \in DOMAIN latest :
          /\ <<c, latest[c].MinuteTS>> \in DOMAIN aggregated_prices
          /\ \/ Publishing(c)
             \/ /\ IsNewestRow(c, latest[c].MinuteTS)
                /\ aggregated_prices[<<c, latest[c].MinuteTS>>] =
                      ToInt64(latest[c].Value)

(***************************************************************************)
(* What LatestPrice answers from memory is what the store answers: the     *)
(* newest row of the currency, value and minute.  Only between the INSERT  *)
(* of a newer aggregate and the critical section that publishes it may the *)
(* store be ahead; a failed INSERT, a crash, a restart or a poll that      *)
(* crosses a minute never leaves the two apart (oracle.go:264-281).        *)
(***************************************************************************)
LatestIsNewest ==
    \A c \in DOMAIN latest :
        Publishing(c) \/ LatestAggregatedPrice(c) =
            [found |-> TRUE, Value |-> latest[c].Value,
             MinuteTS |-> latest[c].MinuteTS]

(***************************************************************************)
(* The past is settled: once a currency has a row for a later minute, the  *)
(* historical lookup of a minute before it gives the same answer for ever, *)
(* across cycles, failures and restarts (httpserver.go:170-228 serves it). *)
(***************************************************************************)
PastIsSettled ==
    [][\A k \in DOMAIN aggregated_prices, m \in Minutes :
          m < k[2] => AggregatedPriceAt(k[1], m)' = AggregatedPriceAt(k[1], m)
      ]_aggregated_prices

(***************************************************************************)
(* The aggregate that is stored, published and broadcast is a price of     *)
(* this cycle no minority of the feeds that answered can dictate.          *)
(***************************************************************************)
AggregateResistsMinority ==
    pc \in {"commit", "publish", "broadcast"} =>
        DOMAIN prices # {} /\ ResistsMinority(QuotedValues, stored.Value)

\* The store and latest have a price at least as new as the update.
NotAhead(u) ==
    /\ <<u.Currency, u.Price.MinuteTS>> \in DOMAIN aggregated_prices
    /\ u.Currency \in DOMAIN latest
    /\ u.Price.MinuteTS <= latest[u.Currency].MinuteTS

InMinuteOrder(buf) ==
    \A i, j \in DOMAIN buf :
        i < j /\ buf[i].Currency = buf[j].Currency =>
            buf[i].Price.MinuteTS <= buf[j].Price.MinuteTS

(***************************************************************************)
(* A subscriber that turns to LatestPrice or to the store on receiving an  *)
(* update finds a price at least as new there, and updates of one currency *)
(* reach it in the order of their minutes (oracle.go:264-287).             *)
(***************************************************************************)
UpdatesFollowLatest ==
    \A id \in DOMAIN chans :
        /\ \A i \in DOMAIN chans[id].buf : NotAhead(chans[id].buf[i])
        /\ InMinuteOrder(chans[id].buf)

(***************************************************************************)
(* The poller never meets a closed store: main.go closes it only after     *)
(* Stop has waited for the cycle in flight (main.go:73, 114;               *)
(* oracle.go:121-126).                                                     *)
(***************************************************************************)
PollerHasStore == pc # "off" => open

\* The samples of this cycle the store has accepted, as it answers for them.
Breakdown == [f \in DOMAIN prices \ lost |-> LatestExchangePrice(currency, f)]

BreakdownValues == [f \in DOMAIN Breakdown |-> Breakdown[f].Value]

(***************************************************************************)
(* An aggregate goes on record after the samples it came from, and they    *)
(* account for it.  From before its INSERT to the end of its cycle, for    *)
(* every exchange that answered and whose INSERT did not fail, the latest  *)
(* price of that exchange in the store is the quote of this cycle, value   *)
(* and minute, whatever earlier cycles, restarts and minutes left there.   *)
(* And the aggregate is defensible from those samples alone: count the     *)
(* ones whose INSERT failed among the sources that are not trusted; while  *)
(* these are a minority it lies within what is on record of the others     *)
(* (oracle.go:252-266).                                                    *)
(***************************************************************************)
RecordBacksAggregate ==
    pc \in AfterMedian =>
        /\ \A f \in DOMAIN Breakdown :
              Breakdown[f] = [found |-> TRUE, Value |-> prices[f].Value,
                              MinuteTS |-> prices[f].MinuteTS]
        /\ \A O \in SUBSET DOMAIN prices :
              lost \subseteq O /\ 2 * Cardinality(O) < Cardinality(DOMAIN prices) =>
                  WithinQuotes(BreakdownValues, DOMAIN prices \ O, stored.Value)

(***************************************************************************)
(* The strengthening of RecordBacksAggregate: no sample is of a minute to  *)
(* come or newer than the quote in hand of its exchange, and a quote the   *)
(* loop is through with has its row, unless its INSERT failed.  Between    *)
(* two currencies there is no quote.                                       *)
(***************************************************************************)
SavedSoFar ==
    /\ \A k \in DOMAIN exchange_prices : k[3] <= now
    /\ \A f \in DOMAIN prices :
          /\ prices[f].MinuteTS <= now
          /\ \A k \in DOMAIN exchange_prices :
                k[1] = f /\ k[2] = currency => k[3] <= prices[f].MinuteTS
    /\ pc \in AfterQuotes =>
          \A f \in DOMAIN prices \ (unsaved \cup lost) :
              LET key == <<f, currency, prices[f].MinuteTS>>
              IN  /\ key \in DOMAIN exchange_prices
                  /\ exchange_prices[key] = ToInt64(prices[f].Value)
    /\ pc \in AfterMedian => unsaved = {}
    /\ pc \in {"off", "select", "poll"} => DOMAIN prices = {}

(***************************************************************************)
(* A poll ends, whatever the feeds, the store and the subscribers do.      *)
(***************************************************************************)
PollsEnd == pc \notin {"off", "select"} ~> pc \in {"off", "select"}

(***************************************************************************)
(* While the daemon serves, every configured currency is polled again and  *)
(* again: one that fails does not keep the others from their turn.         *)
(***************************************************************************)
EveryCurrencyPolled ==
    \A c \in Polled : daemon = "serving" ~> (currency = c \/ daemon # "serving")

(***************************************************************************)
(* Stop returns, although the select may prefer a tick to quit and a whole *)
(* cycle may have to end first (oracle.go:121-126, 173-181).               *)
(***************************************************************************)
StopCompletes == daemon = "stopping" ~> daemon = "down"

(***************************************************************************)
(* The abstract history the oracle and its store implement.                *)
(***************************************************************************)
H == INSTANCE PriceHistory WITH
        history <- [k \in DOMAIN aggregated_prices |->
                       ToUint64(aggregated_prices[k])],
        board   <- latest,
        Prices  <- Uint64

ImplementsHistory == H!Spec

-----------------------------------------------------------------------------
(***************************************************************************)
(* What the documents say and the code does not keep.                      *)
(***************************************************************************)

(***************************************************************************)
(* README.md:21: the median is "resistant to single-exchange outliers".    *)
(* When all but one or two feeds fail, the price of one feed is published. *)
(***************************************************************************)
SingleOutlierResisted ==
    pc = "publish" =>
        \A o \in DOMAIN prices :
            WithinQuotes(QuotedValues, DOMAIN prices \ {o}, stored.Value)

(***************************************************************************)
(* meta/plan.md:55: under the key of one minute the aggregate and its      *)
(* breakdown per exchange.  A cycle that crosses a minute stores the       *)
(* quotes under one minute and their aggregate under the next.             *)
(***************************************************************************)
BreakdownAtSameMinute ==
    \A k \in DOMAIN aggregated_prices :
        \E f \in Feeds : <<f, k[1], k[2]>> \in DOMAIN exchange_prices
=============================================================================
