# Tassandra in TLA+

Tassandra is a Bitcoin price oracle. It polls exchanges, aggregates their
quotes into one price per fiat currency, keeps both in SQLite, and answers
tapd nodes over gRPC and anybody over HTTP. This directory models it, checks
the models with TLC on small instances and proves what matters most with
TLAPS for all of them. Line numbers are those of the Go sources.

## 1. The system

| Component | State it keeps | Operations | Talks to |
|---|---|---|---|
| Aggregation, `oracle/median.go` | none | `median` | called by the poller |
| Price store, `pricestore/` | tables `exchange_prices`, `aggregated_prices`; the handle | open, close, two upserts, five queries | poller writes, HTTP reads |
| Poller, `oracle/oracle.go` | `latest` (under `mu`), `quit`, the ticker, the locals of `pollCurrency` | `Start`, `Stop`, `pollLoop`, `pollAll`, `pollCurrency`, `LatestPrice` | feeds, store, subscribers |
| Subscriptions, `oracle/oracle.go` | `subs`, `nextSubID` (under `subsMu`), one buffered channel each | `SubscribePrice`, its `cancel`, `broadcast` | poller sends, users receive |
| Price feeds, `pricefeed/` | an HTTP client each | `FetchPrice`, `parsePriceString` | the exchanges |
| Poll timing, `oracle/oracle.go`, `rpcserver.go` | the ticker, deadlines, expiries | ticker, `FetchTimeout`, `rateExpirySeconds` | poller, clients with a rate |
| gRPC server, `rpcserver.go` | asset table, never changed | `QueryAssetRates` | `LatestPrice`, once or twice per request |
| HTTP server, `httpserver.go` | listener | `handlePrice` in three forms | `LatestPrice`, store |
| Daemon, `tassandra/main.go` | PID file, listeners, signal handler | `run` and its deferred calls | all of the above |
| Command line, `tassandra-cli` | none | `getprice`, `getrate`, `stop` | servers; PID file and SIGTERM |
| Configuration, `tassandra/config.go` | read once | `loadConfig`, `parseAssetString` | daemon |

What is hard about it:

- **Concurrency.** Each fetch is a goroutine. The poller, subscribers, gRPC and
  HTTP handlers share `latest`, `subs` and the store under three different
  locks, so store, memory and channels change in three separate steps.
- **Failure.** Any fetch and any INSERT may fail alone. The process may die
  between two INSERTs. The database survives and `latest` does not.
- **Time.** The clock is read once per quote and again for the aggregate, so a
  cycle can cross a minute. Rows are overwritten while their minute lasts. A
  cycle may outlast the poll interval.
- **Shutdown.** A `select` picks at random between tick and quit, `Stop` waits
  for a whole cycle, and the store must outlive the poller. Which calls are
  deferred depends on where `run` returns, and signals, the PID file and a
  second daemon may come at any point of it.
- **Numbers.** Prices are `uint64` in 1/10^8, stored in a signed column, parsed
  and formatted by hand and marked up; some of these wrap without notice.

What makes each component correct:

| Component | Properties |
|---|---|
| Aggregation | lower middle by rank; no minority of quotes moves it out of the others' range; one more quote moves it one rank at most |
| Price store | queries read back the last insert of the newest qualifying minute; list and point lookups agree; an insert changes no answer about an earlier minute or another currency |
| Subscriptions | no send on a closed channel; in order, no duplicates; a gap only after the buffer filled; nothing taken back; drained after cancel |
| Poller | memory and store agree; the past is settled; updates never ahead of either; aggregates resist a minority of feeds and the samples on record account for them; polls end, every currency has its turn, `Stop` returns |
| Price feeds, arithmetic | a quote is a price the exchange reported, and no reported one is lost; a price comes out as it went in; a markup never lowers it unless it wraps |
| Poll timing | a price grows old by failed polls of its own currency only; a rate outlives the next poll of its currency, for which settings |
| gRPC, HTTP, configuration | answers never go back in time, across restarts and between two readings; what was told is on record; rates follow the line the operator wrote last |
| Daemon, CLI | the PID file names the daemon that waits; nothing uses a closed store; a file left behind is explained; `stop` stops |

## 2. The modules

```
PriceArith ── Feeds ── MCMedian ── Median
     └─────── Config ──┐
Median ──────────┐     │
PriceStore ──────┼── Oracle ── Servers ── MCServers
Subscriptions ───┘     │ └── implements ── PriceHistory
                    MCOracle
PollTiming ── MCPollTiming              Daemon

MCMedian ──────── QuoteProofs ──────────────────┐
MedianProofs ─────┤                             │
MCPriceStore ──── StoreProofs ──── OracleProofs ┴─ ServersProofs
MCSubscriptions ─ SubscriptionsProofs ──┘
PollTimingProofs                        DaemonProofs
```

`MCMedian` lets the answers of the exchanges arrive one by one, through `Feeds`
and `PriceArith`, for `Median` to aggregate. `MCPriceStore` and
`MCSubscriptions` give these two an environment of their own, with ghost
variables that log what was done: their specifications are `RecordedSpec` and
`LoggedSpec`, and that of `MCMedian` is `HeardSpec`. The theorems are about these
specifications themselves, which the proof modules extend: how many updates,
inserts and quotes there are, and what texts an exchange may send, are constants
of theirs. `MCPollTiming` and `MCServers` hold the values of the constants;
`Daemon` needs none but two PIDs.
Definitions marked `Mutant` in a comment are faulty variants of the one that
follows. No specification uses them. They show that a property can fail: with
the variant in place of the definition TLC finds it violated.

### Median
`q` is the slice of prices as a function from sources to values. `Sorted` is
any ascending order, as Go's sort is not stable; `MedianIndex` is the index of
lines 27-33 made 1-based. The reference counts: `IsRanked(q, k, v)` says that
`v` is the k-th smallest, without any order.

### PriceStore
A table is a function from the columns of its UNIQUE constraint to the value
column; `Upsert` is `ON CONFLICT ... DO UPDATE`. The column is a signed 64-bit
integer and prices are `uint64`: `ToInt64` and `ToUint64` are Go's conversions
over a word of `2 * HalfWord`. Timestamps are the minute they truncate to.
`OpenStore` keeps what is there, as the schema is `IF NOT EXISTS`. Queries are
state functions; a statement on a closed store is not enabled. `Chronological`
is the order of the list query: the sequence of a set of minutes that ascends.

### Subscriptions
`SubscribePrice`, `cancel` and `broadcast` hold `subsMu` throughout, so each is
one step; a receive holds no lock and is another. Channels live in `chans`
after their entry in `subs` is gone. The panics of Go, a second close and a
send on a closed channel, are modelled: they set `panicked`.

### Oracle
One poller goroutine (`pc`) inside a daemon (`daemon`) that starts, stops,
crashes and is started again.

| Action | Code |
|---|---|
| `Start` | main.go 69-111: open the store, `New`, `Start` as far as `pollAll` |
| `PollCurrency(c)` | the next currency of the map, goroutines started (oracle.go 196-225) |
| `QuoteArrives`, `FetchFails` | one result (228-243); unsupported, failed and timed out look the same |
| `NoneObtained`, `AllReceived` | 245-249 and what follows |
| `SaveQuote(f)` | one INSERT of 253-258, which may fail and is only logged |
| `Aggregate` | 261-262: the median, and the clock read again |
| `CommitAggregate`, `CommitFails` | 264-269 |
| `Publish` | 279-281, the critical section of `mu` |
| `BroadcastUpdate` | 287, the critical section of `subsMu`, and the return |
| `PollDone` | the end of `pollAll`; the first one also ends `Start` |
| `TickerFires`, `TakeTick`, `TakeQuit` | the ticker with its buffer of one, and the `select` of `pollLoop` |
| `Stop`, `StopReturns`, `Exit` | `close(quit)`; `wg.Wait` and then `store.Close`; the process ends |
| `Crash` | the process dies anywhere; the tables stay |
| `UserStep`, `ClockTurns` | users of the subscriptions, the wall clock |

`pc` is `off`, `select`, `poll`, `gather`, `persist`, `commit`, `publish` or
`broadcast`. A step is what the poller does up to the next effect that another
goroutine or a crash can tell apart. A quote is stamped where it is fetched and
received later; nothing happens in between that another step can see, so both
are one step. Results may arrive in any order and the quotes be saved in any
order (the code saves in the order of arrival). `lost`, the feeds whose INSERT
failed, is a history variable: the code only logs them and no guard reads it.

### PriceHistory
What readers are promised: a `history` whose newest entry per currency may be
revised and whose older ones never are, and a `board` of current prices that
only ever shows the newest entry and is wiped when the process goes. `Oracle`
implements it with the store's table (converted back to `uint64`) as the
history and `latest` as the board. INSERT is `Record`, `Publish` is `Announce`,
the end of the process is `Wipe`, everything else stutters.

### PriceArith
A text of a price is its two numbers and the count of digits after the point.
`parsePriceString` cuts or pads the fraction and wraps where `uint64` wraps;
`FormatPrice` is the HTTP server's, `applyMarkup` the gRPC server's,
`fixedPointToDecimal` that of `tassandra-cli`. `Pow10` is a recursive function,
which can be reasoned about where an exponent that varies cannot. `TruncatesTo` and `RaisedTo` are
the references: they say what a number stands for, without scale or width.

### Feeds
Each adapter is an operator from what came of one HTTP request (status, body,
Kraken's list of errors and result) to a price, `ErrCurrencyNotSupported` or
another error. `Reports` is the reference: when the exchange itself gave the
price. In `Oracle` these are `QuoteArrives` and `FetchFails`.

### Config
The `[Asset]` and `[Exchange]` sections: `parseAssetString`, `assetConfigs`,
`parseCurrencies`, `buildFeeds`, and the table `NewRpcServer` makes. A name has
a spelling, plain or in the other case, that folding takes away.

### Servers
`Oracle` with both servers. A call of `QueryAssetRates` is in flight (`call`)
over two steps, one per reading of `latest`, with every error path a step of
its own; a lookup over HTTP makes one reading and is one step. `assets` is set
at the start from one of the accepted `[Asset]` sections. `told`, the newest
minute anybody was told per currency, is a ghost variable and survives the
process, as clients do. `getprice` and `getrate` are the requests
`tassandra-cli` makes. `GracefulStop` waits for the call in flight, a crash
ends it.

### PollTiming
The poller with its ticker, and the rates in clients' hands, in time. Timers
count in units and all move in `Tock`, which is possible when nothing is due.
A `pollCurrency` takes up to `FetchTimeout`; polls one after the other may
outlast the interval, and ticks that find one waiting are dropped. `age`,
`idle` and `fails` measure from the latest price, the last poll and the last
success. `rateExpirySeconds` is the Go constant.

### Daemon
`run` of `tassandra/main.go` for several processes on one data directory and
one gRPC address, one action per step that another process, a signal or a crash
can tell apart. `defers` is the stack of deferred calls, which run from the top
once `run` returns.

| Action | Code |
|---|---|
| `OpenStore` .. `NotifyContext`, `OpenFails`, `ConfigFails`, `ListenFails`, `WriteFails` | main.go 70-155: the way up, and each way to return from it |
| `SignalReceived`, `HandlersDone`, `ShutdownTimesOut` | `ctx.Done`, and `Shutdown` with its 30 seconds (157-174) |
| `ServerError` | `grpcErrCh` (161): `run` returns without `Shutdown` |
| `StopNotify`, `RemovePidFile`, `GracefulStop`, `RpcsDone`, `StopOracle`, `CloseStore`, `Exit` | the deferred calls, last first |
| `PollStarts`, `PollEnds`, `ServeFails`, `LookupStarts`, `LookupEnds` | the goroutines as far as `run` waits for them |
| `OperatorSignals`, `Crash`, `CliReads`, `CliSignals` | signals, death, and `tassandra-cli stop` |

A signal before `NotifyContext` or after `stop` kills the process at once: the
"Clean shutdown on SIGINT/SIGTERM" of README.md:23 is that of a daemon that is
ready. `GracefulStop` frees the port at once and then waits for RPCs without a
deadline (`RpcsDone`). A dead process keeps its phase and its stack, for the
property that explains the file it left. Lookups are only followed from
`Shutdown` or the return on: before that nothing depends on them. A failure of
the HTTP server to listen is `StartHTTP` with the outcome `off`. A
`pollinterval` that is negative or zero panics in `time.NewTicker`: a `Crash`.

## 3. The runs

| Run | Question | Bounds |
|---|---|---|
| `median` | what counts as a quote, does `median` agree with the reference and resist, is a price shown as stored and marked up in the right direction? | 5 quotes out of every answer of the four exchanges: 5 statuses, 7 texts (zero, padded, cut, both ways to wrap, too large, no number); two decimals and a word of 256 (2.55 is the largest price), a "million" of 10, six markups around the wrap, two display scales |
| `store` | do queries answer what was inserted, in any order of minutes? | 2 exchanges, 2 currencies, 3 minutes, 3 inserts (a first row, one for another minute, one that overwrites), values on both sides of the sign |
| `subscriptions` | what does a subscriber get, against lag and cancel? | 2 subscribers, buffer 2, 5 updates: the buffer fills, is drained and fills again |
| `oracle_feeds` | aggregates and the samples on record for them, with crashes | 3 feeds, 1 currency, quotes on both sides of the sign, 2 minutes, failing INSERTs |
| `oracle_history` | memory, store and past, with failing INSERTs | 1 feed, 2 currencies, 2 quotes, 3 minutes (a later row, a gap, a row that is overwritten) |
| `oracle_subscribers` | the types; updates against memory and store | 2 currencies, 1 subscriber, buffer 2, 2 minutes |
| `oracle_live` | do polls end, does everyone have a turn, does `Stop` return? | 2 feeds, 2 currencies, 1 minute |
| `servers` | what is a client told? | 2 exchanges, 2 currencies, 2 minutes of 2 seconds, a word of 64; 3 `[Asset]` sections (duplicates, two spellings, a group key of zeros; one that is refused; another markup), 6 rate requests and 5 lookups, besides those `tassandra-cli` refuses to make; no subscribers, no failing INSERT |
| `timing` | how old does a price get, and is a rate refreshed? | a unit of 20 s; intervals of 1, 3 and 5, a deadline of 1, an expiry of 6, 3 currencies, 2 failures in a row |
| `daemon` | does `run` end well? | 2 processes, each launched once |
| `oracle_outlier` | README.md:21, violated | as `oracle_feeds`, no failing INSERT |
| `oracle_breakdown` | meta/plan.md:55, violated | 2 feeds, 2 minutes |

Why the bounds are enough: the hazards concern one crossing of a minute, one
minority among three feeds, one other currency, one failed step and one crash,
in any combination. Two minutes give rows that are overwritten and rows that
are settled, a third a gap between two rows; the number of polls, crashes and
restarts is not bounded. Values are compared, ranked and converted only, so two
on either side of the sign do. Symmetry is over feeds and currencies, never in
the run with fairness. `oracle_history` tells states apart without the samples
(`VIEW`): no guard and no property of that run reads `exchange_prices` or `lost`.
Nor does one of `oracle_feeds` read `aggregated_prices` or `latest`.
`servers` and `median` tell states apart without the last reply and the last
answer, which are looked at in the step that makes them only. The three
intervals of `timing` lie below a poll of three currencies that time out, just
at what the expiry covers, and beyond it. Two processes of `daemon` are one
that runs and one that is started beside it or after it, and either may have
left its file; the proofs are for any number.
Deadlock is checked in the runs of the store, the timers, the servers and the
oracle; `median` and `subscriptions` stop when their input is used up, `daemon`
when both processes have ended.

Two runs show a document the code does not keep. With one or two quotes left
no order statistic resists an outlier, and the code publishes all the same
(`oracle_outlier`). A cycle that crosses a minute stores its quotes under the
first and the aggregate under the second, so the breakdown of that aggregate is
not under its key (`oracle_breakdown`).

What `timing` and its proof say of the comment at rpcserver.go:26-28, that two
minutes "cover the oracle's poll interval plus a buffer": between the starts of
two polls lies an interval, or the rest of a poll that outlasts it; a currency
may be first in one and last in the next. With the defaults (a minute, and ten
seconds per fetch) two minutes cover up to six currencies whose feeds all hang,
and with a `pollinterval` of two minutes or more none: config.go:36 offers "5m"
as an example. Nothing bounds how often polls fail, and the last price is
quoted with a fresh expiry all the same.

**Fairness.** In `oracle_live`: Weak fairness of the poller's and the loop's
steps: goroutines get to run. Of a fetch: every `FetchPrice` gets a context
with `FetchTimeout` and the result channel has room for all (oracle.go
207-225). Of the ticker and of the deferred calls. Strong fairness of taking
`quit`: a `select` that is random does not ignore a ready channel for ever;
weak fairness would not do, as a cycle in between disables it. Nothing is
assumed of crashes, of INSERTs succeeding, or of users. In `subscriptions` a
subscriber keeps reading. In `daemon`: weak fairness of the way down, of a
poll's end (which `PollsEnd` of `oracle_live` shows) and of the command line
client's signal, strong fairness of `StopOracle`, which is that of taking
`quit`. Nothing makes a lookup end: that `tassandra-cli stop` stops the daemon
rests on the deadline of `Shutdown`. The way up is not fair: a daemon may hang
in its first poll for as long as the fetches take, and a signal then kills it.

## 4. The proofs

For any number of feeds, currencies, minutes, subscribers and processes, any
requests and any configuration, any buffer, interval and deadline, and any
width of the word, from the ASSUMEs in the modules, which say no more than
how the constants fit together.

- `MedianProofs`: an ascending order exists for every slice
  (`SortedExists`, from a smallest set of sources without one),
  `median` is the lower middle rank (`MedianIsLowerMiddle`), the rank
  determines the value (`RankedIsUnique`), and no minority can dictate it
  (`MedianResistsMinority`, by counting).
- `QuoteProofs`: the way of a price. `Pow10` is first shown to be the function
  its definition describes: tables of powers exist up to any `k` (a least `k`
  without one would have a predecessor with one) and agree where they overlap.
  Products and quotients of unknown numbers are beyond the provers, so they are
  split over `Division` and `DivisionUnique`.
  - The invariant of the loop that receives quotes is that each is a `uint64`
    (`HeardInvariant`); `AggregateIsLowerMiddle` and `AggregateResistsOutliers`
    then carry the theorems about `median` over to it.
  - `AggregateMovesOneRank` counts: were a quote strictly between the aggregates
    before and after one more quote, too many values would be below the one or
    up to the other.
  - `NothingSmuggledIn`: the fraction is cut or padded to what the text stands
    for (`FractionCuts`), the sum wraps once however often it is taken modulo
    the word (`WrapTwice`), and what is lost is a multiple of the word only if
    the integer part is past `Word / PriceScale`.
  - `ShownExactly`, and `RatesCoverPrices` with the factor that fits and the one
    that wraps.
- `StoreProofs`: in `RecordInv` a table has exactly the keys that occur in the
  log of the inserts, each with the value of its last occurrence (`Tracks`).
  `QueriesReadBackLog` follows with the greatest minute among the rows that
  qualify (`NewestIs`), `ListAgrees` with the order of `Chronological`, which is
  taken from `SortedExists`, and `InsertsStayLocal` from `LookupUnmoved`, which
  `OracleProofs` cites too. `ValueRoundTrips`: the signed column loses no price.
- `SubscriptionsProofs`: a channel is closed exactly when its subscription is
  gone (`NoSendOnClosed`). The invariant is inductive with the types. `LogInv`
  adds for each channel what has been delivered, that is received or buffered:
  it is in order and from after the subscription (`InOrderAfter`), its first
  `SubBufferSize` entries are the first broadcasts (`NoGapUpTo`), and as long as
  it has an entry it has all broadcasts or that many (`AllOrFull`). The last is
  what makes the second inductive: an update is dropped only where the buffer,
  and so what was delivered, is that long. `DeliveredInOrder`,
  `GapOnlyAfterFull` and `NothingTakenBack` follow, for any number of updates.
- `OracleProofs`:
  - `TypeCorrect`. The types alone are not inductive: that the aggregate is a
    `uint64` needs a quote to have been received, and that an INSERT has a key
    needs a currency in scope. `ScopeOK` says what is in scope in which phase,
    and that the store is open while the poller runs. `TypeOK`, `ScopeOK` and
    `SubscribedIsOpen` are inductive together. `PollerAlwaysHasStore` and
    `OracleNeverSendsOnClosed` follow.
  - `LatestAgreesWithStore`, `PastSettled`, `SubscribersNeverAhead` and
    `OracleImplementsHistory` rest on `InStep`, inductive relative to the
    above: no row is of a minute to come, the aggregate in hand is no older
    than any row of its currency, it is the newest row once inserted, and
    every current price has a row. Only the clock, `Aggregate`, the INSERT and
    `Publish` can disturb it, a lemma for each.
  - `AggregatesResistMinority` carries the theorem about `median` to what is
    stored, published and broadcast.
  - `RecordsBackAggregates` rests on `SavedSoFar`: no sample is of a minute to
    come or newer than the quote in hand of its exchange, and every quote the
    loop is through with has its row unless it is in `lost`. So the newest row
    of its exchange is the quote (`LatestIsTheQuote`), whatever earlier cycles
    left there; and what `AggregatesResistMinority` says of the quotes carries
    over to the rows of a majority.
- `PollTimingProofs`: `TimingInv` bounds three things by what remains of the
  poll: the time since a currency was polled (`GapOK`), the age of its price by
  its failures (`AgeOK`), and the time since a rate was given (`WaitOK`). Each
  has a case per phase: this poll will still reach the currency; it has been
  there and the others take their time; the next tick is an interval away at
  most. The types alone say nothing of `idle`. `PricesAgeByFailuresOnly` and
  `RatesAlwaysRefreshed` follow; products are handled by lemmas, as `N` is not
  fixed.
- `DaemonProofs`: in `DaemonInv` the stack of deferred calls is a prefix of
  `Calls` whose length the phase fixes; the length in turn says what is open and
  what serves (`HeldOK`, `ServeOK`, `LookupOK`). `WorldOK` ties the processes
  together by the port: as long as no `Serve` has failed whoever serves holds
  the port, so there is one, and the PID file is written after the port is taken
  and removed before it is freed. Most actions move one process quietly
  (`QuietStep`); the rest are taken one by one. `DaemonStaysNamed`,
  `StoreClosedLast` and `StaleFilesExplained` follow.
- `ServersProofs`: the servers only read (`ServersLeaveOracle`), so all of the
  above holds with them. A price is *settled* if it has a row and the current
  price, if any, is no older; `SettledStays` shows that no step, and no restart,
  unsettles one. What was told is settled (`ToldOK`), and so is the price a call
  in flight has read (`InFlight`): the invariant is these two on top of `InStep`
  of `OracleProofs`. `AnswersMoveForward` and `ToldStaysOnRecord` follow.
  `RatesAreConfigured`: the table of assets is that of an accepted section
  (`AssetsOK`), an entry of it is what the last line with its ID says, and the
  coefficient is that of `QuoteProofs`.

Every invariant and every action property of the runs that pass is stated by a
theorem, and so is the refinement. Only model-checked: the five liveness
properties, `DrainsAfterCancel`, `PollsEnd`, `EveryCurrencyPolled`,
`StopCompletes` and `StopCommandStops`, which need fairness and ENABLED. The
assumptions the theorems rest on are those of the modules they extend, of
modules beside theirs too: `ServersProofs` has `QuotesAssumption` in its
context, which constrains constants of `MCMedian` that `Servers` does not have.

## 5. What is left out

- The text of log messages and errors, HTTP and gRPC transport, JSON, and the
  exchanges themselves; the names exchanges give their trading pairs.
- `LatestPrice` is the variable `latest`; a reader holds the lock for one read.
- A wall clock that is set back. The query for the latest aggregate orders by
  minute although its comment speaks of the most recently stored one
  (pricestore/interface.go:47); the two differ only then, and answers would go
  back in time.
- A feed listed twice with the same currency in the configuration. (A currency
  listed twice under one exchange is one: `Config`.)
- The transaction type of a rate request, which `tassandra-cli` checks and the
  server ignores.
- Two pollers that write to one database while a second daemon is on its way to
  a port that is taken: SQLite's locking is not this repository's.
- A PID that is given to another program between `tassandra-cli`'s read and its
  signal.
- The expiry of a rate in `Servers`, and the store in `PollTiming`: neither
  guards anything in the other.
- Generated code, build files, loggers (with the deferred close of the log file),
  and the library that reads flags and
  files (`loadConfig` is a step of `Daemon` that may fail).

## 6. Plan

In this order:

1. The log of `MCPriceStore` beside `Oracle`: that the queries read back what
   the poller inserted, across crashes, as a refinement of `RecordedSpec`.
2. What a subscriber of `Oracle` received, as a refinement of `LoggedSpec`:
   there an update is a number, here a price.
3. That a process of `Daemon` goes through the phases `Oracle` assumes of its
   daemon, in that order and with the same calls deferred: both refine one
   lifecycle.
