----------------------------- MODULE PriceStore -----------------------------
(***************************************************************************)
(* pricestore/: the SQLite store of raw exchange samples and of aggregated *)
(* prices.  A table is a function from the columns of its UNIQUE           *)
(* constraint to the value column; the autoincrement id, which no query    *)
(* orders by, is left out.  A timestamp is the minute it truncates to.     *)
(*                                                                         *)
(* The value column is a signed 64-bit INTEGER and prices are uint64: the  *)
(* store converts on the way in and on the way out.  HalfWord is 2^63; TLC *)
(* takes a smaller word, so that values past the half are stored too.      *)
(***************************************************************************)
EXTENDS Integers, SequencesExt

CONSTANTS
    Exchanges,      \* names of the price sources
    Currencies,     \* fiat currencies
    Minutes,        \* the minutes a sample may carry
    HalfWord        \* 2^63

ASSUME StoreAssumption ==
    /\ Minutes \subseteq Int
    /\ HalfWord \in Nat \ {0}

VARIABLES
    exchange_prices,    \* (exchange, currency, minute) -> value column
    aggregated_prices,  \* (currency, minute) -> value column
    open                \* the database handle is usable

storeVars == <<exchange_prices, aggregated_prices, open>>

-----------------------------------------------------------------------------
Uint64 == 0 .. 2 * HalfWord - 1
Int64  == -HalfWord .. HalfWord - 1

\* Mutant: the value is stored as it is.
Unconverted(v) == v

\* Go's int64(v) and uint64(i): the bits stay, the reading of them changes.
ToInt64(v)  == IF v < HalfWord THEN v ELSE v - 2 * HalfWord
ToUint64(i) == IF i >= 0 THEN i ELSE i + 2 * HalfWord

ExchangeKeys  == Exchanges \X Currencies \X Minutes
AggregateKeys == Currencies \X Minutes

\* A table holds each key at most once.
IsTable(table, keys) ==
    table \in [DOMAIN table -> Int64] /\ DOMAIN table \subseteq keys

EmptyTable == [k \in {} |-> 0]

\* Mutant: ON CONFLICT(key) DO NOTHING
InsertOrIgnore(table, key, value) ==
    [k \in DOMAIN table \cup {key} |-> IF k \in DOMAIN table THEN table[k] ELSE value]

\* INSERT ... ON CONFLICT(key) DO UPDATE SET value = excluded.value
Upsert(table, key, value) ==
    [k \in DOMAIN table \cup {key} |-> IF k = key THEN value ELSE table[k]]

-----------------------------------------------------------------------------
\* Mutant: the schema drops the tables first.
OpenEmpty ==
    /\ open' = TRUE
    /\ exchange_prices' = EmptyTable
    /\ aggregated_prices' = EmptyTable

\* NewSQLiteStore: the schema is created only where it is missing.
OpenStore  == open' = TRUE /\ UNCHANGED <<exchange_prices, aggregated_prices>>

CloseStore == open' = FALSE /\ UNCHANGED <<exchange_prices, aggregated_prices>>

\* Of a closed store every statement returns an error and changes nothing.
InsertExchangePrice(exchange, currency, value, minute) ==
    /\ open
    /\ exchange_prices' = Upsert(exchange_prices, <<exchange, currency, minute>>,
                                 ToInt64(value))
    /\ UNCHANGED <<aggregated_prices, open>>

InsertAggregatedPrice(currency, value, minute) ==
    /\ open
    /\ aggregated_prices' = Upsert(aggregated_prices, <<currency, minute>>,
                                   ToInt64(value))
    /\ UNCHANGED <<exchange_prices, open>>

-----------------------------------------------------------------------------
(***************************************************************************)
(* The queries, of an open store: state functions of its tables.           *)
(***************************************************************************)

\* sql.ErrNoRows becomes ErrNotFound.
ErrNotFound == [found |-> FALSE]

StoredPrice(column, minute) ==
    [found |-> TRUE, Value |-> ToUint64(column), MinuteTS |-> minute]

\* The row ORDER BY minute_ts DESC LIMIT 1 selects of those whose minutes and
\* value columns are the function rows.
Newest(rows) ==
    LET M == DOMAIN rows
    IN  IF M = {} THEN ErrNotFound ELSE StoredPrice(rows[Max(M)], Max(M))

AggregatedMinutes(currency) ==
    {k[2] : k \in {k \in DOMAIN aggregated_prices : k[1] = currency}}

\* The rows of a currency at the minutes M.
AggregatedRows(currency, M) == [m \in M |-> aggregated_prices[<<currency, m>>]]

LatestAggregatedPrice(currency) ==
    Newest(AggregatedRows(currency, AggregatedMinutes(currency)))

\* Mutant: no bound on the minute.
LookupIgnoresMinute(currency, minute) ==
    Newest(AggregatedRows(currency, AggregatedMinutes(currency)))

\* At or before the minute asked for.
AggregatedPriceAt(currency, minute) ==
    Newest(AggregatedRows(currency,
                          {m \in AggregatedMinutes(currency) : m <= minute}))

ExchangeMinutes(currency, exchange) ==
    {k[3] : k \in {k \in DOMAIN exchange_prices :
                        k[1] = exchange /\ k[2] = currency}}

ExchangeRows(currency, exchange, M) ==
    [m \in M |-> exchange_prices[<<exchange, currency, m>>]]

LatestExchangePrice(currency, exchange) ==
    Newest(ExchangeRows(currency, exchange, ExchangeMinutes(currency, exchange)))

\* Exactly at the minute asked for.
ExchangePriceAt(currency, exchange, minute) ==
    Newest(ExchangeRows(currency, exchange,
                        ExchangeMinutes(currency, exchange) \cap {minute}))

\* ORDER BY minute_ts ASC.
Chronological(M) ==
    CHOOSE s \in [1 .. Cardinality(M) -> M] :
        \A i, j \in DOMAIN s : i < j => s[i] < s[j]

\* Mutant: the end of the range excluded.
ListBefore(currency, start, end) ==
    LET M   == {m \in AggregatedMinutes(currency) : start <= m /\ m < end}
        Nth == Chronological(M)
    IN  [i \in DOMAIN Nth |-> StoredPrice(AggregatedRows(currency, M)[Nth[i]], Nth[i])]

\* The rows of start..end, in ascending order of their minutes.
ListAggregatedPrices(currency, start, end) ==
    LET M   == {m \in AggregatedMinutes(currency) : start <= m /\ m <= end}
        Nth == Chronological(M)
    IN  [i \in DOMAIN Nth |-> StoredPrice(AggregatedRows(currency, M)[Nth[i]], Nth[i])]

-----------------------------------------------------------------------------
StoreInit ==
    /\ exchange_prices = EmptyTable
    /\ aggregated_prices = EmptyTable
    /\ open = FALSE

(***************************************************************************)
(* Each table holds a key of its UNIQUE constraint once, with a value that *)
(* fits the signed column (sqlite.go:49-64).                               *)
(***************************************************************************)
StoreTypeOK ==
    /\ IsTable(exchange_prices, ExchangeKeys)
    /\ IsTable(aggregated_prices, AggregateKeys)
    /\ open \in BOOLEAN
=============================================================================
