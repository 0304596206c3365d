---------------------------- MODULE StoreProofs ----------------------------
(***************************************************************************)
(* Proofs about the store for any exchanges, currencies and minutes, any   *)
(* width of the word and any number of inserts in any order: its queries   *)
(* answer what a reader of the log of the inserts would, and an insert     *)
(* changes no answer about an earlier minute.                              *)
(*                                                                         *)
(* The inductive invariant, RecordInv, says that a table holds exactly the *)
(* keys of the log, each with the value last written for it.  The lemmas   *)
(* about one table are cited by the proofs of the composed oracle too.     *)
(***************************************************************************)
EXTENDS MCPriceStore, MedianProofs, SequenceTheorems

-----------------------------------------------------------------------------
(***************************************************************************)
(* The conversions of the value column.                                    *)
(***************************************************************************)

\* Every uint64 fits the signed column.
LEMMA ToInt64Type == \A v \in Uint64 : ToInt64(v) \in Int64
BY StoreAssumption DEF ToInt64, Uint64, Int64

\* What is read back is a uint64.
LEMMA ToUint64Type == \A i \in Int64 : ToUint64(i) \in Uint64
BY StoreAssumption DEF ToUint64, Uint64, Int64

(***************************************************************************)
(* A price survives the signed column, past 2^63 too (sqlite.go:85, 265).  *)
(***************************************************************************)
THEOREM ValueRoundTrips == \A v \in Uint64 : ToUint64(ToInt64(v)) = v
BY StoreAssumption DEF ToInt64, ToUint64, Uint64

\* An upsert keeps a table a table.
LEMMA UpsertIsTable ==
    ASSUME NEW table, NEW keys, NEW key \in keys, NEW i \in Int64,
           IsTable(table, keys)
    PROVE  IsTable(Upsert(table, key, i), keys)
BY DEF IsTable, Upsert

-----------------------------------------------------------------------------
(***************************************************************************)
(* LIMIT 1 of a descending order picks the newest row, if there is one.    *)
(***************************************************************************)
LEMMA GreatestExists ==
    ASSUME NEW M \in SUBSET Int, IsFiniteSet(M), M # {}
    PROVE  Max(M) \in M /\ \A m \in M : m <= Max(M)
<1> DEFINE id == [m \in M |-> m]
<1>1. id \in [M -> Int]
  OBVIOUS
<1>2. PICK x \in M : \A m \in M : id[m] <= id[x]
  <2> HIDE DEF id
  <2> QED
    BY <1>1, GreatestQuote
<1>3. \E y \in M : \A m \in M : y >= m
  BY <1>2
<1>4. Max(M) \in M /\ \A m \in M : Max(M) >= m
  BY <1>3 DEF Max
<1> QED
  BY <1>4

\* The greatest of a set is what Max chooses, however large the set.
LEMMA GreatestIs ==
    ASSUME NEW M \in SUBSET Int, NEW m \in M, \A n \in M : n <= m
    PROVE  Max(M) = m
<1>1. \E y \in M : \A n \in M : y >= n
  OBVIOUS
<1>2. Max(M) \in M /\ \A n \in M : Max(M) >= n
  BY <1>1 DEF Max
<1>3. Max(M) \in Int /\ m \in Int /\ m <= Max(M) /\ Max(M) <= m
  BY <1>2
<1> QED
  BY <1>3

\* The newest row, when it is known which one it is.
LEMMA NewestIs ==
    ASSUME NEW rows, DOMAIN rows \in SUBSET Int,
           NEW m \in DOMAIN rows, \A n \in DOMAIN rows : n <= m
    PROVE  Newest(rows) = StoredPrice(rows[m], m)
<1>1. Max(DOMAIN rows) = m
  BY GreatestIs
<1> QED
  BY <1>1 DEF Newest

(***************************************************************************)
(* The newest row is what a reader of the log answers, if the rows hold    *)
(* the minutes of the entries at hits, each with the value last written    *)
(* for it.                                                                 *)
(***************************************************************************)
LEMMA NewestIsAnswer ==
    ASSUME NEW n \in Nat, NEW log, NEW hits \in SUBSET (1 .. n), NEW rows,
           \A i \in 1 .. n : log[i].MinuteTS \in Int /\ log[i].Value \in Uint64,
           DOMAIN rows = {log[i].MinuteTS : i \in hits},
           \A i \in hits :
               (\A j \in hits : log[j].MinuteTS = log[i].MinuteTS => j <= i) =>
                   rows[log[i].MinuteTS] = ToInt64(log[i].Value)
    PROVE  Newest(rows) = Answer(log, hits)
<1>1. CASE hits = {}
  BY <1>1 DEF Newest, Answer
<1>2. CASE hits # {}
  <2> DEFINE time == [i \in 1 .. n |-> log[i].MinuteTS]
             newest == {i \in hits : \A j \in hits : log[j].MinuteTS <= log[i].MinuteTS}
             l == Max(newest)
             m == log[l].MinuteTS
  <2>1. IsFiniteSet(1 .. n)
    BY FS_Interval
  <2>2. PICK g \in hits : \A j \in hits : time[j] <= time[g]
    <3>1. time \in [1 .. n -> Int]
      OBVIOUS
    <3> HIDE DEF time
    <3> QED
      BY <1>2, <2>1, <3>1, GreatestQuote
  <2>3. \A j \in hits : log[j].MinuteTS <= log[g].MinuteTS
    BY <2>2
  <2>4. newest \in SUBSET (1 .. n) /\ newest \in SUBSET Int /\ newest # {}
    <3>1. newest \subseteq hits /\ g \in newest
      BY <2>3
    <3> HIDE DEF newest
    <3> QED
      BY <3>1
  <2>5. IsFiniteSet(newest)
    BY <2>1, <2>4, FS_Subset
  <2>6. l \in newest /\ \A i \in newest : i <= l
    <3> HIDE DEF newest
    <3>1. Max(newest) \in newest /\ \A i \in newest : i <= Max(newest)
      BY <2>4, <2>5, GreatestExists
    <3> QED
      BY <3>1
  <2>7. l \in hits /\ m \in Int /\ log[l].Value \in Uint64
    BY <2>6
  <2>8. \A j \in hits : log[j].MinuteTS <= m
    BY <2>6
  <2>9. \A j \in hits : log[j].MinuteTS = m => j <= l
    BY <2>6, <2>8
  <2>10. rows[m] = ToInt64(log[l].Value)
    BY <2>7, <2>9
  <2>11. Newest(rows) = StoredPrice(rows[m], m)
    <3>1. DOMAIN rows \in SUBSET Int /\ m \in DOMAIN rows
          /\ \A t \in DOMAIN rows : t <= m
      BY <2>7, <2>8
    <3> HIDE DEF m
    <3> QED
      BY <3>1, NewestIs
  <2>12. Answer(log, hits) =
            [found |-> TRUE, Value |-> log[l].Value, MinuteTS |-> m]
    BY <1>2 DEF Answer
  <2> QED
    BY <2>7, <2>10, <2>11, <2>12, ValueRoundTrips DEF StoredPrice
<1> QED
  BY <1>1, <1>2

-----------------------------------------------------------------------------
(***************************************************************************)
(* A table tracks a log of n entries, the i-th of which wrote value[i] at  *)
(* key[i]: it holds the keys written, each with the value written last.    *)
(***************************************************************************)
LastAt(i, n, key) == \A j \in 1 .. n : key[j] = key[i] => j <= i

Tracks(table, n, key, value) ==
    /\ DOMAIN table = {key[i] : i \in 1 .. n}
    /\ \A i \in 1 .. n :
          LastAt(i, n, key) => table[key[i]] = ToInt64(value[i])

\* An upsert follows its entry in the log.
LEMMA UpsertTracks ==
    ASSUME NEW n \in Nat, NEW table, NEW key, NEW value, NEW key2, NEW value2,
           Tracks(table, n, key, value),
           \A i \in 1 .. n : key2[i] = key[i] /\ value2[i] = value[i]
    PROVE  Tracks(Upsert(table, key2[n + 1], ToInt64(value2[n + 1])),
                  n + 1, key2, value2)
<1> DEFINE k == key2[n + 1]
           table2 == Upsert(table, k, ToInt64(value2[n + 1]))
<1>1. \A i : i \in 1 .. n + 1 <=> i \in 1 .. n \/ i = n + 1
  OBVIOUS
<1>2. DOMAIN table2 = {key2[i] : i \in 1 .. n + 1}
  BY <1>1 DEF Tracks, Upsert
<1>3. ASSUME NEW i \in 1 .. n + 1, LastAt(i, n + 1, key2)
      PROVE  table2[key2[i]] = ToInt64(value2[i])
  <2>1. CASE i = n + 1
    BY <2>1 DEF Upsert
  <2>2. CASE i \in 1 .. n
    <3>1. key2[i] # k
      BY <1>1, <1>3, <2>2 DEF LastAt
    <3>2. LastAt(i, n, key)
      BY <1>1, <1>3, <2>2 DEF LastAt
    <3>3. table[key[i]] = ToInt64(value[i]) /\ key[i] \in DOMAIN table
      BY <2>2, <3>2 DEF Tracks
    <3> QED
      BY <2>2, <3>1, <3>3 DEF Upsert
  <2> QED
    BY <1>1, <2>1, <2>2
<1> HIDE DEF table2
<1>4. Tracks(table2, n + 1, key2, value2)
  BY <1>2, <1>3 DEF Tracks
<1> QED
  BY <1>4 DEF table2

-----------------------------------------------------------------------------
(***************************************************************************)
(* The two tables and their logs.                                          *)
(***************************************************************************)
AggregateEntry == [Currency : Currencies, Value : Uint64, MinuteTS : Minutes]
SampleEntry    == [Exchange : Exchanges, Currency : Currencies, Value : Uint64,
                   MinuteTS : Minutes]

ValuesOf(log) == [i \in 1 .. Len(log) |-> log[i].Value]

AggregateKeysOf(log) ==
    [i \in 1 .. Len(log) |-> <<log[i].Currency, log[i].MinuteTS>>]

SampleKeysOf(log) ==
    [i \in 1 .. Len(log) |-> <<log[i].Exchange, log[i].Currency, log[i].MinuteTS>>]

RecordInv ==
    /\ StoreTypeOK
    /\ aggregates \in Seq(AggregateEntry)
    /\ samples \in Seq(SampleEntry)
    /\ Tracks(aggregated_prices, Len(aggregates), AggregateKeysOf(aggregates),
              ValuesOf(aggregates))
    /\ Tracks(exchange_prices, Len(samples), SampleKeysOf(samples),
              ValuesOf(samples))

\* It holds of the empty store.
LEMMA RecordInitInv == RecordedInit => RecordInv
<1> SUFFICES ASSUME RecordedInit PROVE RecordInv
  OBVIOUS
<1>1. StoreTypeOK
  BY DEF RecordedInit, StoreInit, StoreTypeOK, IsTable, EmptyTable
<1>2. /\ aggregates = <<>> /\ samples = <<>> /\ Len(<<>>) = 0
      /\ aggregates \in Seq(AggregateEntry) /\ samples \in Seq(SampleEntry)
  BY EmptySeq DEF RecordedInit
<1>3. \A key, value : Tracks(EmptyTable, 0, key, value)
  BY DEF Tracks, EmptyTable
<1> QED
  BY <1>1, <1>2, <1>3 DEF RecordInv, RecordedInit, StoreInit

\* An aggregate is inserted.
LEMMA InsertAggregateInv ==
    ASSUME RecordInv, NEW c \in Currencies, NEW v \in Uint64, NEW m \in Minutes,
           InsertAggregate(c, v, m)
    PROVE  RecordInv'
<1> DEFINE r == [Currency |-> c, Value |-> v, MinuteTS |-> m]
           n == Len(aggregates)
           key == AggregateKeysOf(aggregates)
           value == ValuesOf(aggregates)
           key2 == AggregateKeysOf(aggregates')
           value2 == ValuesOf(aggregates')
<1>1. /\ aggregates' = Append(aggregates, r) /\ r \in AggregateEntry
      /\ aggregates \in Seq(AggregateEntry)
      /\ samples' = samples /\ exchange_prices' = exchange_prices /\ open' = open
      /\ aggregated_prices' = Upsert(aggregated_prices, <<c, m>>, ToInt64(v))
  BY DEF RecordInv, InsertAggregate, InsertAggregatedPrice, AggregateEntry
<1>2. /\ aggregates' \in Seq(AggregateEntry)
      /\ Len(aggregates') = n + 1 /\ n \in Nat
      /\ aggregates'[n + 1] = r
      /\ \A i \in 1 .. n : aggregates'[i] = aggregates[i]
  <2> HIDE DEF r
  <2> QED
    BY <1>1, AppendProperties, LenProperties
<1>3. \A i \in 1 .. n : key2[i] = key[i] /\ value2[i] = value[i]
  BY <1>2 DEF AggregateKeysOf, ValuesOf
<1>4. key2[n + 1] = <<c, m>> /\ value2[n + 1] = v
  BY <1>2 DEF AggregateKeysOf, ValuesOf
<1>5. Tracks(aggregated_prices, n, key, value)
  BY DEF RecordInv
<1>6. Tracks(aggregated_prices', n + 1, key2, value2)
  <2> HIDE DEF n, key, value, key2, value2
  <2>1. Tracks(Upsert(aggregated_prices, key2[n + 1], ToInt64(value2[n + 1])),
               n + 1, key2, value2)
    BY <1>2, <1>3, <1>5, UpsertTracks
  <2> QED
    BY <1>1, <1>4, <2>1
<1>7. IsTable(aggregated_prices', AggregateKeys)
  <2>1. IsTable(aggregated_prices, AggregateKeys) /\ <<c, m>> \in AggregateKeys
    BY DEF RecordInv, StoreTypeOK, AggregateKeys
  <2> QED
    BY <1>1, <2>1, ToInt64Type, UpsertIsTable
<1>8. StoreTypeOK'
  BY <1>1, <1>7 DEF RecordInv, StoreTypeOK
<1> QED
  BY <1>1, <1>2, <1>6, <1>8 DEF RecordInv

\* A sample is inserted.
LEMMA InsertSampleInv ==
    ASSUME RecordInv, NEW e \in Exchanges, NEW c \in Currencies, NEW v \in Uint64,
           NEW m \in Minutes, InsertSample(e, c, v, m)
    PROVE  RecordInv'
<1> DEFINE r == [Exchange |-> e, Currency |-> c, Value |-> v, MinuteTS |-> m]
           n == Len(samples)
           key == SampleKeysOf(samples)
           value == ValuesOf(samples)
           key2 == SampleKeysOf(samples')
           value2 == ValuesOf(samples')
<1>1. /\ samples' = Append(samples, r) /\ r \in SampleEntry
      /\ samples \in Seq(SampleEntry)
      /\ aggregates' = aggregates /\ aggregated_prices' = aggregated_prices
      /\ open' = open
      /\ exchange_prices' = Upsert(exchange_prices, <<e, c, m>>, ToInt64(v))
  BY DEF RecordInv, InsertSample, InsertExchangePrice, SampleEntry
<1>2. /\ samples' \in Seq(SampleEntry)
      /\ Len(samples') = n + 1 /\ n \in Nat
      /\ samples'[n + 1] = r
      /\ \A i \in 1 .. n : samples'[i] = samples[i]
  <2> HIDE DEF r
  <2> QED
    BY <1>1, AppendProperties, LenProperties
<1>3. \A i \in 1 .. n : key2[i] = key[i] /\ value2[i] = value[i]
  BY <1>2 DEF SampleKeysOf, ValuesOf
<1>4. key2[n + 1] = <<e, c, m>> /\ value2[n + 1] = v
  BY <1>2 DEF SampleKeysOf, ValuesOf
<1>5. Tracks(exchange_prices, n, key, value)
  BY DEF RecordInv
<1>6. Tracks(exchange_prices', n + 1, key2, value2)
  <2> HIDE DEF n, key, value, key2, value2
  <2>1. Tracks(Upsert(exchange_prices, key2[n + 1], ToInt64(value2[n + 1])),
               n + 1, key2, value2)
    BY <1>2, <1>3, <1>5, UpsertTracks
  <2> QED
    BY <1>1, <1>4, <2>1
<1>7. IsTable(exchange_prices', ExchangeKeys)
  <2>1. IsTable(exchange_prices, ExchangeKeys) /\ <<e, c, m>> \in ExchangeKeys
    BY DEF RecordInv, StoreTypeOK, ExchangeKeys
  <2> QED
    BY <1>1, <2>1, ToInt64Type, UpsertIsTable
<1>8. StoreTypeOK'
  BY <1>1, <1>7 DEF RecordInv, StoreTypeOK
<1> QED
  BY <1>1, <1>2, <1>6, <1>8 DEF RecordInv

(***************************************************************************)
(* The inductive invariant of the store with its logs.                     *)
(***************************************************************************)
THEOREM RecordInvariant == RecordedSpec => []RecordInv
<1>1. RecordInv /\ [RecordedNext]_recordedVars => RecordInv'
  <2> SUFFICES ASSUME RecordInv, [RecordedNext]_recordedVars PROVE RecordInv'
    OBVIOUS
  <2>1. CASE Reopen
    <3>1. /\ aggregated_prices' = aggregated_prices
          /\ exchange_prices' = exchange_prices
          /\ open' \in BOOLEAN /\ aggregates' = aggregates /\ samples' = samples
      BY <2>1 DEF Reopen, OpenStore, CloseStore, logs
    <3> QED
      BY <3>1 DEF RecordInv, StoreTypeOK
  <2>2. ASSUME NEW c \in Currencies, NEW v \in Uint64, NEW m \in Minutes,
               InsertAggregate(c, v, m)
        PROVE  RecordInv'
    BY <2>2, InsertAggregateInv
  <2>3. ASSUME NEW c \in Currencies, NEW v \in Uint64, NEW m \in Minutes,
               NEW e \in Exchanges, InsertSample(e, c, v, m)
        PROVE  RecordInv'
    BY <2>3, InsertSampleInv
  <2>4. CASE UNCHANGED recordedVars
    <3>1. UNCHANGED <<storeVars, logs>>
      BY <2>4 DEF recordedVars
    <3> QED
      BY <3>1 DEF RecordInv, StoreTypeOK, storeVars, logs
  <2> QED
    BY <2>1, <2>2, <2>3, <2>4 DEF RecordedNext
<1> QED
  BY <1>1, RecordInitInv, PTL DEF RecordedSpec

(***************************************************************************)
(* Each table holds a key of its UNIQUE constraint once, with a value that *)
(* fits the signed column, whatever is inserted (sqlite.go:49-64).         *)
(***************************************************************************)
THEOREM StoreTypeCorrect == RecordedSpec => []StoreTypeOK
BY RecordInvariant, PTL DEF RecordInv

-----------------------------------------------------------------------------
(***************************************************************************)
(* The point queries against the logs.                                     *)
(***************************************************************************)

\* The types of the entries of the logs.
LEMMA EntriesTyped ==
    ASSUME RecordInv
    PROVE  /\ DOMAIN aggregates = 1 .. Len(aggregates) /\ Len(aggregates) \in Nat
           /\ \A i \in 1 .. Len(aggregates) : aggregates[i] \in AggregateEntry
           /\ DOMAIN samples = 1 .. Len(samples) /\ Len(samples) \in Nat
           /\ \A i \in 1 .. Len(samples) : samples[i] \in SampleEntry
BY LenProperties, ElementOfSeq DEF RecordInv

\* The newest of a currency's aggregates at the minutes of T.
LEMMA AggregateAnswer ==
    ASSUME RecordInv, NEW c, NEW T
    PROVE  Newest(AggregatedRows(c, {m \in AggregatedMinutes(c) : m \in T}))
              = Answer(aggregates, AggregatesAt(c, T))
<1> DEFINE n == Len(aggregates)
           hits == AggregatesAt(c, T)
           M == {m \in AggregatedMinutes(c) : m \in T}
           rows == AggregatedRows(c, M)
           key == AggregateKeysOf(aggregates)
           value == ValuesOf(aggregates)
<1>1. /\ n \in Nat /\ hits \subseteq 1 .. n
      /\ \A i \in 1 .. n : /\ aggregates[i].MinuteTS \in Int
                           /\ aggregates[i].Value \in Uint64
  BY EntriesTyped, StoreAssumption DEF AggregatesAt, AggregateEntry
<1>2. \A i \in 1 .. n : /\ key[i] = <<aggregates[i].Currency, aggregates[i].MinuteTS>>
                        /\ value[i] = aggregates[i].Value
  BY DEF AggregateKeysOf, ValuesOf
<1>3. Tracks(aggregated_prices, n, key, value)
  BY DEF RecordInv
<1>4. \A i : i \in hits <=> /\ i \in 1 .. n /\ aggregates[i].Currency = c
                            /\ aggregates[i].MinuteTS \in T
  BY EntriesTyped DEF AggregatesAt
<1> HIDE DEF n, key, value, hits
<1>5. M = {aggregates[i].MinuteTS : i \in hits}
  BY <1>2, <1>3, <1>4 DEF AggregatedMinutes, Tracks
<1>6. DOMAIN rows = M /\ \A m \in M : rows[m] = aggregated_prices[<<c, m>>]
  BY DEF AggregatedRows
<1>7. ASSUME NEW i \in hits,
             \A j \in hits : aggregates[j].MinuteTS = aggregates[i].MinuteTS => j <= i
      PROVE  rows[aggregates[i].MinuteTS] = ToInt64(aggregates[i].Value)
  <2>1. LastAt(i, n, key)
    BY <1>2, <1>4, <1>7 DEF LastAt
  <2>2. aggregated_prices[key[i]] = ToInt64(value[i])
    BY <1>3, <1>4, <2>1 DEF Tracks
  <2>3. rows[aggregates[i].MinuteTS] =
            aggregated_prices[<<c, aggregates[i].MinuteTS>>]
    BY <1>5, <1>6
  <2>4. key[i] = <<c, aggregates[i].MinuteTS>> /\ value[i] = aggregates[i].Value
    BY <1>2, <1>4
  <2> QED
    BY <2>2, <2>3, <2>4
<1>8. /\ hits \in SUBSET (1 .. n)
      /\ DOMAIN rows = {aggregates[i].MinuteTS : i \in hits}
  BY <1>1, <1>5, <1>6
<1> HIDE DEF rows, M
<1>9. Newest(rows) = Answer(aggregates, hits)
  BY <1>1, <1>7, <1>8, NewestIsAnswer
<1> QED
  BY <1>9 DEF rows, M, hits

\* The newest of an exchange's samples at the minutes of T.
LEMMA SampleAnswer ==
    ASSUME RecordInv, NEW e, NEW c, NEW T
    PROVE  Newest(ExchangeRows(c, e, {m \in ExchangeMinutes(c, e) : m \in T}))
              = Answer(samples, SamplesAt(e, c, T))
<1> DEFINE n == Len(samples)
           hits == SamplesAt(e, c, T)
           M == {m \in ExchangeMinutes(c, e) : m \in T}
           rows == ExchangeRows(c, e, M)
           key == SampleKeysOf(samples)
           value == ValuesOf(samples)
<1>1. /\ n \in Nat /\ hits \subseteq 1 .. n
      /\ \A i \in 1 .. n : /\ samples[i].MinuteTS \in Int
                           /\ samples[i].Value \in Uint64
  BY EntriesTyped, StoreAssumption DEF SamplesAt, SampleEntry
<1>2. \A i \in 1 .. n :
          /\ key[i] = <<samples[i].Exchange, samples[i].Currency, samples[i].MinuteTS>>
          /\ value[i] = samples[i].Value
  BY DEF SampleKeysOf, ValuesOf
<1>3. Tracks(exchange_prices, n, key, value)
  BY DEF RecordInv
<1>4. \A i : i \in hits <=> /\ i \in 1 .. n /\ samples[i].Exchange = e
                            /\ samples[i].Currency = c /\ samples[i].MinuteTS \in T
  BY EntriesTyped DEF SamplesAt
<1> HIDE DEF n, key, value, hits
<1>5. M = {samples[i].MinuteTS : i \in hits}
  BY <1>2, <1>3, <1>4 DEF ExchangeMinutes, Tracks
<1>6. DOMAIN rows = M /\ \A m \in M : rows[m] = exchange_prices[<<e, c, m>>]
  BY DEF ExchangeRows
<1>7. ASSUME NEW i \in hits,
             \A j \in hits : samples[j].MinuteTS = samples[i].MinuteTS => j <= i
      PROVE  rows[samples[i].MinuteTS] = ToInt64(samples[i].Value)
  <2>1. LastAt(i, n, key)
    BY <1>2, <1>4, <1>7 DEF LastAt
  <2>2. exchange_prices[key[i]] = ToInt64(value[i])
    BY <1>3, <1>4, <2>1 DEF Tracks
  <2>3. samples[i].MinuteTS \in M
    BY <1>5
  <2>4. key[i] = <<e, c, samples[i].MinuteTS>> /\ value[i] = samples[i].Value
    BY <1>2, <1>4
  <2> HIDE DEF rows, M
  <2> QED
    BY <1>6, <2>2, <2>3, <2>4
<1>8. /\ hits \in SUBSET (1 .. n)
      /\ DOMAIN rows = {samples[i].MinuteTS : i \in hits}
  BY <1>1, <1>5, <1>6
<1> HIDE DEF rows, M
<1>9. Newest(rows) = Answer(samples, hits)
  BY <1>1, <1>7, <1>8, NewestIsAnswer
<1> QED
  BY <1>9 DEF rows, M, hits

\* The minutes of a currency's rows are minutes.
LEMMA MinutesTyped ==
    ASSUME StoreTypeOK, NEW c, NEW e
    PROVE  /\ AggregatedMinutes(c) \subseteq Minutes
           /\ ExchangeMinutes(c, e) \subseteq Minutes
BY DEF StoreTypeOK, IsTable, AggregatedMinutes, ExchangeMinutes, AggregateKeys,
       ExchangeKeys

(***************************************************************************)
(* The queries answer what a reader of the logs of the inserts would, for  *)
(* any inserts in any order (sqlite.go:124-224, interface.go:39-68).       *)
(***************************************************************************)
THEOREM QueriesReadBackLog == RecordedSpec => []QueriesReadBack
<1>1. RecordInv => QueriesReadBack
  <2> SUFFICES ASSUME RecordInv, NEW c \in Currencies
               PROVE  /\ LatestAggregatedPrice(c) =
                            Answer(aggregates, AggregatesAt(c, Minutes))
                      /\ \A m \in Minutes :
                            AggregatedPriceAt(c, m) =
                               Answer(aggregates,
                                      AggregatesAt(c, {n \in Minutes : n <= m}))
                      /\ \A e \in Exchanges :
                            /\ LatestExchangePrice(c, e) =
                                  Answer(samples, SamplesAt(e, c, Minutes))
                            /\ \A m \in Minutes :
                                  ExchangePriceAt(c, e, m) =
                                     Answer(samples, SamplesAt(e, c, {m}))
    BY DEF QueriesReadBack
  <2> DEFINE AM == AggregatedMinutes(c)
             EM(e) == ExchangeMinutes(c, e)
  <2>1. AM \subseteq Minutes /\ \A e : EM(e) \subseteq Minutes
    BY MinutesTyped DEF RecordInv
  <2>2. LatestAggregatedPrice(c) = Answer(aggregates, AggregatesAt(c, Minutes))
    <3>1. {m \in AM : m \in Minutes} = AM
      BY <2>1
    <3> QED
      BY <3>1, AggregateAnswer DEF LatestAggregatedPrice
  <2>3. ASSUME NEW m \in Minutes
        PROVE  AggregatedPriceAt(c, m) =
                  Answer(aggregates, AggregatesAt(c, {n \in Minutes : n <= m}))
    <3>1. {n \in AM : n \in {k \in Minutes : k <= m}} = {n \in AM : n <= m}
      BY <2>1
    <3> QED
      BY <3>1, AggregateAnswer DEF AggregatedPriceAt
  <2>4. ASSUME NEW e \in Exchanges
        PROVE  LatestExchangePrice(c, e) = Answer(samples, SamplesAt(e, c, Minutes))
    <3>1. {m \in EM(e) : m \in Minutes} = EM(e)
      BY <2>1
    <3> QED
      BY <3>1, SampleAnswer DEF LatestExchangePrice
  <2>5. ASSUME NEW e \in Exchanges, NEW m \in Minutes
        PROVE  ExchangePriceAt(c, e, m) = Answer(samples, SamplesAt(e, c, {m}))
    <3>1. {n \in EM(e) : n \in {m}} = EM(e) \cap {m}
      OBVIOUS
    <3> QED
      BY <3>1, SampleAnswer DEF ExchangePriceAt
  <2> QED
    BY <2>2, <2>3, <2>4, <2>5
<1> QED
  BY <1>1, RecordInvariant, PTL

-----------------------------------------------------------------------------
(***************************************************************************)
(* The list over a range.                                                  *)
(***************************************************************************)

\* Finitely many minutes can be put in ascending order.
LEMMA ChronologicalOrder ==
    ASSUME NEW M \in SUBSET Int, IsFiniteSet(M)
    PROVE  LET s == Chronological(M)
           IN  /\ Cardinality(M) \in Nat
               /\ s \in [1 .. Cardinality(M) -> M]
               /\ \A i, j \in 1 .. Cardinality(M) : i < j => s[i] < s[j]
               /\ \A m \in M : \E i \in 1 .. Cardinality(M) : s[i] = m
<1> DEFINE n == Cardinality(M)
           id == [m \in M |-> m]
           o == Sorted(id)
           s == Chronological(M)
           Ordered(f) == \A i, j \in DOMAIN f : i < j => f[i] < f[j]
<1>1. n \in Nat
  BY FS_CardinalityType
<1>2. o \in Orders(M) /\ Ascending(id, o)
  <2>1. id \in [M -> Int]
    OBVIOUS
  <2> HIDE DEF id
  <2> QED
    BY <2>1, SortedExists
<1>3. /\ o \in [1 .. n -> M]
      /\ \A i, j \in 1 .. n : o[i] = o[j] => i = j
  BY <1>2 DEF Orders, Bijection, Injection, IsInjective
<1>4. \A i, j \in 1 .. n : i < j => o[i] <= o[j]
  <2> HIDE DEF o
  <2> QED
    BY <1>2, <1>3 DEF Ascending
<1> HIDE DEF n, o
<1>5. Ordered(o)
  <2>1. \A i \in 1 .. n : o[i] \in Int
    BY <1>3
  <2> QED
    BY <1>1, <1>3, <1>4, <2>1
<1>6. s \in [1 .. n -> M] /\ Ordered(s)
  BY <1>3, <1>5 DEF Chronological, n
<1> HIDE DEF s
<1>7. \A i, j \in 1 .. n : i < j => s[i] < s[j]
  BY <1>6
<1>8. s \in Injection(1 .. n, M)
  <2>1. \A i \in 1 .. n : s[i] \in Int
    BY <1>6
  <2>2. \A i, j \in 1 .. n : s[i] = s[j] => i = j
    BY <1>1, <1>7, <2>1
  <2> QED
    BY <1>6, <2>2 DEF Injection, IsInjective
<1>9. s \in Surjection(1 .. n, M)
  <2>1. Cardinality(1 .. n) = n
    BY <1>1, FS_Interval
  <2> QED
    BY <1>8, <2>1, FS_Injection DEF n
<1>10. \A m \in M : \E i \in 1 .. n : s[i] = m
  BY <1>9 DEF Surjection
<1> QED
  BY <1>1, <1>6, <1>7, <1>10 DEF n, s

\* The store holds finitely many rows.
LEMMA RowsFinite ==
    ASSUME RecordInv, NEW c
    PROVE  IsFiniteSet(AggregatedMinutes(c))
<1> DEFINE n == Len(aggregates)
           T == {aggregates[i].MinuteTS : i \in 1 .. n}
           f == [i \in 1 .. n |-> aggregates[i].MinuteTS]
<1>1. n \in Nat /\ IsFiniteSet(1 .. n)
  BY EntriesTyped, FS_Interval
<1>2. f \in Surjection(1 .. n, T)
  BY DEF Surjection
<1>3. IsFiniteSet(T)
  <2> HIDE DEF f, T
  <2> QED
    BY <1>1, <1>2, FS_Surjection
<1>4. \A i \in 1 .. n : AggregateKeysOf(aggregates)[i]
                           = <<aggregates[i].Currency, aggregates[i].MinuteTS>>
  BY DEF AggregateKeysOf
<1>5. DOMAIN aggregated_prices = {AggregateKeysOf(aggregates)[i] : i \in 1 .. n}
  BY DEF RecordInv, Tracks
<1>6. AggregatedMinutes(c) \subseteq T
  BY <1>4, <1>5 DEF AggregatedMinutes
<1> QED
  BY <1>3, <1>6, FS_Subset

\* A lookup at a minute that has a row answers that row.
LEMMA LookupOfRow ==
    ASSUME StoreTypeOK, NEW c, NEW m \in AggregatedMinutes(c)
    PROVE  AggregatedPriceAt(c, m) = StoredPrice(aggregated_prices[<<c, m>>], m)
<1> DEFINE M == {n \in AggregatedMinutes(c) : n <= m}
           rows == AggregatedRows(c, M)
<1>1. AggregatedMinutes(c) \subseteq Int
  BY MinutesTyped, StoreAssumption
<1>2. DOMAIN rows = M /\ M \in SUBSET Int /\ m \in M /\ \A n \in M : n <= m
  BY <1>1 DEF AggregatedRows
<1>3. rows[m] = aggregated_prices[<<c, m>>]
  BY <1>2 DEF AggregatedRows
<1> HIDE DEF rows, M
<1>4. Newest(rows) = StoredPrice(rows[m], m)
  BY <1>2, NewestIs
<1> QED
  BY <1>3, <1>4 DEF AggregatedPriceAt, rows, M

\* The row a lookup finds is the newest up to the minute asked for.
LEMMA LookupFinds ==
    ASSUME RecordInv, NEW c, NEW m \in Minutes, AggregatedPriceAt(c, m).found
    PROVE  \E n \in AggregatedMinutes(c) :
              /\ n <= m /\ \A k \in AggregatedMinutes(c) : k <= m => k <= n
              /\ AggregatedPriceAt(c, m) = StoredPrice(aggregated_prices[<<c, n>>], n)
<1> DEFINE M == {n \in AggregatedMinutes(c) : n <= m}
           rows == AggregatedRows(c, M)
<1>1. DOMAIN rows = M /\ AggregatedPriceAt(c, m) = Newest(rows)
  BY DEF AggregatedRows, AggregatedPriceAt
<1>2. M # {}
  <2> SUFFICES ASSUME M = {} PROVE FALSE
    OBVIOUS
  <2>1. AggregatedPriceAt(c, m) = [found |-> FALSE]
    BY <1>1 DEF Newest, ErrNotFound
  <2>2. AggregatedPriceAt(c, m).found = FALSE
    BY <2>1
  <2> QED
    BY <2>2
<1>3. M \in SUBSET Int /\ IsFiniteSet(M)
  <2>1. AggregatedMinutes(c) \subseteq Int /\ M \subseteq AggregatedMinutes(c)
    BY MinutesTyped, StoreAssumption DEF RecordInv
  <2> QED
    BY <2>1, RowsFinite, FS_Subset
<1>4. Max(M) \in M /\ \A n \in M : n <= Max(M)
  <2> HIDE DEF M
  <2> QED
    BY <1>2, <1>3, GreatestExists
<1>5. Newest(rows) = StoredPrice(rows[Max(M)], Max(M))
  BY <1>1, <1>2 DEF Newest
<1>6. rows[Max(M)] = aggregated_prices[<<c, Max(M)>>]
  BY <1>4 DEF AggregatedRows
<1> QED
  BY <1>1, <1>4, <1>5, <1>6

(***************************************************************************)
(* The list and the point queries agree on every row and on the end of the *)
(* range (sqlite.go:228-252).                                              *)
(***************************************************************************)
THEOREM ListAgrees == RecordedSpec => []ListAgreesWithLookups
<1>1. RecordInv => ListAgreesWithLookups
  <2> SUFFICES ASSUME RecordInv, NEW c \in Currencies, NEW start \in Minutes,
                      NEW end \in Minutes
               PROVE  LET rows == ListAggregatedPrices(c, start, end)
                          at   == AggregatedPriceAt(c, end)
                      IN  /\ \A i \in DOMAIN rows :
                                /\ rows[i] = AggregatedPriceAt(c, rows[i].MinuteTS)
                                /\ i > 1 => rows[i-1].MinuteTS < rows[i].MinuteTS
                          /\ at.found /\ at.MinuteTS >= start =>
                                rows # <<>> /\ rows[Len(rows)] = at
    BY DEF ListAgreesWithLookups
  <2> DEFINE rows == ListAggregatedPrices(c, start, end)
             at == AggregatedPriceAt(c, end)
             M == {m \in AggregatedMinutes(c) : start <= m /\ m <= end}
             n == Cardinality(M)
             s == Chronological(M)
  <2>1. StoreTypeOK /\ M \subseteq AggregatedMinutes(c) /\ M \in SUBSET Int
    BY MinutesTyped, StoreAssumption DEF RecordInv
  <2>2. /\ n \in Nat /\ s \in [1 .. n -> M]
        /\ \A i, j \in 1 .. n : i < j => s[i] < s[j]
        /\ \A m \in M : \E i \in 1 .. n : s[i] = m
    <3>1. IsFiniteSet(M)
      BY <2>1, RowsFinite, FS_Subset
    <3> HIDE DEF M
    <3> QED
      BY <2>1, <3>1, ChronologicalOrder
  <2>3. rows = [i \in 1 .. n |-> StoredPrice(aggregated_prices[<<c, s[i]>>], s[i])]
    <3>1. DOMAIN s = 1 .. n /\ \A i \in 1 .. n : s[i] \in M
      BY <2>2
    <3>2. rows = [i \in DOMAIN s |-> StoredPrice(AggregatedRows(c, M)[s[i]], s[i])]
      BY DEF ListAggregatedPrices
    <3> HIDE DEF rows, s, M, n
    <3>3. \A i \in 1 .. n : AggregatedRows(c, M)[s[i]] = aggregated_prices[<<c, s[i]>>]
      BY <3>1 DEF AggregatedRows
    <3> QED
      BY <3>1, <3>2, <3>3
  <2>4. Len(rows) = n
    <3> HIDE DEF n, s
    <3> QED
      BY <2>2, <2>3
  <2> HIDE DEF rows, s, n, at
  <2>5. \A i \in 1 .. n : /\ rows[i].MinuteTS = s[i]
                          /\ rows[i] = AggregatedPriceAt(c, s[i])
    <3> TAKE i \in 1 .. n
    <3>1. s[i] \in AggregatedMinutes(c)
      BY <2>1, <2>2
    <3>2. rows[i] = StoredPrice(aggregated_prices[<<c, s[i]>>], s[i])
      BY <2>3
    <3>3. rows[i] = AggregatedPriceAt(c, s[i])
      BY <2>1, <3>1, <3>2, LookupOfRow
    <3>4. rows[i].MinuteTS = s[i]
      BY <3>2 DEF StoredPrice
    <3> QED
      BY <3>3, <3>4
  <2>6. ASSUME NEW i \in DOMAIN rows
        PROVE  /\ rows[i] = AggregatedPriceAt(c, rows[i].MinuteTS)
               /\ i > 1 => rows[i-1].MinuteTS < rows[i].MinuteTS
    <3>1. i \in 1 .. n
      BY <2>3
    <3>2. i > 1 => i - 1 \in 1 .. n /\ i - 1 < i
      BY <2>2, <3>1
    <3> QED
      BY <2>2, <2>5, <3>1, <3>2
  <2>7. ASSUME at.found, at.MinuteTS >= start
        PROVE  rows # <<>> /\ rows[Len(rows)] = at
    <3>1. PICK m \in AggregatedMinutes(c) :
              /\ m <= end /\ \A k \in AggregatedMinutes(c) : k <= end => k <= m
              /\ at = StoredPrice(aggregated_prices[<<c, m>>], m)
      BY <2>7, LookupFinds DEF at
    <3>2. m \in M
      BY <2>7, <3>1 DEF StoredPrice
    <3>3. PICK i \in 1 .. n : s[i] = m
      BY <2>2, <3>2
    <3>4. n \in 1 .. n /\ s[n] \in M
      BY <2>2, <3>3
    <3>5. s[n] <= m /\ s[n] \in Int /\ m \in Int
      BY <2>1, <3>1, <3>2, <3>4
    <3>6. i = n
      <4>1. i < n => m < s[n]
        BY <2>2, <3>3, <3>4
      <4> QED
        BY <2>2, <3>3, <3>5, <4>1
    <3>7. rows[n] = at
      BY <2>3, <3>1, <3>3, <3>4, <3>6
    <3>8. rows # <<>>
      BY <2>3, <3>4
    <3> QED
      BY <2>4, <3>7, <3>8
  <2> QED
    BY <2>6, <2>7 DEF rows, at
<1> QED
  BY <1>1, RecordInvariant, PTL

-----------------------------------------------------------------------------
(***************************************************************************)
(* A lookup answers the same if no row up to its minute is written.        *)
(***************************************************************************)
LEMMA LookupUnmoved ==
    ASSUME StoreTypeOK, NEW c, NEW m, NEW key \in AggregateKeys, NEW i,
           aggregated_prices' = Upsert(aggregated_prices, key, i),
           ~(key[1] = c /\ key[2] <= m)
    PROVE  AggregatedPriceAt(c, m)' = AggregatedPriceAt(c, m)
<1> DEFINE M == {n \in AggregatedMinutes(c) : n <= m}
<1>1. \A k \in DOMAIN aggregated_prices \cup {key} : k = <<k[1], k[2]>>
  BY DEF StoreTypeOK, IsTable, AggregateKeys
<1>2. DOMAIN aggregated_prices' = DOMAIN aggregated_prices \cup {key}
  BY DEF Upsert
<1>3. \A n : n <= m => <<c, n>> # key
  OBVIOUS
<1>4. M' = M
  BY <1>1, <1>2, <1>3 DEF AggregatedMinutes
<1>5. \A n \in M : <<c, n>> \in DOMAIN aggregated_prices /\ <<c, n>> # key
  BY <1>1, <1>3 DEF AggregatedMinutes
<1>6. \A n \in M : aggregated_prices'[<<c, n>>] = aggregated_prices[<<c, n>>]
  BY <1>5 DEF Upsert
<1>7. AggregatedRows(c, M)' = AggregatedRows(c, M)
  BY <1>4, <1>6 DEF AggregatedRows
<1> QED
  BY <1>7 DEF AggregatedPriceAt, Newest, StoredPrice

(***************************************************************************)
(* An insert changes no answer about an earlier minute or another          *)
(* currency, and nothing but an insert changes any (sqlite.go:142-162).    *)
(***************************************************************************)
THEOREM InsertsStayLocal == RecordedSpec => InsertsAreLocal
<1> DEFINE Local ==
        \A c \in Currencies, m \in Minutes :
            AggregatedPriceAt(c, m)' # AggregatedPriceAt(c, m) =>
                /\ Len(aggregates') > Len(aggregates)
                /\ LET r == aggregates'[Len(aggregates')]
                   IN  r.Currency = c /\ r.MinuteTS <= m
<1>1. RecordInv /\ [RecordedNext]_recordedVars => [Local]_recordedVars
  <2> SUFFICES ASSUME RecordInv, [RecordedNext]_recordedVars,
                      NEW c \in Currencies, NEW m \in Minutes,
                      AggregatedPriceAt(c, m)' # AggregatedPriceAt(c, m)
               PROVE  /\ Len(aggregates') > Len(aggregates)
                      /\ LET r == aggregates'[Len(aggregates')]
                         IN  r.Currency = c /\ r.MinuteTS <= m
    OBVIOUS
  <2>1. aggregated_prices' # aggregated_prices
    BY DEF AggregatedPriceAt, AggregatedMinutes, AggregatedRows, Newest, StoredPrice
  <2>2. PICK d \in Currencies, v \in Uint64, n \in Minutes : InsertAggregate(d, v, n)
    BY <2>1 DEF RecordedNext, Reopen, OpenStore, CloseStore, InsertSample,
                InsertExchangePrice, recordedVars, storeVars
  <2>3. d = c /\ n <= m
    <3>1. /\ aggregated_prices' = Upsert(aggregated_prices, <<d, n>>, ToInt64(v))
          /\ <<d, n>> \in AggregateKeys /\ StoreTypeOK
      BY <2>2 DEF InsertAggregate, InsertAggregatedPrice, AggregateKeys, RecordInv
    <3> QED
      BY <3>1, LookupUnmoved
  <2> DEFINE r == [Currency |-> d, Value |-> v, MinuteTS |-> n]
  <2>4. aggregates \in Seq(AggregateEntry) /\ r \in AggregateEntry
        /\ aggregates' = Append(aggregates, r)
    BY <2>2 DEF InsertAggregate, RecordInv, AggregateEntry
  <2>5. /\ Len(aggregates') = Len(aggregates) + 1 /\ Len(aggregates) \in Nat
        /\ aggregates'[Len(aggregates) + 1] = r
    <3> HIDE DEF r
    <3> QED
      BY <2>4, AppendProperties, LenProperties
  <2> QED
    BY <2>3, <2>5
<1> QED
  BY <1>1, RecordInvariant, PTL DEF RecordedSpec, InsertsAreLocal
=============================================================================
