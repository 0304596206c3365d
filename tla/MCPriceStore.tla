---------------------------- MODULE MCPriceStore ----------------------------
(***************************************************************************)
(* The store by itself: any caller may insert samples of any minute in any *)
(* order.  The ghosts aggregates and samples log the inserts that          *)
(* succeeded, and the queries are compared with what a reader of the logs  *)
(* would answer.                                                           *)
(***************************************************************************)
EXTENDS PriceStore, TLC

CONSTANTS MaxInserts      \* bound: how many rows the two logs hold in all

VARIABLES aggregates, samples

logs == <<aggregates, samples>>
recordedVars == <<storeVars, logs>>

RecordedInit == StoreInit /\ aggregates = <<>> /\ samples = <<>>

Room == Len(aggregates) + Len(samples) < MaxInserts

InsertAggregate(c, v, m) ==
    /\ Room
    /\ InsertAggregatedPrice(c, v, m)
    /\ aggregates' = Append(aggregates, [Currency |-> c, Value |-> v, MinuteTS |-> m])
    /\ UNCHANGED samples

InsertSample(e, c, v, m) ==
    /\ Room
    /\ InsertExchangePrice(e, c, v, m)
    /\ samples' = Append(samples, [Exchange |-> e, Currency |-> c,
                                   Value |-> v, MinuteTS |-> m])
    /\ UNCHANGED aggregates

Reopen == (IF open THEN CloseStore ELSE OpenStore) /\ UNCHANGED logs

RecordedNext ==
    \/ Reopen
    \/ \E c \in Currencies, v \in Uint64, m \in Minutes :
          \/ InsertAggregate(c, v, m)
          \/ \E e \in Exchanges : InsertSample(e, c, v, m)

RecordedSpec == RecordedInit /\ [][RecordedNext]_recordedVars

-----------------------------------------------------------------------------
\* The last entry written at the newest minute of the entries of log at hits.
Answer(log, hits) ==
    LET newest == {i \in hits : \A j \in hits : log[j].MinuteTS <= log[i].MinuteTS}
        last   == log[Max(newest)]
    IN  IF hits = {} THEN ErrNotFound
        ELSE [found |-> TRUE, Value |-> last.Value, MinuteTS |-> last.MinuteTS]

\* Where the logs have an entry of a currency at a minute of M.
AggregatesAt(c, M) ==
    {i \in DOMAIN aggregates : /\ aggregates[i].Currency = c
                               /\ aggregates[i].MinuteTS \in M}

SamplesAt(e, c, M) ==
    {i \in DOMAIN samples : /\ samples[i].Exchange = e
                            /\ samples[i].Currency = c
                            /\ samples[i].MinuteTS \in M}

(***************************************************************************)
(* The queries read back what was inserted, whatever the order and through *)
(* the signed column: of the minutes that qualify the newest, and of what  *)
(* was inserted for that minute the last (pricestore/interface.go:39-68).  *)
(***************************************************************************)
QueriesReadBack ==
    \A c \in Currencies :
        /\ LatestAggregatedPrice(c) = Answer(aggregates, AggregatesAt(c, Minutes))
        /\ \A m \in Minutes :
              AggregatedPriceAt(c, m) =
                  Answer(aggregates, AggregatesAt(c, {n \in Minutes : n <= m}))
        /\ \A e \in Exchanges :
              /\ LatestExchangePrice(c, e) = Answer(samples, SamplesAt(e, c, Minutes))
              /\ \A m \in Minutes :
                    ExchangePriceAt(c, e, m) = Answer(samples, SamplesAt(e, c, {m}))

(***************************************************************************)
(* The list over a range and the point queries agree: it is in ascending   *)
(* order, each row is what AggregatedPriceAt answers at its minute, and    *)
(* the last row is what it answers at the end of the range.                *)
(***************************************************************************)
ListAgreesWithLookups ==
    \A c \in Currencies, start, end \in Minutes :
        LET rows == ListAggregatedPrices(c, start, end)
            at   == AggregatedPriceAt(c, end)
        IN  /\ \A i \in DOMAIN rows :
                  /\ rows[i] = AggregatedPriceAt(c, rows[i].MinuteTS)
                  /\ i > 1 => rows[i-1].MinuteTS < rows[i].MinuteTS
            /\ at.found /\ at.MinuteTS >= start =>
                  rows # <<>> /\ rows[Len(rows)] = at

(***************************************************************************)
(* A lookup of the past is settled: an insert for a minute changes no      *)
(* answer about an earlier one, nor any about another currency.            *)
(***************************************************************************)
InsertsAreLocal ==
    [][\A c \in Currencies, m \in Minutes :
          AggregatedPriceAt(c, m)' # AggregatedPriceAt(c, m) =>
              /\ Len(aggregates') > Len(aggregates)
              /\ LET r == aggregates'[Len(aggregates')]
                 IN  r.Currency = c /\ r.MinuteTS <= m
      ]_recordedVars

Symmetry == Permutations(Exchanges) \cup Permutations(Currencies)
=============================================================================
