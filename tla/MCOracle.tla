------------------------------ MODULE MCOracle ------------------------------
(***************************************************************************)
(* Instances of Oracle for TLC.                                            *)
(***************************************************************************)
EXTENDS Oracle, TLC

MCUpdates == [Currency : Currencies, Price : [Value : Uint64, MinuteTS : Minutes]]

\* Every feed serves every currency.
ServesAll == [f \in Exchanges |-> Currencies]

\* No action and no property of the runs about aggregates reads the samples.
WithoutSamples ==
    <<now, daemon, pc, pending, currency, waiting, prices, unsaved, stored,
      latest, tick, aggregated_prices, open, subsVars>>

\* No action and no property of the run about one cycle's quotes reads the
\* aggregates, stored or current.
WithoutAggregates ==
    <<now, daemon, pc, pending, locals, tick, exchange_prices, open, subsVars>>

FeedSymmetry == Permutations(Exchanges)
Symmetry     == Permutations(Exchanges) \cup Permutations(Currencies)
=============================================================================
