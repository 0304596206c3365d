SPECIFICATION Spec
CONSTANTS
    Exchanges = {kraken}
    Currencies = {usd, eur}
    NoCurrency = none
    Minutes = {0, 1, 2}
    MaxMinute = 2
    HalfWord = 1
    Quotes = {0, 1}
    Serves <- ServesAll
    Updates <- MCUpdates
    SubBufferSize = 1
    MaxSubs = 0
    StoreMayFail = TRUE
INVARIANTS LatestIsNewest
PROPERTIES PastIsSettled ImplementsHistory
SYMMETRY Symmetry
VIEW WithoutSamples
