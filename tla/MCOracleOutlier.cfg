SPECIFICATION Spec
CONSTANTS
    Exchanges = {kraken, coinbase, bitstamp}
    Currencies = {usd}
    NoCurrency = none
    Minutes = {0, 1}
    MaxMinute = 1
    HalfWord = 2
    Quotes = {1, 2}
    Serves <- ServesAll
    Updates <- MCUpdates
    SubBufferSize = 1
    MaxSubs = 0
    StoreMayFail = FALSE
INVARIANTS SingleOutlierResisted
SYMMETRY FeedSymmetry
