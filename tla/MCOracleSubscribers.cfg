SPECIFICATION Spec
CONSTANTS
    Exchanges = {kraken}
    Currencies = {usd, eur}
    NoCurrency = none
    Minutes = {0, 1}
    MaxMinute = 1
    HalfWord = 1
    Quotes = {1}
    Serves <- ServesAll
    Updates <- MCUpdates
    SubBufferSize = 2
    MaxSubs = 1
    StoreMayFail = TRUE
INVARIANTS TypeOK UpdatesFollowLatest
SYMMETRY Symmetry
