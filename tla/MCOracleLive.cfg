SPECIFICATION FairSpec
CONSTANTS
    Exchanges = {kraken, coinbase}
    Currencies = {usd, eur}
    NoCurrency = none
    Minutes = {0}
    MaxMinute = 0
    HalfWord = 1
    Quotes = {1}
    Serves <- ServesAll
    Updates <- MCUpdates
    SubBufferSize = 1
    MaxSubs = 0
    StoreMayFail = TRUE
PROPERTIES PollsEnd EveryCurrencyPolled StopCompletes
