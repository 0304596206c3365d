SPECIFICATION ServersSpec
CONSTANTS
    usd = usd
    eur = eur
    kraken = kraken
    coinbase = coinbase
    Exchanges = {kraken, coinbase}
    Currencies = {usd, eur}
    NoCurrency = none
    Minutes = {0, 1}
    MaxMinute = 1
    HalfWord = 32
    Word = 64
    Decimals = 1
    Million = 10
    Quotes = {20}
    Serves <- MCServes
    Updates <- MCUpdates
    SubBufferSize = 1
    MaxSubs = 0
    StoreMayFail = FALSE
    AssetSections <- MCAssetSections
    RateRequests <- MCRateRequests
    HttpRequests <- MCHttpRequests
    SecondsPerMinute = 2
    NoDate = nodate
    NotADate = notadate
    NoExchange = noexchange
INVARIANTS ServersTypeOK AnswersNeverGoBack PricesToldAreOnRecord
PROPERTIES RatesFollowConfig
VIEW WithoutReply
