SPECIFICATION RecordedSpec
CONSTANTS
    Exchanges = {kraken, coinbase}
    Currencies = {usd, eur}
    Minutes = {0, 1, 2}
    HalfWord = 1
    MaxInserts = 3
INVARIANTS StoreTypeOK QueriesReadBack ListAgreesWithLookups
PROPERTIES InsertsAreLocal
SYMMETRY Symmetry
