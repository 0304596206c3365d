SPECIFICATION Spec
CONSTANTS
    usd = usd
    eur = eur
    gbp = gbp
    Currencies = {usd, eur, gbp}
    Intervals = {1, 3, 5}
    FetchTimeout = 1
    rateExpirySeconds = 6
    MaxFails = 2
    NoCurrency = none
    NoRate = norate
INVARIANTS TimingTypeOK AgedByFailuresOnly
PROPERTIES RatesRefreshed
SYMMETRY Alike
