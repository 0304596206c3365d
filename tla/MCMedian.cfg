SPECIFICATION HeardSpec
CONSTANTS
    MaxLen = 5
    Texts <- MCTexts
    Decimals = 2
    Word = 256
    Million = 10
    MarkupsPPM = {0, 1, 15, 245, 246, 255}
    DecimalDisplays = {0, 3}
INVARIANTS IsLowerMiddle OutlierResisted PricesShownExactly MarkupCoversPrice
PROPERTIES MovesOneRank QuotesAreReported
VIEW QuotesOnly
CHECK_DEADLOCK FALSE
