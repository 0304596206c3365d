-------------------------- MODULE PollTimingProofs --------------------------
(***************************************************************************)
(* How old a price can be and whether a rate outlives it, for any number   *)
(* of currencies, any interval, deadline and expiry.  The work that        *)
(* remains of a poll is a number of deadlines: the lemmas on it hide the   *)
(* products, and the steps after them are linear.                          *)
(***************************************************************************)
EXTENDS PollTiming, FiniteSetTheorems, TLAPS

LEMMA Products ==
    /\ N \in Nat \ {0}
    /\ All \in Nat /\ Rest \in Nat
    /\ All = Rest + FetchTimeout
<1>1. N \in Nat \ {0}
  BY TimingAssumption, FS_CardinalityType, FS_EmptySet DEF N
<1>2. FetchTimeout \in Nat \ {0}
  BY TimingAssumption
<1>3. /\ All \in Nat /\ Rest \in Nat
      /\ All = Rest + FetchTimeout
  <2>1. \A k \in Nat \ {0}, d \in Nat \ {0} :
           /\ k * d \in Nat /\ (k - 1) * d \in Nat
           /\ k * d = (k - 1) * d + d
    OBVIOUS
  <2> QED
    BY <1>1, <1>2, <2>1 DEF All, Rest
<1> QED
  BY <1>1, <1>2, <1>3

\* The work that remains, in the three phases.
LEMMA WorkLeft ==
    ASSUME TimingTypeOK
    PROVE  /\ Remaining \in Nat
           /\ IsFiniteSet(pending) /\ Cardinality(pending) \in Nat
           /\ pending = {} => Cardinality(pending) = 0
           /\ Cardinality(pending) * FetchTimeout \in Nat
<1>1. IsFiniteSet(pending)
  BY TimingAssumption, FS_Subset DEF TimingTypeOK
<1>2. Cardinality(pending) \in Nat /\ (pending = {} => Cardinality(pending) = 0)
  BY <1>1, FS_CardinalityType, FS_EmptySet
<1>3. FetchTimeout \in Nat
  BY TimingAssumption
<1>4. Cardinality(pending) * FetchTimeout \in Nat
  <2>1. \A k \in Nat, d \in Nat : k * d \in Nat
    OBVIOUS
  <2> QED
    BY <1>2, <1>3, <2>1
<1>5. FetchTimeout - spent \in Nat
  BY <1>3 DEF TimingTypeOK
<1> QED
  BY <1>1, <1>2, <1>4, <1>5 DEF Remaining

\* Without a currency there is a deadline less to wait for.
LEMMA OneLess ==
    ASSUME NEW S, IsFiniteSet(S), NEW c \in S
    PROVE  Cardinality(S \ {c}) * FetchTimeout + FetchTimeout
               = Cardinality(S) * FetchTimeout
<1>1. Cardinality(S) \in Nat /\ Cardinality(S \ {c}) = Cardinality(S) - 1
  BY FS_CardinalityType, FS_RemoveElement
<1>2. FetchTimeout \in Nat
  BY TimingAssumption
<1>3. \A k \in Nat, d \in Nat : (k - 1) * d + d = k * d
  OBVIOUS
<1> QED
  BY <1>1, <1>2, <1>3

\* What is pending but one is a poll of the rest.
LEMMA PendingIsRest ==
    ASSUME TimingTypeOK, NEW c \in Currencies, c \notin pending
    PROVE  Cardinality(pending) * FetchTimeout <= Rest
<1>1. IsFiniteSet(Currencies \ {c}) /\ Cardinality(Currencies \ {c}) = N - 1
  BY TimingAssumption, FS_RemoveElement DEF N
<1>2. pending \subseteq Currencies \ {c}
  BY DEF TimingTypeOK
<1>3. Cardinality(pending) <= N - 1
  BY <1>1, <1>2, FS_Subset
<1>4. FetchTimeout \in Nat /\ N \in Nat \ {0} /\ Cardinality(pending) \in Nat
  BY TimingAssumption, Products, WorkLeft
<1>5. \A i \in Nat, k \in Nat, d \in Nat : i <= k => i * d <= k * d
  OBVIOUS
<1>6. N - 1 \in Nat
  BY <1>4
<1> QED
  BY <1>3, <1>4, <1>5, <1>6 DEF Rest

LEMMA Bounds ==
    ASSUME TimingTypeOK
    PROVE  /\ interval \in Nat \ {0} /\ FetchTimeout \in Nat \ {0}
           /\ Between \in Nat /\ interval <= Between /\ Rest <= Between
           /\ Refresh = Between + All /\ LongestGap = interval + Rest + All
           /\ LongestGap \in Nat
<1>1. interval \in Nat \ {0} /\ FetchTimeout \in Nat \ {0}
  BY TimingAssumption DEF TimingTypeOK
<1> QED
  BY <1>1, Products DEF Between, Refresh, LongestGap

\* The bounds are the same after every step.
LEMMA SameBounds ==
    ASSUME interval' = interval
    PROVE  /\ All' = All /\ Rest' = Rest /\ Between' = Between
           /\ Refresh' = Refresh /\ LongestGap' = LongestGap
BY DEF All, Rest, Between, Refresh, LongestGap, N

LEMMA InitInv == Init => TimingInv
<1> SUFFICES ASSUME Init PROVE TimingInv
  OBVIOUS
<1>1. TimingTypeOK
  <2>1. interval \in Nat \ {0} /\ FetchTimeout \in Nat
    BY TimingAssumption DEF Init
  <2>2. untilTick \in 0 .. interval /\ spent \in 0 .. FetchTimeout
    BY <2>1 DEF Init
  <2>3. /\ idle \in [Currencies -> Nat] /\ age \in [Currencies -> Nat]
        /\ fails \in [Currencies -> Nat]
    BY DEF Init, Zero
  <2> QED
    BY <2>2, <2>3 DEF Init, TimingTypeOK
<1>2. Remaining = All
  <2>1. Remaining = N * FetchTimeout + 0
    BY DEF Init, Remaining, N
  <2> QED
    BY <2>1, Products DEF All
<1>3. PhasesOK
  BY <1>2, Products DEF Init, PhasesOK
<1>4. ASSUME NEW c \in Currencies PROVE GapOK(c) /\ AgeOK(c)
  <2>1. Due(c) /\ idle[c] = 0 /\ age[c] = 0 /\ fails[c] = 0 /\ pc = "poll"
    BY DEF Init, Due, Zero
  <2> QED
    BY <1>1, <1>2, <2>1, Products, Bounds DEF GapOK, AgeOK
<1>5. rate = NoRate
  BY DEF Init
<1> QED
  BY <1>1, <1>3, <1>4, <1>5 DEF TimingInv

LEMMA PollDoneInv == TimingInv /\ PollDone => TimingInv'
<1> SUFFICES ASSUME TimingInv, PollDone PROVE TimingInv'
  OBVIOUS
<1>1. TimingTypeOK' /\ TimingTypeOK /\ PhasesOK
  BY DEF TimingInv, TimingTypeOK, PollDone
<1>2. Remaining = 0 /\ Remaining' = 0
  BY <1>1, WorkLeft, Bounds DEF PollDone, Remaining
<1>3. \A c \in Currencies : ~Due(c) /\ ~Due(c)'
  BY <1>1, TimingAssumption DEF PollDone, Due, PhasesOK
<1>4. PhasesOK'
  BY <1>1, <1>2, SameBounds, Products DEF PollDone, PhasesOK
<1>5. ASSUME NEW c \in Currencies PROVE GapOK(c)' /\ AgeOK(c)'
  <2>1. GapOK(c) /\ AgeOK(c) /\ ~Due(c) /\ ~Due(c)'
    BY <1>3 DEF TimingInv
  <2>2. AgeOK(c)'
    BY <2>1, SameBounds DEF PollDone, AgeOK
  <2>3. GapOK(c)'
    BY <1>1, <1>2, <2>1, SameBounds, Bounds, Products
       DEF PollDone, GapOK, TimingTypeOK
  <2> QED
    BY <2>2, <2>3
<1>6. ASSUME rate' # NoRate, ~rate.polled'
      PROVE  WaitOK(rate.currency, rateExpirySeconds - rate.left)'
  <2>1. rate \in Rates /\ WaitOK(rate.currency, rateExpirySeconds - rate.left)
    BY <1>1, <1>6 DEF PollDone, TimingInv, TimingTypeOK
  <2>2. rate' = rate /\ rate.currency \in Currencies
        /\ rateExpirySeconds - rate.left \in Int
    BY <2>1, TimingAssumption DEF PollDone, Rates
  <2> QED
    BY <1>1, <1>2, <1>3, <2>1, <2>2, SameBounds, Bounds, Products
       DEF PollDone, WaitOK, TimingTypeOK
<1> QED
  BY <1>1, <1>4, <1>5, <1>6 DEF TimingInv

LEMMA TickerFiresInv == TimingInv /\ TickerFires => TimingInv'
<1> SUFFICES ASSUME TimingInv, TickerFires PROVE TimingInv'
  OBVIOUS
<1>1. TimingTypeOK' /\ TimingTypeOK /\ PhasesOK
  <2>1. untilTick' \in 0 .. interval
    BY Bounds DEF TickerFires, TimingInv
  <2> QED
    BY <2>1 DEF TimingInv, TimingTypeOK, TickerFires, pollVars
<1>2. Remaining' = Remaining /\ \A c \in Currencies : Due(c)' = Due(c)
  BY DEF TickerFires, pollVars, Remaining, Due
<1>3. PhasesOK'
  BY <1>1, <1>2, SameBounds DEF TickerFires, pollVars, PhasesOK
<1>4. ASSUME NEW c \in Currencies PROVE GapOK(c)' /\ AgeOK(c)'
  <2>1. GapOK(c) /\ AgeOK(c)
    BY DEF TimingInv
  <2>2. AgeOK(c)'
    BY <2>1, SameBounds DEF TickerFires, AgeOK
  <2>3. GapOK(c)'
    BY <1>1, <1>2, <2>1, SameBounds, Bounds, Products
       DEF TickerFires, pollVars, GapOK, TimingTypeOK
  <2> QED
    BY <2>2, <2>3
<1>5. ASSUME rate' # NoRate, ~rate.polled'
      PROVE  WaitOK(rate.currency, rateExpirySeconds - rate.left)'
  <2>1. rate \in Rates /\ WaitOK(rate.currency, rateExpirySeconds - rate.left)
    BY <1>1, <1>5 DEF TickerFires, TimingInv, TimingTypeOK
  <2>2. rate' = rate /\ rate.currency \in Currencies
        /\ rateExpirySeconds - rate.left \in Int
    BY <2>1, TimingAssumption DEF TickerFires, Rates
  <2> QED
    BY <1>1, <1>2, <2>1, <2>2, SameBounds, Bounds, Products
       DEF TickerFires, pollVars, WaitOK, TimingTypeOK
<1> QED
  BY <1>1, <1>3, <1>4, <1>5 DEF TimingInv

LEMMA TakeTickInv == TimingInv /\ TakeTick => TimingInv'
<1> SUFFICES ASSUME TimingInv, TakeTick PROVE TimingInv'
  OBVIOUS
<1>1. TimingTypeOK' /\ TimingTypeOK /\ PhasesOK
  BY DEF TimingInv, TimingTypeOK, TakeTick
<1>2. Remaining' = All
  <2>1. Remaining' = N * FetchTimeout + 0
    BY DEF TakeTick, Remaining, N
  <2> QED
    BY <2>1, Products DEF All
<1>3. \A c \in Currencies : Due(c)'
  BY DEF TakeTick, Due
<1>4. PhasesOK'
  BY <1>1, <1>2, SameBounds, Products DEF TakeTick, PhasesOK
<1>5. ASSUME NEW c \in Currencies PROVE GapOK(c)' /\ AgeOK(c)'
  <2>1. GapOK(c) /\ AgeOK(c)
    BY DEF TimingInv
  <2>2. AgeOK(c)'
    BY <2>1, SameBounds DEF TakeTick, AgeOK
  <2>3. GapOK(c)'
    BY <1>1, <1>2, <1>3, <2>1, SameBounds, Bounds, Products
       DEF TakeTick, GapOK, TimingTypeOK
  <2> QED
    BY <2>2, <2>3
<1>6. ASSUME rate' # NoRate, ~rate.polled'
      PROVE  WaitOK(rate.currency, rateExpirySeconds - rate.left)'
  <2>1. rate \in Rates /\ WaitOK(rate.currency, rateExpirySeconds - rate.left)
    BY <1>1, <1>6 DEF TakeTick, TimingInv, TimingTypeOK
  <2>2. rate' = rate /\ rate.currency \in Currencies
        /\ rateExpirySeconds - rate.left \in Int
    BY <2>1, TimingAssumption DEF TakeTick, Rates
  <2> QED
    BY <1>1, <1>2, <1>3, <2>1, <2>2, SameBounds, Bounds, Products
       DEF TakeTick, WaitOK, TimingTypeOK
<1> QED
  BY <1>1, <1>4, <1>5, <1>6 DEF TimingInv

LEMMA PollCurrencyInv ==
    ASSUME TimingInv, NEW d \in Currencies, PollCurrency(d)
    PROVE  TimingInv'
<1>1. TimingTypeOK /\ PhasesOK
  BY DEF TimingInv
<1>2. TimingTypeOK'
  <2>1. spent' \in 0 .. FetchTimeout
    BY TimingAssumption DEF PollCurrency
  <2> QED
    BY <1>1, <2>1 DEF TimingTypeOK, PollCurrency, loopVars
<1>3. Remaining' = Remaining
  <2>1. Cardinality(pending \ {d}) * FetchTimeout + FetchTimeout
            = Cardinality(pending) * FetchTimeout
    BY <1>1, WorkLeft, OneLess DEF PollCurrency
  <2>2. Remaining = Cardinality(pending) * FetchTimeout + 0
    BY DEF Remaining, PollCurrency
  <2>3. Remaining' = Cardinality(pending \ {d}) * FetchTimeout + (FetchTimeout - 0)
    BY DEF Remaining, PollCurrency
  <2> QED
    BY <1>1, <2>1, <2>2, <2>3, WorkLeft, Bounds
<1>4. \A c \in Currencies : Due(c)' = Due(c)
  BY <1>1, TimingAssumption DEF PollCurrency, Due, PhasesOK
<1>5. PhasesOK'
  BY <1>1, <1>3, SameBounds DEF PollCurrency, loopVars, PhasesOK
<1>6. ASSUME NEW c \in Currencies PROVE GapOK(c)' /\ AgeOK(c)'
  <2>1. GapOK(c) /\ AgeOK(c)
    BY DEF TimingInv
  <2>2. AgeOK(c)'
    BY <2>1, SameBounds DEF PollCurrency, loopVars, AgeOK
  <2>3. GapOK(c)'
    BY <1>3, <1>4, <2>1, SameBounds DEF PollCurrency, loopVars, GapOK
  <2> QED
    BY <2>2, <2>3
<1>7. ASSUME rate' # NoRate, ~rate.polled'
      PROVE  WaitOK(rate.currency, rateExpirySeconds - rate.left)'
  <2>1. rate \in Rates /\ WaitOK(rate.currency, rateExpirySeconds - rate.left)
    BY <1>1, <1>7 DEF PollCurrency, TimingInv, TimingTypeOK
  <2>2. rate' = rate /\ rate.currency \in Currencies
    BY <2>1 DEF PollCurrency, Rates
  <2> QED
    BY <1>3, <1>4, <2>1, <2>2, SameBounds DEF PollCurrency, loopVars, WaitOK
<1> QED
  BY <1>2, <1>5, <1>6, <1>7 DEF TimingInv

\* What the two ways out of pollCurrency share.
LEMMA LeaveCurrencyInv ==
    ASSUME TimingInv, LeaveCurrency, UNCHANGED pending
    PROVE  /\ PhasesOK'
           /\ \A c \in Currencies : GapOK(c)'
           /\ rate' # NoRate /\ ~rate.polled' =>
                 WaitOK(rate.currency, rateExpirySeconds - rate.left)'
           /\ currency \in Currencies /\ idle[currency] <= LongestGap
           /\ rate' \in Rates \cup {NoRate}
<1>1. TimingTypeOK /\ PhasesOK /\ pc = "fetch" /\ pc' = "poll"
  BY DEF TimingInv, LeaveCurrency
<1>2. currency \in Currencies \ pending /\ currency # NoCurrency
  BY <1>1, TimingAssumption DEF TimingTypeOK
<1>3. Remaining' <= Remaining /\ Remaining' <= Rest /\ Remaining' \in Nat
  <2>1. Remaining = Cardinality(pending) * FetchTimeout + (FetchTimeout - spent)
    BY <1>1 DEF Remaining
  <2>2. Remaining' = Cardinality(pending) * FetchTimeout + 0
    BY <1>1 DEF Remaining
  <2>3. FetchTimeout - spent \in Nat
    BY <1>1, Bounds DEF TimingTypeOK
  <2> QED
    BY <1>1, <1>2, <2>1, <2>2, <2>3, WorkLeft, PendingIsRest
<1>4. \A c \in Currencies : (Due(c)' <=> Due(c) /\ c # currency)
  BY <1>2, TimingAssumption DEF LeaveCurrency, Due
<1>5. Due(currency) /\ GapOK(currency) /\ Remaining \in Nat
  BY <1>1, <1>2, WorkLeft DEF Due, TimingInv
<1>6. idle[currency] <= LongestGap
  BY <1>1, <1>2, <1>5, Bounds DEF GapOK, TimingTypeOK
<1>7. PhasesOK'
  BY <1>1, <1>3, <1>5, SameBounds, Products
     DEF LeaveCurrency, loopVars, PhasesOK
<1>8. ASSUME NEW c \in Currencies PROVE GapOK(c)'
  <2>1. CASE c = currency
    <3>1. idle'[c] = 0
      BY <1>1, <2>1 DEF LeaveCurrency, TimingTypeOK
    <3> QED
      BY <1>1, <1>3, <1>4, <2>1, <3>1, SameBounds, Bounds, Products
         DEF LeaveCurrency, loopVars, GapOK, TimingTypeOK
  <2>2. CASE c # currency
    <3>1. idle'[c] = idle[c] /\ (Due(c)' <=> Due(c)) /\ GapOK(c) /\ idle[c] \in Nat
      BY <1>1, <1>4, <2>2 DEF LeaveCurrency, TimingTypeOK, TimingInv
    <3> QED
      BY <1>1, <1>3, <1>5, <3>1, SameBounds, Bounds, Products
         DEF LeaveCurrency, loopVars, GapOK
  <2> QED
    BY <2>1, <2>2
<1>9. rate' \in Rates \cup {NoRate}
  <2>1. CASE rate # NoRate /\ rate.currency = currency
    <3>1. rate \in Rates
      BY <1>1, <2>1 DEF TimingTypeOK
    <3> QED
      BY <2>1, <3>1 DEF LeaveCurrency, Rates
  <2> QED
    BY <1>1, <2>1 DEF LeaveCurrency, TimingTypeOK
<1>10. ASSUME rate' # NoRate, ~rate.polled'
       PROVE  WaitOK(rate.currency, rateExpirySeconds - rate.left)'
  <2>1. rate \in Rates /\ rate' = rate /\ rate.currency # currency
    <3>1. rate \in Rates
      BY <1>1, <1>10 DEF LeaveCurrency, TimingTypeOK
    <3>2. rate.currency = currency => rate'.polled
      BY <1>10, <3>1 DEF LeaveCurrency, Rates
    <3> QED
      BY <1>10, <3>1, <3>2 DEF LeaveCurrency
  <2>2. WaitOK(rate.currency, rateExpirySeconds - rate.left)
        /\ rate.currency \in Currencies /\ rateExpirySeconds - rate.left \in Int
    BY <1>10, <2>1, TimingAssumption DEF TimingInv, Rates
  <2>3. Due(rate.currency)' <=> Due(rate.currency)
    BY <1>4, <2>1, <2>2 DEF Due
  <2> QED
    BY <1>1, <1>3, <1>5, <2>1, <2>2, <2>3, SameBounds, Bounds, Products
       DEF LeaveCurrency, loopVars, WaitOK
<1> QED
  BY <1>2, <1>6, <1>7, <1>8, <1>9, <1>10

LEMMA PublishedInv == TimingInv /\ Published => TimingInv'
<1> SUFFICES ASSUME TimingInv, Published PROVE TimingInv'
  OBVIOUS
<1>1. TimingTypeOK /\ LeaveCurrency /\ pending' = pending /\ currency \in Currencies
  BY LeaveCurrencyInv DEF TimingInv, Published
<1>2. TimingTypeOK'
  BY <1>1, LeaveCurrencyInv, TimingAssumption
     DEF TimingTypeOK, Published, LeaveCurrency, loopVars
<1>3. ASSUME NEW c \in Currencies PROVE AgeOK(c)'
  <2>1. CASE c = currency
    <3>1. age'[c] = 0 /\ fails'[c] = 0 /\ idle'[c] = 0
      BY <1>1, <2>1 DEF Published, LeaveCurrency, TimingTypeOK
    <3> QED
      BY <1>1, <3>1, SameBounds, Bounds DEF AgeOK, LeaveCurrency, loopVars
  <2>2. CASE c # currency
    <3>1. age'[c] = age[c] /\ fails'[c] = fails[c] /\ idle'[c] = idle[c]
      BY <1>1, <2>2 DEF Published, LeaveCurrency, TimingTypeOK
    <3> QED
      BY <1>1, <3>1, SameBounds DEF AgeOK, LeaveCurrency, loopVars, TimingInv
  <2> QED
    BY <2>1, <2>2
<1> QED
  BY <1>1, <1>2, <1>3, LeaveCurrencyInv DEF TimingInv

LEMMA PollFailsInv == TimingInv /\ PollFails => TimingInv'
<1> SUFFICES ASSUME TimingInv, PollFails PROVE TimingInv'
  OBVIOUS
<1>1. /\ TimingTypeOK /\ LeaveCurrency /\ pending' = pending
      /\ currency \in Currencies /\ idle[currency] <= LongestGap
  BY LeaveCurrencyInv DEF TimingInv, PollFails
<1>2. TimingTypeOK'
  BY <1>1, LeaveCurrencyInv, TimingAssumption
     DEF TimingTypeOK, PollFails, LeaveCurrency, loopVars
<1>3. ASSUME NEW c \in Currencies PROVE AgeOK(c)'
  <2>1. CASE c = currency
    <3>1. age'[c] = age[c] /\ fails'[c] = fails[c] + 1 /\ idle'[c] = 0
      BY <1>1, <2>1 DEF PollFails, LeaveCurrency, TimingTypeOK
    <3>2. age[c] <= fails[c] * LongestGap + idle[c] /\ idle[c] <= LongestGap
      BY <1>1, <2>1 DEF AgeOK, TimingInv
    <3>3. age[c] \in Nat /\ fails[c] \in Nat /\ idle[c] \in Nat /\ LongestGap \in Nat
      BY <1>1, Bounds DEF TimingTypeOK
    <3>4. \A k \in Nat, d \in Nat : k * d \in Nat /\ (k + 1) * d = k * d + d
      OBVIOUS
    <3>5. age[c] <= (fails[c] + 1) * LongestGap + 0
      BY <3>2, <3>3, <3>4
    <3> QED
      BY <1>1, <3>1, <3>5, SameBounds DEF AgeOK, LeaveCurrency, loopVars
  <2>2. CASE c # currency
    <3>1. age'[c] = age[c] /\ fails'[c] = fails[c] /\ idle'[c] = idle[c]
      BY <1>1, <2>2 DEF PollFails, LeaveCurrency, TimingTypeOK
    <3> QED
      BY <1>1, <3>1, SameBounds DEF AgeOK, LeaveCurrency, loopVars, TimingInv
  <2> QED
    BY <2>1, <2>2
<1> QED
  BY <1>1, <1>2, <1>3, LeaveCurrencyInv DEF TimingInv

LEMMA QueryAssetRatesInv ==
    ASSUME TimingInv, NEW d \in Currencies, QueryAssetRates(d)
    PROVE  TimingInv'
<1>1. TimingTypeOK /\ PhasesOK
  BY DEF TimingInv
<1>2. rate' = [currency |-> d, left |-> rateExpirySeconds, polled |-> FALSE]
      /\ rate' \in Rates
  BY TimingAssumption DEF QueryAssetRates, rateExpiry, Rates
<1>3. TimingTypeOK'
  BY <1>1, <1>2 DEF TimingTypeOK, QueryAssetRates, loopVars, pollVars
<1>4. Remaining' = Remaining /\ Remaining \in Nat /\ Due(d)' = Due(d)
  BY <1>1, WorkLeft DEF QueryAssetRates, pollVars, Remaining, Due
<1>5. PhasesOK'
  BY <1>1, <1>4, SameBounds DEF QueryAssetRates, loopVars, pollVars, PhasesOK
<1>6. \A c \in Currencies : GapOK(c)' /\ AgeOK(c)'
  BY <1>4, SameBounds
     DEF QueryAssetRates, loopVars, pollVars, TimingInv, GapOK, AgeOK, Due
<1>7. WaitOK(d, 0)
  <2>1. GapOK(d) /\ idle[d] \in Nat /\ untilTick \in 0 .. interval
    BY <1>1 DEF TimingInv, TimingTypeOK
  <2>2. Remaining <= All
    BY <1>1 DEF PhasesOK
  <2> QED
    BY <1>1, <1>4, <2>1, <2>2, Bounds, Products DEF GapOK, WaitOK
<1>8. rate'.currency = d /\ rateExpirySeconds - rate'.left = 0
  BY <1>2, TimingAssumption
<1>9. WaitOK(rate.currency, rateExpirySeconds - rate.left)'
  BY <1>4, <1>7, <1>8, SameBounds DEF QueryAssetRates, loopVars, pollVars, WaitOK, Due
<1> QED
  BY <1>3, <1>5, <1>6, <1>9 DEF TimingInv

LEMMA TockInv == TimingInv /\ Tock => TimingInv'
<1> SUFFICES ASSUME TimingInv, Tock PROVE TimingInv'
  OBVIOUS
<1>1. TimingTypeOK /\ PhasesOK /\ NothingDue
  BY DEF TimingInv, Tock
<1>2. /\ pc' = pc /\ tick' = tick /\ interval' = interval /\ ticking' = ticking
      /\ pending' = pending /\ currency' = currency /\ fails' = fails
      /\ priced' = priced
  BY DEF Tock
<1>3. pc \in {"fetch", "select"} /\ (pc = "select" => ticking /\ ~tick)
  BY <1>1 DEF TimingTypeOK, NothingDue, PhasesOK
<1>4. untilTick' \in 0 .. interval /\ untilTick' <= untilTick
      /\ (ticking => untilTick' = untilTick - 1)
  BY <1>1, Bounds DEF NothingDue, Tock, TimingTypeOK
<1>5. spent' \in 0 .. FetchTimeout /\ (pc = "fetch" => spent' = spent + 1)
  BY <1>1, Bounds DEF NothingDue, Tock, TimingTypeOK
<1>6. /\ idle' \in [Currencies -> Nat] /\ age' \in [Currencies -> Nat]
      /\ \A c \in Currencies : idle'[c] = idle[c] + 1 /\ age'[c] = age[c] + 1
  BY <1>1 DEF Tock, TimingTypeOK
<1>7. rate' \in Rates \cup {NoRate}
  <2>1. CASE rate # NoRate /\ rate.left # 0
    <3>1. rate \in Rates /\ rate.left \in 0 .. rateExpirySeconds
      BY <1>1, <2>1 DEF TimingTypeOK, Rates
    <3>2. rate.left - 1 \in 0 .. rateExpirySeconds
      BY <2>1, <3>1, TimingAssumption
    <3> QED
      BY <2>1, <3>1, <3>2 DEF Tock, Rates
  <2> QED
    BY <2>1 DEF Tock
<1>8. TimingTypeOK'
  BY <1>1, <1>2, <1>4, <1>5, <1>6, <1>7 DEF TimingTypeOK
<1>9. /\ Remaining \in Nat /\ Remaining' \in Nat
      /\ pc = "fetch" => Remaining' = Remaining - 1
      /\ pc = "select" => Remaining' = Remaining
  BY <1>1, <1>2, <1>5, <1>8, WorkLeft, Bounds DEF Remaining, TimingTypeOK
<1>10. \A c \in Currencies : Due(c)' <=> Due(c)
  BY <1>2 DEF Due
<1>11. \A c \in Currencies : pc = "select" => ~Due(c)
  BY <1>1, TimingAssumption DEF PhasesOK, Due
<1>12. PhasesOK'
  <2>1. ~ticking' => untilTick' = interval'
    BY <1>1, <1>2 DEF Tock, PhasesOK
  <2>2. rate = NoRate => rate' = NoRate
    BY DEF Tock
  <2> QED
    BY <1>1, <1>2, <1>3, <1>9, <2>1, <2>2, SameBounds, Products DEF PhasesOK
<1>13. ASSUME NEW c \in Currencies PROVE GapOK(c)' /\ AgeOK(c)'
  <2>1. GapOK(c) /\ AgeOK(c) /\ idle[c] \in Nat /\ age[c] \in Nat
        /\ fails[c] \in Nat /\ LongestGap \in Nat
    BY <1>1, Bounds DEF TimingInv, TimingTypeOK
  <2>2. fails[c] * LongestGap \in Nat
    BY <2>1
  <2>3. AgeOK(c)'
    BY <1>2, <1>6, <2>1, <2>2, SameBounds DEF AgeOK
  <2>4. ~ticking => pc = "fetch" /\ ~tick /\ untilTick = interval /\ untilTick' = interval
    BY <1>1, <1>3 DEF PhasesOK, Tock
  <2>5. CASE pc = "fetch"
    BY <1>1, <1>2, <1>4, <1>6, <1>9, <1>10, <2>1, <2>3, <2>4, <2>5, SameBounds,
       Bounds, Products
       DEF GapOK, TimingTypeOK
  <2>6. CASE pc = "select"
    BY <1>1, <1>2, <1>3, <1>4, <1>6, <1>10, <1>11, <2>1, <2>3, <2>6, SameBounds,
       Bounds, Products
       DEF GapOK, TimingTypeOK
  <2> QED
    BY <1>3, <2>5, <2>6
<1>14. ASSUME rate' # NoRate, ~rate.polled'
       PROVE  WaitOK(rate.currency, rateExpirySeconds - rate.left)'
  <2>1. rate # NoRate /\ rate \in Rates /\ rate' = [rate EXCEPT !.left = @ - 1]
    BY <1>1, <1>14 DEF Tock, TimingTypeOK
  <2>2. /\ rate'.currency = rate.currency /\ rate'.left = rate.left - 1
        /\ ~rate.polled /\ rate.currency \in Currencies /\ rate.left \in Nat
    BY <1>14, <2>1, TimingAssumption DEF Rates
  <2>3. WaitOK(rate.currency, rateExpirySeconds - rate.left) /\ ticking
    BY <1>1, <2>1, <2>2 DEF TimingInv, PhasesOK
  <2>4. PICK e \in Int : e = rateExpirySeconds - rate.left
    BY <2>2, TimingAssumption
  <2>5. rateExpirySeconds - rate'.left = e + 1
    BY <2>2, <2>4, TimingAssumption
  <2>6. Due(rate.currency)' <=> Due(rate.currency)
    BY <1>2, <2>2 DEF Due
  <2>7. CASE pc = "fetch"
    BY <1>1, <1>2, <1>4, <1>9, <2>3, <2>4, <2>5, <2>6, <2>7, SameBounds, Bounds, Products
       DEF WaitOK, TimingTypeOK
  <2>8. CASE pc = "select"
    BY <1>1, <1>2, <1>3, <1>4, <1>11, <2>2, <2>3, <2>4, <2>5, <2>6, <2>8, SameBounds,
       Bounds, Products DEF WaitOK, TimingTypeOK
  <2> QED
    BY <1>3, <2>7, <2>8
<1> QED
  BY <1>8, <1>12, <1>13, <1>14 DEF TimingInv

LEMMA StepInv == TimingInv /\ [Next]_vars => TimingInv'
<1> SUFFICES ASSUME TimingInv, [Next]_vars PROVE TimingInv'
  OBVIOUS
<1>1. CASE PollDone \/ TickerFires \/ TakeTick
  BY <1>1, PollDoneInv, TickerFiresInv, TakeTickInv
<1>2. CASE \E c \in Currencies : PollCurrency(c) \/ QueryAssetRates(c)
  BY <1>2, PollCurrencyInv, QueryAssetRatesInv
<1>3. CASE Published \/ PollFails
  BY <1>3, PublishedInv, PollFailsInv
<1>4. CASE Tock
  BY <1>4, TockInv
<1>5. CASE UNCHANGED vars
  <2>1. /\ Remaining' = Remaining /\ TimingTypeOK' /\ PhasesOK'
    BY <1>5, SameBounds
       DEF vars, loopVars, pollVars, Remaining, TimingInv, TimingTypeOK, PhasesOK
  <2>2. \A c \in Currencies : GapOK(c)' /\ AgeOK(c)'
    BY <1>5, <2>1, SameBounds
       DEF vars, loopVars, pollVars, TimingInv, GapOK, AgeOK, Due
  <2>3. rate' # NoRate /\ ~rate.polled' =>
           WaitOK(rate.currency, rateExpirySeconds - rate.left)'
    BY <1>5, <2>1, SameBounds
       DEF vars, loopVars, pollVars, TimingInv, WaitOK, Due
  <2> QED
    BY <2>1, <2>2, <2>3 DEF TimingInv
<1> QED
  BY <1>1, <1>2, <1>3, <1>4, <1>5 DEF Next

\* The timers, and the work that remains, stay within their bounds
\* (oracle.go:167-223).
THEOREM TimingInvariant == Spec => []TimingInv
BY InitInv, StepInv, PTL DEF Spec

-----------------------------------------------------------------------------
(***************************************************************************)
(* Types of the timers, for any number of currencies: no deadline and no   *)
(* tick is ever passed over (oracle.go:171, 203).                          *)
(***************************************************************************)
THEOREM TimersTypeCorrect == Spec => []TimingTypeOK
<1>1. TimingInv => TimingTypeOK
  BY DEF TimingInv
<1> QED
  BY <1>1, TimingInvariant, PTL

(***************************************************************************)
(* The price QueryAssetRates quotes is as old as its currency's failed     *)
(* polls make it and no older (rpcserver.go:87-115).                       *)
(***************************************************************************)
THEOREM PricesAgeByFailuresOnly == Spec => []AgedByFailuresOnly
<1>1. TimingInv => AgedByFailuresOnly
  <2> SUFFICES ASSUME TimingInv, NEW c \in Currencies
               PROVE  age[c] <= (fails[c] + 1) * LongestGap
    BY DEF AgedByFailuresOnly
  <2>1. GapOK(c) /\ AgeOK(c) /\ TimingTypeOK
    BY DEF TimingInv
  <2>2. /\ age[c] \in Nat /\ fails[c] \in Nat /\ idle[c] \in Nat
        /\ LongestGap \in Nat /\ Remaining \in Nat
    BY <2>1, Bounds, WorkLeft DEF TimingTypeOK
  <2>3. idle[c] <= LongestGap
    BY <2>1, <2>2, Bounds, Products DEF GapOK
  <2>4. \A k \in Nat, d \in Nat : k * d \in Nat /\ (k + 1) * d = k * d + d
    OBVIOUS
  <2> QED
    BY <2>1, <2>2, <2>3, <2>4 DEF AgeOK
<1> QED
  BY <1>1, TimingInvariant, PTL

(***************************************************************************)
(* A rate is not valid past the next poll of its currency, as long as      *)
(* Refresh fits the expiry (rpcserver.go:26-28, 115).                      *)
(***************************************************************************)
THEOREM RatesAlwaysRefreshed == Spec => RatesRefreshed
<1>1. TimingInv /\ [Next]_vars =>
          [Refresh <= rateExpirySeconds /\ rate # NoRate /\ rate' = NoRate
              => rate.polled]_vars
  <2> SUFFICES ASSUME TimingInv, Next, Refresh <= rateExpirySeconds,
                      rate # NoRate, rate' = NoRate, ~rate.polled
               PROVE  FALSE
    OBVIOUS
  <2>1. TimingTypeOK /\ PhasesOK /\ rate \in Rates
    BY DEF TimingInv, TimingTypeOK
  <2>2. ~LeaveCurrency
    <3>1. [rate EXCEPT !.polled = TRUE] \in Rates
      BY <2>1 DEF Rates
    <3> QED
      BY <3>1, TimingAssumption DEF LeaveCurrency, Rates
  <2>3. Tock
    BY <2>2 DEF Next, PollDone, TickerFires, TakeTick, PollCurrency,
                QueryAssetRates, Published, PollFails
  <2>4. rate.left = 0
    <3>1. SUFFICES ASSUME rate.left # 0 PROVE FALSE
      OBVIOUS
    <3>2. rate.left - 1 \in 0 .. rateExpirySeconds
      BY <2>1, <3>1, TimingAssumption DEF Rates
    <3>3. [rate EXCEPT !.left = @ - 1] \in Rates
      BY <2>1, <3>2 DEF Rates
    <3> QED
      BY <2>3, <3>1, <3>3, TimingAssumption DEF Tock, Rates
  <2>5. WaitOK(rate.currency, rateExpirySeconds) /\ rate.currency \in Currencies
    <3>1. rateExpirySeconds - rate.left = rateExpirySeconds
      BY <2>4, TimingAssumption
    <3> QED
      BY <2>1, <3>1 DEF TimingInv, Rates
  <2>6. NothingDue /\ Remaining \in Nat
    BY <2>1, <2>3, WorkLeft DEF Tock
  <2>7. CASE pc = "fetch"
    <3>1. FetchTimeout - spent \in Nat \ {0}
      BY <2>1, <2>6, <2>7, Bounds DEF NothingDue, TimingTypeOK
    <3>2. Remaining > 0
      BY <2>1, <2>7, <3>1, WorkLeft DEF Remaining
    <3> QED
      BY <2>1, <2>5, <2>6, <2>7, <3>2, Bounds, Products, TimingAssumption DEF WaitOK
  <2>8. CASE pc = "select"
    <3>1. Between < Refresh
      BY <2>1, Bounds, Products
    <3> QED
      BY <2>1, <2>5, <2>8, <3>1, Bounds, Products, TimingAssumption DEF WaitOK
  <2> QED
    BY <2>1, <2>6, <2>7, <2>8 DEF NothingDue, TimingTypeOK
<1> QED
  BY <1>1, TimingInvariant, PTL DEF Spec, RatesRefreshed
=============================================================================
