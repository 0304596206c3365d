----------------------------- MODULE PollTiming -----------------------------
(***************************************************************************)
(* The time a poll takes and the time a rate is valid: pollLoop and the    *)
(* deadline of pollCurrency (oracle/oracle.go) beside the expiry that      *)
(* QueryAssetRates stamps on a rate (rpcserver.go:26-28, 115).             *)
(*                                                                         *)
(* Time is counted by timers that all move together in Tock; what is due   *)
(* happens before time moves on.  INSERTs and critical sections take no    *)
(* time, a pollCurrency up to FetchTimeout, whatever its feeds do: they    *)
(* run concurrently under one deadline.                                    *)
(***************************************************************************)
EXTENDS Integers, FiniteSets

CONSTANTS
    Currencies,         \* those with a feed
    Intervals,          \* what pollinterval may say
    FetchTimeout,
    rateExpirySeconds,
    MaxFails,           \* bound: failed polls of one currency in a row
    NoCurrency,
    NoRate

ASSUME TimingAssumption ==
    /\ IsFiniteSet(Currencies)
    /\ Currencies # {}
    /\ Intervals \subseteq Nat \ {0}
    /\ FetchTimeout \in Nat \ {0}
    /\ rateExpirySeconds \in Nat
    /\ MaxFails \in Nat
    /\ NoCurrency \notin Currencies
    /\ NoRate \notin [currency : Currencies, left : 0 .. rateExpirySeconds,
                      polled : BOOLEAN]

VARIABLES
    interval,   \* Config.PollInterval
    ticking,    \* the initial poll is over: pollLoop runs, and the servers
    untilTick,  \* time to the ticker's next tick
    tick,       \* the ticker's channel holds a tick
    pc,         \* where the poller is: "poll", "fetch" or "select"
    pending,    \* currencies this pollAll has not reached yet
    currency,   \* the argument of pollCurrency
    spent,      \* time since pollCurrency set its deadline
    idle,       \* currency -> time since it was last polled, or since Start
    age,        \* currency -> time since its latest price, or since Start
    fails,      \* currency -> failed polls since its latest price
    priced,     \* the currencies with a latest price
    rate        \* a rate somebody was given and that is valid

loopVars == <<interval, ticking, untilTick, tick>>
pollVars == <<pc, pending, currency, spent>>
vars     == <<loopVars, pollVars, idle, age, fails, priced, rate>>

Rates == [currency : Currencies, left : 0 .. rateExpirySeconds, polled : BOOLEAN]

Zero == [c \in Currencies |-> 0]

\* Start, as far as the call of pollAll.
Init ==
    /\ interval \in Intervals
    /\ ticking = FALSE
    /\ untilTick = interval
    /\ tick = FALSE
    /\ pc = "poll"
    /\ pending = Currencies
    /\ currency = NoCurrency
    /\ spent = 0
    /\ idle = Zero
    /\ age = Zero
    /\ fails = Zero
    /\ priced = {}
    /\ rate = NoRate

-----------------------------------------------------------------------------
(***************************************************************************)
(* The poller                                                              *)
(***************************************************************************)

\* The ticker starts with pollLoop, after the initial poll.
PollDone ==
    /\ pc = "poll"
    /\ pending = {}
    /\ pc' = "select"
    /\ ticking' = TRUE
    /\ UNCHANGED <<interval, untilTick, tick, pending, currency, spent, idle,
                   age, fails, priced, rate>>

\* A tick nobody took yet is all the channel holds.
TickerFires ==
    /\ ticking
    /\ untilTick = 0
    /\ untilTick' = interval
    /\ tick' = TRUE
    /\ UNCHANGED <<interval, ticking, pollVars, idle, age, fails, priced, rate>>

TakeTick ==
    /\ pc = "select"
    /\ tick
    /\ tick' = FALSE
    /\ pc' = "poll"
    /\ pending' = Currencies
    /\ UNCHANGED <<interval, ticking, untilTick, currency, spent, idle, age,
                   fails, priced, rate>>

PollCurrency(c) ==
    /\ pc = "poll"
    /\ c \in pending
    /\ pc' = "fetch"
    /\ pending' = pending \ {c}
    /\ currency' = c
    /\ spent' = 0
    /\ UNCHANGED <<loopVars, idle, age, fails, priced, rate>>

\* pollCurrency returns.
LeaveCurrency ==
    /\ pc = "fetch"
    /\ pc' = "poll"
    /\ currency' = NoCurrency
    /\ spent' = 0
    /\ idle' = [idle EXCEPT ![currency] = 0]
    /\ rate' = IF rate # NoRate /\ rate.currency = currency
               THEN [rate EXCEPT !.polled = TRUE] ELSE rate
    /\ UNCHANGED loopVars

Published ==
    /\ LeaveCurrency
    /\ age' = [age EXCEPT ![currency] = 0]
    /\ fails' = [fails EXCEPT ![currency] = 0]
    /\ priced' = priced \cup {currency}
    /\ UNCHANGED pending

\* Mutant: a failure ends the whole poll.
FailureEndsPoll ==
    /\ LeaveCurrency
    /\ fails[currency] < MaxFails
    /\ fails' = [fails EXCEPT ![currency] = @ + 1]
    /\ pending' = {}
    /\ UNCHANGED <<age, priced>>

\* No quote by the deadline, or the INSERT of the aggregate failed.
PollFails ==
    /\ LeaveCurrency
    /\ fails[currency] < MaxFails
    /\ fails' = [fails EXCEPT ![currency] = @ + 1]
    /\ UNCHANGED <<pending, age, priced>>

-----------------------------------------------------------------------------
\* Mutant: half the time.
ShortExpiry == rateExpirySeconds \div 2

rateExpiry == rateExpirySeconds

\* The servers start after the initial poll.
QueryAssetRates(c) ==
    /\ ticking
    /\ c \in priced
    /\ rate = NoRate
    /\ rate' = [currency |-> c, left |-> rateExpiry, polled |-> FALSE]
    /\ UNCHANGED <<loopVars, pollVars, idle, age, fails, priced>>

-----------------------------------------------------------------------------
\* Mutant: a fetch may last for ever.
NoDeadline == ~ \/ ticking /\ untilTick = 0
                \/ pc = "poll"
                \/ pc = "select" /\ tick

\* Nothing is due: the ticker's tick, the deadline, the next step of a
\* goroutine that does not wait.
NothingDue ==
    ~ \/ ticking /\ untilTick = 0
      \/ pc = "poll"
      \/ pc = "fetch" /\ spent = FetchTimeout
      \/ pc = "select" /\ tick

\* One unit of time; a rate it finds at its expiry is valid no more.
Tock ==
    /\ NothingDue
    /\ untilTick' = IF ticking THEN untilTick - 1 ELSE untilTick
    /\ spent' = IF pc = "fetch" THEN spent + 1 ELSE spent
    /\ idle' = [c \in Currencies |-> idle[c] + 1]
    /\ age' = [c \in Currencies |-> age[c] + 1]
    /\ rate' = IF rate = NoRate \/ rate.left = 0 THEN NoRate
               ELSE [rate EXCEPT !.left = @ - 1]
    /\ UNCHANGED <<interval, ticking, tick, pc, pending, currency, fails, priced>>

Next ==
    \/ PollDone \/ TickerFires \/ TakeTick
    \/ \E c \in Currencies : PollCurrency(c) \/ QueryAssetRates(c)
    \/ Published \/ PollFails
    \/ Tock

Spec == Init /\ [][Next]_vars

-----------------------------------------------------------------------------
TimingTypeOK ==
    /\ interval \in Intervals
    /\ ticking \in BOOLEAN
    /\ untilTick \in 0 .. interval
    /\ tick \in BOOLEAN
    /\ pc \in {"poll", "fetch", "select"}
    /\ pending \subseteq Currencies
    /\ currency \in Currencies \cup {NoCurrency}
    /\ pc = "fetch" => currency \in Currencies \ pending
    /\ spent \in 0 .. FetchTimeout
    /\ idle \in [Currencies -> Nat]
    /\ age \in [Currencies -> Nat]
    /\ fails \in [Currencies -> Nat]
    /\ priced \subseteq Currencies
    /\ rate \in Rates \cup {NoRate}

N == Cardinality(Currencies)

\* A poll of all currencies, and of all but one.
All  == N * FetchTimeout
Rest == (N - 1) * FetchTimeout

\* What is left of this poll, at most.
Remaining ==
    Cardinality(pending) * FetchTimeout
        + (IF pc = "fetch" THEN FetchTimeout - spent ELSE 0)

\* Between the starts of two polls lies an interval, or the rest of a poll
\* that outlasts it.
Between == IF Rest <= interval THEN interval ELSE Rest

\* A currency may be the first of one poll and the last of the next.
Refresh == Between + All

\* The ticker starts when the initial poll is over.
LongestGap == interval + Rest + All

\* This poll will still return to c.
Due(c) == c \in pending \/ c = currency

(***************************************************************************)
(* The strengthening of the two properties below.  A currency that this    *)
(* poll will still reach is polled when what remains of it is over; one it *)
(* has been to was polled while the others took their time; and a tick     *)
(* that has not come yet comes an interval after that at most.             *)
(***************************************************************************)
PhasesOK ==
    /\ Remaining <= All
    /\ pc = "select" => ticking /\ pending = {}
    /\ pc # "fetch" => currency = NoCurrency
    /\ ~ticking => untilTick = interval /\ ~tick /\ rate = NoRate

GapOK(c) ==
    /\ Due(c) => idle[c] + Remaining <= LongestGap
    /\ ~Due(c) /\ pc # "select" => idle[c] + Remaining <= Rest
    /\ ~Due(c) /\ ~tick => idle[c] + untilTick <= interval + Rest
    /\ pc = "select" => idle[c] <= interval + Rest

AgeOK(c) == age[c] <= fails[c] * LongestGap + idle[c]

WaitOK(c, elapsed) ==
    /\ Due(c) => elapsed + Remaining <= Refresh
    /\ ~Due(c) /\ pc # "select" => elapsed + Remaining <= Rest
    /\ ~Due(c) /\ ~tick => elapsed + untilTick <= interval
    /\ pc = "select" => elapsed <= Between

TimingInv ==
    /\ TimingTypeOK
    /\ PhasesOK
    /\ \A c \in Currencies : GapOK(c) /\ AgeOK(c)
    /\ rate # NoRate /\ ~rate.polled =>
          WaitOK(rate.currency, rateExpirySeconds - rate.left)

(***************************************************************************)
(* "Set to two minutes to cover the oracle's poll interval plus a buffer"  *)
(* (rpcserver.go:27): a rate does not expire before its currency has been  *)
(* polled again, successfully or not, as long as Refresh fits: with the    *)
(* defaults of a minute and of ten seconds for up to six currencies, and   *)
(* never with a pollinterval of two minutes or more.                       *)
(***************************************************************************)
RatesRefreshed ==
    [][Refresh <= rateExpirySeconds /\ rate # NoRate /\ rate' = NoRate => rate.polled]_vars

(***************************************************************************)
(* A price grows old only by failed polls of its own currency: it is never *)
(* older than LongestGap for each failure since, and one more, however the *)
(* other currencies fail or take their time, and whatever ticks were       *)
(* dropped.  Nothing bounds the failures (rpcserver.go:87-115 quotes the   *)
(* price all the same).                                                    *)
(***************************************************************************)
AgedByFailuresOnly ==
    \A c \in Currencies : age[c] <= (fails[c] + 1) * LongestGap
=============================================================================
