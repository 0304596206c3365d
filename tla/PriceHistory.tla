---------------------------- MODULE PriceHistory ----------------------------
(***************************************************************************)
(* What the oracle and its store promise those who read prices, without    *)
(* polls, feeds or failures.  There is a history of one price per currency *)
(* and minute, and a board with one current price per currency.  The       *)
(* newest entry of a currency may be revised while its minute lasts; an    *)
(* older one never is.  The board only ever shows the newest entry of the  *)
(* history, and is wiped when the process goes away; the history is not.   *)
(***************************************************************************)
EXTENDS Integers

CONSTANTS Currencies, Minutes, Prices

VARIABLES history, board

historyVars == <<history, board>>

NoEntries == [k \in {} |-> 0]

\* f with the entry of k set to v.
With(f, k, v) == [j \in DOMAIN f \cup {k} |-> IF j = k THEN v ELSE f[j]]

\* Minute m is the newest at which the history has a price for currency c.
IsNewestAt(c, m) ==
    /\ <<c, m>> \in DOMAIN history
    /\ \A k \in DOMAIN history : k[1] = c => k[2] <= m

Init == history = NoEntries /\ board = NoEntries

\* A price for a minute no earlier than any the currency has.
Record(c, m, v) ==
    /\ \A k \in DOMAIN history : k[1] = c => k[2] <= m
    /\ history' = With(history, <<c, m>>, v)
    /\ UNCHANGED board

\* The board catches up with the history.
Announce(c, m) ==
    /\ IsNewestAt(c, m)
    /\ board' = With(board, c, [Value |-> history[<<c, m>>], MinuteTS |-> m])
    /\ UNCHANGED history

Wipe == board' = NoEntries /\ UNCHANGED history

Next ==
    \/ \E c \in Currencies, m \in Minutes :
          Announce(c, m) \/ \E v \in Prices : Record(c, m, v)
    \/ Wipe

Spec == Init /\ [][Next]_historyVars
=============================================================================
