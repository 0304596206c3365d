----------------------------- MODULE MCServers -----------------------------
(***************************************************************************)
(* An instance of Servers for TLC.                                         *)
(***************************************************************************)
EXTENDS Servers, TLC

CONSTANTS usd, eur, kraken, coinbase

MCUpdates == [Currency : Currencies, Price : [Value : Uint64, MinuteTS : Minutes]]

Plain(name) == Written(name, FALSE)

\* Kraken is listed with usd twice, in two spellings and with a comma too many.
MCServes ==
    buildFeeds([e \in Exchanges |->
        IF e = kraken THEN <<Written(usd, FALSE), Written(NoName, FALSE), Written(usd, TRUE)>>
        ELSE <<Plain(eur)>>])

(***************************************************************************)
(* The first section has an asset twice, in two spellings, a second asset  *)
(* of the same currency, a group key of zeros and an asset of another      *)
(* currency; the second has a line that does not parse, and the third the  *)
(* first asset alone, with another markup.                                 *)
(***************************************************************************)
MCAssetSections ==
    {<<AssetLine(3, Plain("a1"), Plain(usd), 0, 0),
       AssetLine(4, Written("a1", TRUE), Written(usd, TRUE), 5, 1),
       AssetLine(3, Plain("00"), Plain(usd), 7, 0),
       AssetLine(3, Plain("b2"), Plain(eur), 0, 0)>>,
     <<AssetLine(3, Plain("a1"), Plain(usd), 9, 0),
       AssetLine(2, Plain("00"), Plain(usd), -1, 0)>>,
     <<AssetLine(3, Plain("a1"), Plain(usd), 2, 0)>>}

\* Four by tassandra-cli, the last of which it refuses; three by other clients.
MCRateRequests ==
    getrate(Plain("a1"), Plain(NoName), "sale")
    \cup getrate(Plain("a1"), Plain("b2"), "purchase")
    \cup getrate(Written("a1", TRUE), Written("a1", TRUE), "")
    \cup getrate(Plain("b2"), Plain("00"), "sell")
    \cup {[subject |-> Specifier("AssetId", Plain("a1")),
           payment |-> Specifier("GroupKey", Plain("00"))],
          [subject |-> Specifier("GroupKeyStr", Plain("c3")), payment |-> NilSpecifier],
          [subject |-> Specifier("unset", Plain(NoName)), payment |-> NilSpecifier]}

MCHttpRequests ==
    getprice(Plain(usd), 0, NoExchange)
    \cup getprice(Written(usd, TRUE), 3, NoExchange)
    \cup getprice(Plain(usd), 3, kraken)
    \cup getprice(Plain(usd), 0, kraken)
    \cup {HttpRequest(Plain(usd), NoDate, coinbase),
          HttpRequest(Plain(eur), NotADate, NoExchange)}

\* The last reply is looked at in the step that makes it only.
WithoutReply == <<vars, assets, call, told>>
=============================================================================
