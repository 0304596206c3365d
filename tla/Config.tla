------------------------------- MODULE Config -------------------------------
(***************************************************************************)
(* tassandra/config.go and buildFeeds of tassandra/main.go: the [Asset]    *)
(* and [Exchange] sections of tassandra.conf, and the table NewRpcServer   *)
(* makes of the former.                                                    *)
(*                                                                         *)
(* A name as the operator wrote it has a spelling, plain or in the other   *)
(* case; trimming and folding leave the name.  A number field that is not  *)
(* a decimal number is written -1.                                         *)
(***************************************************************************)
EXTENDS PriceArith, SequencesExt

Written(name, otherCase) == [name |-> name, otherCase |-> otherCase]

\* strings.ToLower of an ID, strings.ToUpper of a currency.
Folded(text) == text.name

NoName == ""

-----------------------------------------------------------------------------
\* The line "<hex-asset-id>:<currency>:<markup-ppm>[:<decimal-display>]"
AssetLine(parts, id, currency, markup, decimals) ==
    [parts |-> parts, id |-> id, currency |-> currency, markup |-> markup,
     decimals |-> decimals]

\* Where parseAssetString returns no error.
ParsesAsAsset(line) ==
    /\ line.parts >= 3
    /\ Folded(line.id) # NoName
    /\ Folded(line.currency) # NoName
    /\ line.markup \in Uint
    /\ line.parts = 4 => line.decimals \in 0..255

parseAssetString(line) ==
    [AssetID        |-> Folded(line.id),
     Currency       |-> Folded(line.currency),
     MarkupPPM      |-> line.markup,
     DecimalDisplay |-> IF line.parts = 4 THEN line.decimals ELSE 0]

\* assetConfigs fails on the first line that does not parse.
AssetsAccepted(lines) == \A i \in DOMAIN lines : ParsesAsAsset(lines[i])

assetConfigs(lines) == [i \in DOMAIN lines |-> parseAssetString(lines[i])]

\* Mutant: the first entry of an ID is kept.
FirstEntryWins(cfgs) ==
    [id \in {cfgs[i].AssetID : i \in DOMAIN cfgs} |->
        cfgs[Min({i \in DOMAIN cfgs : cfgs[i].AssetID = id})]]

\* Of duplicate IDs the last entry wins.
NewRpcServer(cfgs) ==
    [id \in {cfgs[i].AssetID : i \in DOMAIN cfgs} |->
        cfgs[Max({i \in DOMAIN cfgs : cfgs[i].AssetID = id})]]

-----------------------------------------------------------------------------
\* Empty entries are skipped, the same currency twice is one.
parseCurrencies(list) == {Folded(list[i]) : i \in DOMAIN list} \ {NoName}

\* An exchange without currencies serves none and is never asked.
buildFeeds(exchange) == [e \in DOMAIN exchange |-> parseCurrencies(exchange[e])]
=============================================================================
