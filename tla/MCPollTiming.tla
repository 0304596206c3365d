---------------------------- MODULE MCPollTiming ----------------------------
(***************************************************************************)
(* An instance of PollTiming for TLC.  A unit of time is twenty seconds:   *)
(* a pollinterval of a minute, that the two minutes of a rate just cover,  *)
(* one shorter than a poll may take and one that is not covered.           *)
(***************************************************************************)
EXTENDS PollTiming, TLC

CONSTANTS usd, eur, gbp

Alike == Permutations(Currencies)
=============================================================================
