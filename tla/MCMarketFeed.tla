---------------------------- MODULE MCMarketFeed ----------------------------
(* MarketFeed for TLC: two markets.                                        *)
EXTENDS MarketFeed
CONSTANTS m1, m2
=============================================================================
