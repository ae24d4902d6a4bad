--------------------------- MODULE MCPriceAnalyzer ---------------------------
(* Constants of SessionPrice for TLC: a configuration file has no negative  *)
(* numbers, and prices below zero are where the break-even test is delicate.*)
EXTENDS SessionPrice

CentPrices == {-10, 0, 10, 12}
==============================================================================
