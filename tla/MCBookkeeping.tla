---------------------------- MODULE MCBookkeeping ----------------------------
(* Constants of Bookkeeping for TLC: a configuration file has no negative   *)
(* numbers, and a price below zero is where "none yet" must not be zero.    *)
EXTENDS Bookkeeping

CentPrices == {-2, 3}
Deltas     == {-1, 2}
==============================================================================
