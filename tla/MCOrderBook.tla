---------------------------- MODULE MCOrderBook ----------------------------
(* Every side with at most four orders, at prices whose num parts have one   *)
(* and two digits and whose exponents reach both ends of the range.          *)
EXTENDS OrderBook

LowestExp == -2
=============================================================================
