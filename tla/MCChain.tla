------------------------------ MODULE MCChain ------------------------------
(* Blocks: good-til cancellation by height and by time, cancellation by the  *)
(* token admin, changing parameters, the upgrade of a token, export and      *)
(* import. usd is an old token of alice.                                     *)
EXTENDS Chain, MCDEX

BlockDefinitions == (core :> NoDefinition) @@ (usd :> MCToken({"dex_order_cancellation"}))

BlockVersions == [d \in MCDenoms |-> 0]

BlockRanks == (core :> 1) @@ (usd :> 2)

BlockBalances == Holding(4)

Until(o, height, time) == [o EXCEPT !.goodTil = [height |-> height, time |-> time]]

BlockOrders ==
    {Until(Limit(core, usd, "sell", 2, 1, 1, "GTC"), 2, 0),
     Until(Limit(core, usd, "sell", 1, 2, 1, "GTC"), 3, 4),
     Until(Limit(core, usd, "buy", 1, 1, 1, "GTC"), 0, 5),
     Until(Limit(usd, core, "buy", 2, 1, 2, "GTC"), 0, 4)}

BlockParams == Reserving(1)

BlockParamUpdates == {Reserving(0)}
=============================================================================
