-------------------------------- MODULE MCTxGas --------------------------------
(* An instance of TxGas: two sets of fee parameters, the second with a smaller *)
(* block, so that averages can be above its maximum; a message of each kind:   *)
(* a constant amount, an amount for each unit, a type without an amount, and a *)
(* type with an amount that carries a token with an extension.                 *)
EXTENDS TxGas

Parameters(maxBlockGas) ==
    [InitialGasPrice |-> 100, MaxGasPriceMultiplier |-> 300, MaxDiscount |-> 50,
     EscalationStartFraction |-> 80, MaxBlockGas |-> maxBlockGas,
     ShortEmaBlockLength |-> 2, LongEmaBlockLength |-> 4]

MCGenesisParams == Parameters(12)

MCParamUpdates == {Parameters(12), Parameters(5)}

MCMsgTypes == {"MsgFreeze", "MsgSend"}

MCGasTable ==
    [t \in MCMsgTypes |->
        IF t = "MsgFreeze" THEN [base |-> 1, perUnit |-> 0, minUnits |-> 0]
        ELSE [base |-> 0, perUnit |-> 2, minUnits |-> 1]]

MCMessages ==
    {[type |-> "MsgFreeze", units |-> 1, extension |-> FALSE],
     [type |-> "MsgSend", units |-> 2, extension |-> FALSE],
     [type |-> "MsgSend", units |-> 1, extension |-> TRUE],
     [type |-> "MsgExecuteContract", units |-> 1, extension |-> FALSE]}
================================================================================
