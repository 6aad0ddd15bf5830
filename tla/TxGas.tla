--------------------------------- MODULE TxGas ---------------------------------
(***************************************************************************)
(* What a transaction pays and what it may use: the ante decorators of     *)
(* x/auth/ante and x/deterministicgas/ante, and the message server of      *)
(* x/deterministicgas/types, which charges a fixed amount for the          *)
(* deterministic messages and runs their handlers on a meter of their own. *)
(* The fee decorator and the blocks are those of FeeModel.                 *)
(*                                                                         *)
(* The chain of decorators is one step: what fails in it writes nothing.   *)
(* A message that fails takes the effects of its transaction with it, and  *)
(* leaves the fee and the tracked gas.                                     *)
(***************************************************************************)
EXTENDS FeeModel, Sequences, SeqSum

CONSTANTS
    FixedGas,           \* charged to every transaction
    TxBaseGas,          \* free gas for the size and the signatures
    EnvelopeGas,        \* what the size and the signatures may cost
    FuseGasMultiplier,
    MsgTypes,           \* types that GasRequiredByMessage knows an amount for
    GasTable,           \* the amount, for each of them
    Messages,           \* messages that may be sent
    RealGas,            \* gas a handler may use
    MaxMessages

\* A message has a type, a number of units (coins, operations, denoms or bytes of
\* data, whatever its gas depends on) and may carry, or issue, a token with an
\* extension.
ASSUME TxGasAssumption ==
    /\ FixedGas \in Nat /\ TxBaseGas \in Nat /\ EnvelopeGas \subseteq Nat
    /\ FuseGasMultiplier \in Nat
    /\ GasTable \in [MsgTypes -> [base : Nat, perUnit : Nat, minUnits : Nat]]
    /\ Messages \subseteq [type : STRING, units : Nat, extension : BOOLEAN]
    /\ RealGas \subseteq Nat /\ MaxMessages \in Nat

VARIABLES
    tx,         \* the transaction being delivered
    blockFees   \* fees deducted in this block

gasVars == <<feeVars, tx, blockFees>>

\* next is the message to run, used what the meter of the transaction shows.
NoTx == [stage |-> "none", gas |-> 0, envelope |-> 0, msgs |-> <<>>, next |-> 1, used |-> 0]

GasInit == FeeInit /\ tx = NoTx /\ blockFees = 0

--------------------------------------------------------------------------------
(* Ante decorators. *)

\* ChargeFixedGasDecorator: what goes beyond the bonus is charged.
OverBonus(envelope) == IF envelope > TxBaseGas THEN envelope - TxBaseGas ELSE 0

\* ChargeFixedGasDecorator: the meter that the messages get.
GasAfterAnte(envelope) == FixedGas + OverBonus(envelope)

\* SetInfiniteGasMeterDecorator, AddBaseGasDecorator, ChargeFixedGasDecorator: the
\* transaction has gas for the fixed amount, for the size and the signatures on
\* top of the bonus, and for both together.
MetersHold(gas, envelope) ==
    /\ FixedGas <= gas
    /\ envelope <= gas + TxBaseGas
    /\ GasAfterAnte(envelope) <= gas

\* x/auth/ante/ante.go: the decorators in their order; DeductFee takes the fee
\* that FeeDecorator compared with the declared gas.
AnteChain(gas, fee, envelope, msgs) ==
    /\ tx = NoTx
    /\ MetersHold(gas, envelope)
    /\ AnteHandle(gas, fee)
    /\ blockFees' = blockFees + fee
    /\ tx' = [NoTx EXCEPT !.stage = "running", !.gas = gas, !.envelope = envelope,
                          !.msgs = msgs, !.used = GasAfterAnte(envelope)]

--------------------------------------------------------------------------------
(* Messages. *)

\* config.go: every amount is a constant, or a constant and an amount for each
\* unit of the message, of which a transfer has at least one or two.
GasRequiredByMessage(msg) ==
    LET row == GasTable[msg.type]
        units == IF msg.units < row.minUnits THEN row.minUnits ELSE msg.units
    IN  row.base + row.perUnit * units

\* ctxForDeterministicGas: a message that may call an extension is not
\* deterministic, whatever its type.
IsDeterministic(msg) == msg.type \in MsgTypes /\ ~msg.extension

\* Mutant: the handler of a deterministic message runs on the meter of the
\* transaction.
ChargedOnTheTx(msg, real) ==
    IF IsDeterministic(msg) THEN GasRequiredByMessage(msg) + real ELSE real

\* ctxForDeterministicGas: gas that a message takes from the meter of the
\* transaction.
Charged(msg, real) == IF IsDeterministic(msg) THEN GasRequiredByMessage(msg) ELSE real

\* The meter that a deterministic handler gets.
BlowsFuse(msg, real) ==
    IsDeterministic(msg) /\ real > FuseGasMultiplier * GasRequiredByMessage(msg)

Sent == tx.msgs[tx.next]

\* RegisterService: the wrapped handler of the next message.
RunMessage(real) ==
    LET used == tx.used + Charged(Sent, real)
        outOfGas == used > tx.gas \/ BlowsFuse(Sent, real)
        last == tx.next = Len(tx.msgs)
    IN  /\ tx.stage = "running"
        /\ tx' = [tx EXCEPT !.used = used, !.next = @ + 1,
                            !.stage = IF outOfGas THEN "failed" ELSE IF last THEN "done" ELSE @]
        /\ UNCHANGED <<feeVars, blockFees>>

\* A handler may also refuse the message; the gas stays charged.
RefuseMessage(real) ==
    /\ tx.stage = "running"
    /\ tx' = [tx EXCEPT !.stage = "failed", !.used = @ + Charged(Sent, real)]
    /\ UNCHANGED <<feeVars, blockFees>>

\* The application writes, or discards, what the messages did; the gas that was
\* not used is not given back.
FinishTx ==
    /\ tx.stage \in {"done", "failed"}
    /\ tx' = NoTx
    /\ UNCHANGED <<feeVars, blockFees>>

EndGasBlock ==
    /\ tx = NoTx
    /\ EndBlock
    /\ blockFees' = 0
    /\ UNCHANGED tx

UpdateGasParams(p) == tx = NoTx /\ UpdateParams(p) /\ UNCHANGED <<tx, blockFees>>

GasNext ==
    \/ \E gas \in Gas, fee \in Fees, envelope \in EnvelopeGas,
          msgs \in UNION {[1..n -> Messages] : n \in 1..MaxMessages} :
            AnteChain(gas, fee, envelope, msgs)
    \/ \E real \in RealGas : RunMessage(real) \/ RefuseMessage(real)
    \/ FinishTx
    \/ EndGasBlock
    \/ \E p \in ParamUpdates : UpdateGasParams(p)

\* Every message returns, every transaction is delivered to its end and every
\* block that starts also ends.
GasSpec ==
    /\ GasInit /\ [][GasNext]_gasVars
    /\ WF_gasVars(\E real \in RealGas : RunMessage(real))
    /\ WF_gasVars(FinishTx)
    /\ WF_gasVars(EndGasBlock)

--------------------------------------------------------------------------------
(* Properties. *)

MessageGas(t) == [i \in 1..Len(t.msgs) |-> GasRequiredByMessage(t.msgs[i])]

\* The gas that the sender can compute before sending: the fixed amount, the
\* excess of the envelope, and the amounts of the messages.
Forecast(t) == GasAfterAnte(t.envelope) + SumTo(MessageGas(t), Len(t.msgs))

AllDeterministic(t) == \A i \in 1..Len(t.msgs) : IsDeterministic(t.msgs[i])

\* x/deterministicgas/spec: a transaction of deterministic messages uses the gas
\* that can be told in advance, whatever its handlers really use.  It succeeds
\* with exactly that gas and never fails for lack of gas when it declared that
\* much, unless a handler exceeds its own meter.
GasIsForeseen ==
    AllDeterministic(tx) =>
        /\ tx.stage = "done" => tx.used = Forecast(tx)
        /\ tx.used > tx.gas => Forecast(tx) > tx.gas

\* A block that a validator may propose has been paid for: the fees deducted in
\* it, from transactions that succeed and that fail, cover the gas tracked for
\* the fee model at the price of the block.
FeesCoverTrackedGas == blockFees * One >= trackedGas * minGasPrice
================================================================================
