-------------------------------- MODULE FeeModel -------------------------------
(***************************************************************************)
(* x/feemodel: the gas that the transactions of a block declare feeds a    *)
(* short and a long moving average, and the averages set the minimum gas   *)
(* price of the next block.  Prices and fractions are decimals with One    *)
(* units to the integer 1 (10^18 in cosmossdk.io/math).                    *)
(***************************************************************************)
EXTENDS Integers

CONSTANTS
    One,              \* precision of decimals
    BlockGasLimit,    \* gas that consensus lets one block declare
    Gas,              \* gas a transaction may declare
    Fees,             \* fees a transaction may offer, in whole coins
    GenesisParams,
    ParamUpdates

ModelParams ==
    [InitialGasPrice : Nat, MaxGasPriceMultiplier : Nat, MaxDiscount : Nat,
     EscalationStartFraction : Nat, MaxBlockGas : Nat,
     ShortEmaBlockLength : Nat, LongEmaBlockLength : Nat]

\* types/params.go validateModelParams
ValidParams(p) ==
    /\ p \in ModelParams
    /\ p.InitialGasPrice > 0
    /\ p.MaxGasPriceMultiplier > One
    /\ 0 < p.MaxDiscount /\ p.MaxDiscount < One
    /\ 0 < p.EscalationStartFraction /\ p.EscalationStartFraction < One
    /\ 0 < p.ShortEmaBlockLength /\ p.ShortEmaBlockLength < p.LongEmaBlockLength
    /\ p.MaxBlockGas > 0

ASSUME FeeModelAssumption ==
    /\ One \in Nat \ {0}
    /\ BlockGasLimit \in Nat
    /\ Gas \subseteq Nat
    /\ Fees \subseteq Nat
    /\ ValidParams(GenesisParams)
    /\ \A p \in ParamUpdates : ValidParams(p)

VARIABLES
    params,
    trackedGas,      \* transient store: gas declared so far in this block
    shortEMA,
    longEMA,
    minGasPrice

feeVars == <<params, trackedGas, shortEMA, longEMA, minGasPrice>>

\* A new chain starts at the initial price.
FeeInit ==
    /\ params = GenesisParams
    /\ trackedGas = 0
    /\ shortEMA = 0
    /\ longEMA = 0
    /\ minGasPrice = GenesisParams.InitialGasPrice

--------------------------------------------------------------------------------
(* Decimals: products and quotients round to the nearest unit, halves to even. *)

Rounded(n, d) ==
    LET q == n \div d
        r == 2 * (n % d)
    IN  IF r > d \/ (r = d /\ q % 2 = 1) THEN q + 1 ELSE q

Mul(x, y) == Rounded(x * y, One)

Quo(x, y) == Rounded(x * One, y)

--------------------------------------------------------------------------------
(* types/model.go *)

CalculateGasPriceWithMaxDiscount(p) == Mul(p.InitialGasPrice, One - p.MaxDiscount)

CalculateMaxGasPrice(p) == Mul(p.InitialGasPrice, p.MaxGasPriceMultiplier)

CalculateEscalationStartBlockGas(p) == (p.MaxBlockGas * p.EscalationStartFraction) \div One

Squared(x) == Mul(x, x)

PriceInEscalationRegion(p, short) ==
    LET low == CalculateGasPriceWithMaxDiscount(p)
        start == CalculateEscalationStartBlockGas(p)
    IN  low + Mul(CalculateMaxGasPrice(p) - low,
                  Squared(Quo((short - start) * One, (p.MaxBlockGas - start) * One)))

\* short is below long here, so the code's Abs is One minus the quotient.
PriceInDiscountRegion(p, short, long) ==
    LET low == CalculateGasPriceWithMaxDiscount(p)
    IN  low + Mul(p.InitialGasPrice - low, Squared(One - Quo(short * One, long * One)))

\* Mutant: the escalation is not cut off at the maximum.
NextGasPriceUncut(p, short, long) ==
    CASE short > CalculateEscalationStartBlockGas(p) -> PriceInEscalationRegion(p, short)
      [] short <= CalculateEscalationStartBlockGas(p) /\ short >= long ->
            CalculateGasPriceWithMaxDiscount(p)
      [] OTHER -> PriceInDiscountRegion(p, short, long)

\* The last case of the code, a long average of zero above the short one, does
\* not exist.
CalculateNextGasPrice(p, short, long) ==
    IF short >= p.MaxBlockGas THEN CalculateMaxGasPrice(p)
    ELSE IF short > CalculateEscalationStartBlockGas(p) THEN PriceInEscalationRegion(p, short)
    ELSE IF short >= long THEN CalculateGasPriceWithMaxDiscount(p)
    ELSE PriceInDiscountRegion(p, short, long)

\* Mutant: the weighted sum is not divided.
EMAUndivided(previous, new, blocks) == (blocks - 1) * previous + new

\* Mutant: the average rounds up.
EMARoundedUp(previous, new, blocks) == ((blocks - 1) * previous + new + blocks - 1) \div blocks

CalculateEMA(previous, new, blocks) == ((blocks - 1) * previous + new) \div blocks

--------------------------------------------------------------------------------
(* Transactions, blocks and governance. *)

\* Mutant: the fee is compared with the price of a unit of gas.
PaysFeeOfOne(gas, fee) == fee * One >= minGasPrice

\* ante/ante.go actOnFeeModelOutput: a fee of zero is no fee.
PaysFee(gas, fee) == fee > 0 /\ fee * One >= gas * minGasPrice

\* ante/ante.go AnteHandle: a transaction that offers the minimum price is
\* admitted and the gas it declares is tracked, whatever it then uses.
AnteHandle(gas, fee) ==
    /\ PaysFee(gas, fee)
    /\ trackedGas + gas <= BlockGasLimit
    /\ trackedGas' = trackedGas + gas
    /\ UNCHANGED <<params, shortEMA, longEMA, minGasPrice>>

\* module.go EndBlock; the transient store is empty in the next block.
EndBlock ==
    /\ shortEMA' = CalculateEMA(shortEMA, trackedGas, params.ShortEmaBlockLength)
    /\ longEMA' = CalculateEMA(longEMA, trackedGas, params.LongEmaBlockLength)
    /\ minGasPrice' = CalculateNextGasPrice(params, shortEMA', longEMA')
    /\ trackedGas' = 0
    /\ UNCHANGED params

\* keeper.go UpdateParams: the price changes at the end of the block only.
UpdateParams(p) ==
    /\ params' = p
    /\ UNCHANGED <<trackedGas, shortEMA, longEMA, minGasPrice>>

FeeNext ==
    \/ \E gas \in Gas, fee \in Fees : AnteHandle(gas, fee)
    \/ EndBlock
    \/ \E p \in ParamUpdates : UpdateParams(p)

\* Every block that starts also ends.
FeeSpec == FeeInit /\ [][FeeNext]_feeVars /\ WF_feeVars(EndBlock)

--------------------------------------------------------------------------------
(* Properties. *)

\* The averages and the price are natural numbers, and neither average exceeds
\* what a block may declare, so that the products of the moving average stay
\* far below 2^64 and the averages fit an int64.
FeeTypeOK ==
    /\ ValidParams(params)
    /\ trackedGas \in 0..BlockGasLimit
    /\ shortEMA \in 0..BlockGasLimit
    /\ longEMA \in 0..BlockGasLimit
    /\ minGasPrice \in Nat

\* x/feemodel/spec/README.md: the price that a block sets is between the price
\* with the maximum discount and the maximum price, for every load, also when
\* governance moves the regions of the curve under the averages.
PriceIsWithinTheCurve ==
    [][minGasPrice' # minGasPrice =>
        /\ CalculateGasPriceWithMaxDiscount(params) <= minGasPrice'
        /\ minGasPrice' <= CalculateMaxGasPrice(params)]_feeVars

\* When transactions stop, rounding down does not leave the averages stuck: they
\* reach zero and the price comes to rest with the maximum discount.
IdlePriceSettles ==
    <>[][trackedGas' <= trackedGas /\ params' = params]_feeVars
        => <>[](shortEMA = 0 /\ longEMA = 0
                    /\ minGasPrice = CalculateGasPriceWithMaxDiscount(params))
================================================================================
