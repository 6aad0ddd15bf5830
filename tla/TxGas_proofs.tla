------------------------------ MODULE TxGas_proofs ------------------------------
(***************************************************************************)
(* The fee model and the gas of transactions for every choice of           *)
(* parameters: the bounds of the averages, the bounds of the price curve,  *)
(* the fees of a block, and the gas of deterministic transactions.         *)
(***************************************************************************)
EXTENDS TxGas, SeqSum_proofs, SequenceTheorems

--------------------------------------------------------------------------------
(* Arithmetic of products, quotients and rounding. *)

\* Products of natural numbers grow with their factors.
LEMMA ProductGrows ==
  ASSUME NEW a \in Nat, NEW b \in Nat, NEW c \in Nat, a <= b
  PROVE  a * c <= b * c /\ c * a <= c * b /\ a * c \in Nat
<1>1. (b - a) * c \in Nat
  <2>1. b - a \in Nat
    OBVIOUS
  <2> DEFINE k == b - a
  <2>2. \A m \in Nat : m * c \in Nat
    OBVIOUS
  <2> QED BY <2>1, <2>2
<1>2. b * c = a * c + (b - a) * c
  OBVIOUS
<1>3. c * a = a * c /\ c * b = b * c /\ a * c \in Nat
  OBVIOUS
<1> QED BY <1>1, <1>2, <1>3

\* Division leaves a remainder.
LEMMA Division ==
  ASSUME NEW n \in Nat, NEW d \in Nat \ {0}
  PROVE  /\ n \div d \in Nat /\ n % d \in Nat /\ n % d < d
         /\ n % d = n - d * (n \div d)
<1>1. n \div d \in Int /\ n % d \in Nat /\ n % d < d
  OBVIOUS
<1>2. n % d = n - d * (n \div d)
  BY SMTT(30)
<1>3. n \div d \in Nat
  <2> DEFINE q == n \div d
             r == n % d
  <2>1. q \in Int /\ r \in Nat /\ r < d /\ r = n - d * q
    BY <1>1, <1>2
  <2> HIDE DEF q, r
  <2>2. ASSUME q < 0 PROVE FALSE
    <3>1. -q \in Nat /\ 1 <= -q
      BY <2>1, <2>2
    <3>2. 1 * d <= (-q) * d
      BY <3>1, ProductGrows
    <3>3. (-q) * d = -(d * q)
      BY <2>1
    <3> QED BY <2>1, <3>2, <3>3
  <2>3. q \in Nat
    BY <2>1, <2>2
  <2> QED BY <2>3 DEF q
<1> QED BY <1>1, <1>2, <1>3

\* Quotients are bounded by what bounds the dividend.
LEMMA QuotientBounds ==
  ASSUME NEW n \in Nat, NEW d \in Nat \ {0}, NEW k \in Nat
  PROVE  /\ n <= k * d => n \div d <= k /\ (n \div d = k => n % d = 0)
         /\ k * d <= n => k <= n \div d
<1> DEFINE q == n \div d
           r == n % d
<1>1. q \in Nat /\ r \in Nat /\ r < d /\ r = n - d * q
  BY Division
<1> HIDE DEF q, r
<1>2. q * d = d * q /\ q * d \in Nat /\ k * d \in Nat /\ n = q * d + r
  BY <1>1
<1>3. ASSUME n <= k * d PROVE q <= k /\ (q = k => r = 0)
  <2>1. ASSUME k + 1 <= q PROVE FALSE
    <3>1. (k + 1) * d <= q * d
      BY <1>1, <2>1, ProductGrows
    <3>2. (k + 1) * d = k * d + d
      OBVIOUS
    <3> QED BY <1>1, <1>2, <1>3, <3>1, <3>2
  <2>2. q = k => r = 0
    BY <1>1, <1>2, <1>3
  <2> QED BY <1>1, <2>1, <2>2
<1>4. ASSUME k * d <= n PROVE k <= q
  <2>1. ASSUME q + 1 <= k PROVE FALSE
    <3>1. (q + 1) * d <= k * d
      BY <1>1, <2>1, ProductGrows
    <3>2. (q + 1) * d = q * d + d
      BY <1>1
    <3> QED BY <1>1, <1>2, <1>4, <3>1, <3>2
  <2> QED BY <1>1, <2>1
<1> QED BY <1>3, <1>4 DEF q, r

\* So are rounded quotients.
LEMMA RoundedBounds ==
  ASSUME NEW n \in Nat, NEW d \in Nat \ {0}, NEW k \in Nat
  PROVE  /\ Rounded(n, d) \in Nat
         /\ n <= k * d => Rounded(n, d) <= k
         /\ k * d <= n => k <= Rounded(n, d)
<1> DEFINE q == n \div d
           r == n % d
<1>1. q \in Nat /\ r \in Nat /\ r < d
  BY Division
<1>2. /\ n <= k * d => q <= k /\ (q = k => r = 0)
      /\ k * d <= n => k <= q
  BY QuotientBounds
<1>3. Rounded(n, d) = IF 2 * r > d \/ (2 * r = d /\ q % 2 = 1) THEN q + 1 ELSE q
  BY DEF Rounded
<1> HIDE DEF q, r
<1>4. r = 0 => Rounded(n, d) = q
  BY <1>1, <1>3
<1>5. Rounded(n, d) \in {q, q + 1}
  BY <1>3
<1> QED BY <1>1, <1>2, <1>4, <1>5

\* A product with a fraction, and with a multiplier.
LEMMA MulBounds ==
  ASSUME NEW x \in Nat, NEW y \in Nat
  PROVE  /\ Mul(x, y) \in Nat
         /\ y <= One => Mul(x, y) <= x
         /\ One <= y => x <= Mul(x, y)
<1>1. One \in Nat \ {0}
  BY FeeModelAssumption
<1>2. x * y \in Nat
  OBVIOUS
<1>3. y <= One => x * y <= x * One
  BY <1>1, ProductGrows
<1>4. One <= y => x * One <= x * y
  BY <1>1, ProductGrows
<1> QED BY <1>1, <1>2, <1>3, <1>4, RoundedBounds DEF Mul

\* A fraction of two amounts, and its square.
LEMMA FractionBounds ==
  ASSUME NEW a \in Nat, NEW b \in Nat \ {0}, a <= b
  PROVE  LET f == Quo(a * One, b * One)
         IN  /\ f \in Nat /\ f <= One
             /\ Squared(f) \in Nat /\ Squared(f) <= One
             /\ Squared(One - f) \in Nat /\ Squared(One - f) <= One
<1> DEFINE f == Quo(a * One, b * One)
<1>1. One \in Nat \ {0}
  BY FeeModelAssumption
<1>2. a * One \in Nat /\ b * One \in Nat /\ b * One # 0 /\ a * One <= b * One
  BY <1>1, ProductGrows
<1>3. (a * One) * One \in Nat /\ (a * One) * One <= One * (b * One)
  <2> DEFINE u == a * One
             v == b * One
  <2>1. u \in Nat /\ v \in Nat /\ u <= v
    BY <1>2
  <2> HIDE DEF u, v
  <2>2. u * One <= v * One /\ u * One \in Nat /\ v * One = One * v
    BY <1>1, <2>1, ProductGrows
  <2> QED BY <2>2 DEF u, v
<1>4. f \in Nat /\ f <= One
  BY <1>1, <1>2, <1>3, RoundedBounds DEF Quo
<1> HIDE DEF f
<1>5. \A g \in Nat : g <= One => Squared(g) \in Nat /\ Squared(g) <= One
  BY <1>1, MulBounds DEF Squared
<1>6. One - f \in Nat /\ One - f <= One
  BY <1>1, <1>4
<1> QED BY <1>4, <1>5, <1>6 DEF f

--------------------------------------------------------------------------------
(* The price curve and the moving average. *)

\* An average of amounts within a limit is within the limit.
LEMMA AverageIsBounded ==
  ASSUME NEW previous \in 0..BlockGasLimit, NEW new \in 0..BlockGasLimit,
         NEW blocks \in Nat \ {0}
  PROVE  CalculateEMA(previous, new, blocks) \in 0..BlockGasLimit
<1> DEFINE L == BlockGasLimit
           sum == (blocks - 1) * previous + new
<1>1. L \in Nat /\ previous \in Nat /\ new \in Nat /\ blocks - 1 \in Nat
  BY FeeModelAssumption
<1>2. (blocks - 1) * previous \in Nat /\ (blocks - 1) * previous <= (blocks - 1) * L
  BY <1>1, ProductGrows
<1>3. (blocks - 1) * L + L = L * blocks /\ (blocks - 1) * L \in Nat
  BY <1>1
<1>4. sum \in Nat /\ sum <= L * blocks
  BY <1>1, <1>2, <1>3
<1> HIDE DEF sum
<1>5. sum \div blocks \in Nat /\ sum \div blocks <= L
  BY <1>1, <1>4, Division, QuotientBounds
<1>6. CalculateEMA(previous, new, blocks) = sum \div blocks
  BY DEF CalculateEMA, sum
<1> QED BY <1>1, <1>5, <1>6

\* Every point of the curve is between the price with the maximum discount and the
\* maximum price, in each of its four regions.
LEMMA CurveIsBounded ==
  ASSUME NEW p, ValidParams(p), NEW short \in Nat, NEW long \in Nat
  PROVE  /\ CalculateNextGasPrice(p, short, long) \in Nat
         /\ CalculateGasPriceWithMaxDiscount(p) <= CalculateNextGasPrice(p, short, long)
         /\ CalculateNextGasPrice(p, short, long) <= CalculateMaxGasPrice(p)
<1> DEFINE low == CalculateGasPriceWithMaxDiscount(p)
           high == CalculateMaxGasPrice(p)
           start == CalculateEscalationStartBlockGas(p)
           initial == p.InitialGasPrice
           full == p.MaxBlockGas
<1>0. /\ One \in Nat \ {0}
      /\ initial \in Nat /\ full \in Nat /\ p.EscalationStartFraction \in Nat
      /\ p.MaxDiscount \in Nat /\ p.MaxDiscount < One
      /\ p.MaxGasPriceMultiplier \in Nat /\ One < p.MaxGasPriceMultiplier
  BY FeeModelAssumption DEF ValidParams, ModelParams
<1>1. low \in Nat /\ low <= initial
  <2> DEFINE kept == One - p.MaxDiscount
  <2>1. kept \in Nat /\ kept <= One
    BY <1>0
  <2>2. low = Mul(initial, kept)
    BY DEF CalculateGasPriceWithMaxDiscount
  <2> HIDE DEF low, kept, initial
  <2> QED BY <1>0, <2>1, <2>2, MulBounds
<1>2. high \in Nat /\ initial <= high
  <2>1. high = Mul(initial, p.MaxGasPriceMultiplier)
    BY DEF CalculateMaxGasPrice
  <2>2. One <= p.MaxGasPriceMultiplier
    BY <1>0
  <2> HIDE DEF high, initial
  <2> QED BY <1>0, <2>1, <2>2, MulBounds
<1>3. start \in Nat
  <2>1. full * p.EscalationStartFraction \in Nat
    BY <1>0
  <2> QED BY <1>0, <2>1, Division DEF CalculateEscalationStartBlockGas
<1>4. CASE short >= full
  <2>1. CalculateNextGasPrice(p, short, long) = high
    BY <1>4 DEF CalculateNextGasPrice
  <2> HIDE DEF low, high, initial
  <2>2. high \in Nat /\ low <= high
    BY <1>0, <1>1, <1>2
  <2> QED BY <2>1, <2>2 DEF low, high
<1>5. CASE ~ (short >= full) /\ short > start
  <2> DEFINE square == Squared(Quo((short - start) * One, (full - start) * One))
  <2>1. short - start \in Nat /\ full - start \in Nat \ {0} /\ short - start <= full - start
    BY <1>0, <1>3, <1>5
  <2>2. square \in Nat /\ square <= One
    BY <2>1, FractionBounds
  <2> HIDE DEF square, low, high, start, initial
  <2>3. high - low \in Nat
    BY <1>0, <1>1, <1>2
  <2>4. Mul(high - low, square) \in Nat /\ Mul(high - low, square) <= high - low
    BY <2>2, <2>3, MulBounds
  <2>5. PriceInEscalationRegion(p, short) = low + Mul(high - low, square)
    BY DEF PriceInEscalationRegion, square, low, high, start
  <2>6. CalculateNextGasPrice(p, short, long) = PriceInEscalationRegion(p, short)
    BY <1>5 DEF CalculateNextGasPrice, start
  <2>7. /\ PriceInEscalationRegion(p, short) \in Nat
        /\ low <= PriceInEscalationRegion(p, short)
        /\ PriceInEscalationRegion(p, short) <= high
    BY <1>1, <1>2, <2>4, <2>5
  <2> QED BY <2>6, <2>7 DEF low, high
<1>6. CASE ~ (short >= full) /\ ~ (short > start) /\ short >= long
  <2>1. CalculateNextGasPrice(p, short, long) = low
    BY <1>6 DEF CalculateNextGasPrice
  <2> HIDE DEF low, high, initial
  <2>2. low \in Nat /\ low <= high
    BY <1>0, <1>1, <1>2
  <2> QED BY <2>1, <2>2 DEF low, high
<1>7. CASE ~ (short >= full) /\ ~ (short > start) /\ ~ (short >= long)
  <2> DEFINE square == Squared(One - Quo(short * One, long * One))
  <2>1. long \in Nat \ {0} /\ short <= long
    BY <1>7
  <2>2. square \in Nat /\ square <= One
    BY <2>1, FractionBounds
  <2>3. initial - low \in Nat
    BY <1>0, <1>1
  <2> HIDE DEF square, low, high, start, initial
  <2>4. Mul(initial - low, square) \in Nat /\ Mul(initial - low, square) <= initial - low
    BY <2>2, <2>3, MulBounds
  <2>5. PriceInDiscountRegion(p, short, long) = low + Mul(initial - low, square)
    BY DEF PriceInDiscountRegion, square, low, initial
  <2>6. CalculateNextGasPrice(p, short, long) = PriceInDiscountRegion(p, short, long)
    BY <1>7 DEF CalculateNextGasPrice, start
  <2>7. /\ PriceInDiscountRegion(p, short, long) \in Nat
        /\ low <= PriceInDiscountRegion(p, short, long)
        /\ PriceInDiscountRegion(p, short, long) <= high
    BY <1>0, <1>1, <1>2, <2>4, <2>5 DEF initial
  <2> QED BY <2>6, <2>7 DEF low, high
<1> QED BY <1>4, <1>5, <1>6, <1>7

\* The end of a block keeps the averages within the limit and puts the price on the curve.
LEMMA EndBlockKeepsTypes ==
  ASSUME FeeTypeOK, EndBlock
  PROVE  /\ FeeTypeOK'
         /\ CalculateGasPriceWithMaxDiscount(params) <= minGasPrice'
         /\ minGasPrice' <= CalculateMaxGasPrice(params)
<1>1. params.ShortEmaBlockLength \in Nat \ {0} /\ params.LongEmaBlockLength \in Nat \ {0}
  BY DEF FeeTypeOK, ValidParams, ModelParams
<1>2. shortEMA' \in 0..BlockGasLimit /\ longEMA' \in 0..BlockGasLimit
  BY <1>1, AverageIsBounded DEF EndBlock, FeeTypeOK
<1>3. shortEMA' \in Nat /\ longEMA' \in Nat /\ BlockGasLimit \in Nat
  BY <1>2, FeeModelAssumption
<1>4. minGasPrice' = CalculateNextGasPrice(params, shortEMA', longEMA')
  BY DEF EndBlock
<1>5. ValidParams(params)
  BY DEF FeeTypeOK
<1>6. /\ minGasPrice' \in Nat
      /\ CalculateGasPriceWithMaxDiscount(params) <= minGasPrice'
      /\ minGasPrice' <= CalculateMaxGasPrice(params)
  BY <1>3, <1>4, <1>5, CurveIsBounded
<1>7. UNCHANGED params /\ trackedGas' \in 0..BlockGasLimit
  BY <1>3 DEF EndBlock
<1>8. FeeTypeOK'
  BY <1>2, <1>5, <1>6, <1>7 DEF FeeTypeOK, ValidParams
<1> QED BY <1>6, <1>8

--------------------------------------------------------------------------------
(* The gas of transactions. *)

Transactions ==
    [stage : {"none", "running", "done", "failed"}, gas : Nat, envelope : Nat,
     msgs : Seq(Messages), next : Nat \ {0}, used : Nat]

\* What a transaction has used, stage by stage: while it runs, the amounts of the messages
\* before the next one.
MeterInv ==
    /\ tx \in Transactions
    /\ tx.stage = "running" => tx.next \in 1..Len(tx.msgs)
    /\ tx.stage = "none" => tx = NoTx
    /\ AllDeterministic(tx) =>
          /\ tx.stage = "running" =>
                 tx.used = GasAfterAnte(tx.envelope) + SumTo(MessageGas(tx), tx.next - 1)
          /\ tx.stage = "done" => tx.used = Forecast(tx)
          /\ tx.stage # "none" => tx.used <= Forecast(tx)

\* The amount of a deterministic message is a number that its handler does not change.
LEMMA AmountIsNat ==
  ASSUME NEW msg \in Messages, IsDeterministic(msg)
  PROVE  /\ GasRequiredByMessage(msg) \in Nat
         /\ \A real : Charged(msg, real) = GasRequiredByMessage(msg)
<1> DEFINE row == GasTable[msg.type]
           units == IF msg.units < row.minUnits THEN row.minUnits ELSE msg.units
<1>1. row.base \in Nat /\ row.perUnit \in Nat /\ row.minUnits \in Nat /\ msg.units \in Nat
  BY TxGasAssumption DEF IsDeterministic
<1>2. GasRequiredByMessage(msg) = row.base + row.perUnit * units
  BY DEF GasRequiredByMessage
<1> HIDE DEF row
<1>3. units \in Nat
  BY <1>1
<1> HIDE DEF units
<1>4. row.base + row.perUnit * units \in Nat
  BY <1>1, <1>3
<1> QED BY <1>2, <1>4 DEF Charged

\* What a message of either kind is charged is a number.
LEMMA ChargedIsNat ==
  ASSUME NEW msg \in Messages, NEW real \in RealGas
  PROVE  Charged(msg, real) \in Nat
<1>1. RealGas \subseteq Nat
  BY TxGasAssumption
<1>2. CASE IsDeterministic(msg)
  BY <1>2, AmountIsNat
<1>3. CASE ~ IsDeterministic(msg)
  BY <1>1, <1>3 DEF Charged
<1> QED BY <1>2, <1>3

\* The amounts of a deterministic transaction, and what was charged so far, are numbers that the
\* forecast covers.
LEMMA ForecastCovers ==
  ASSUME NEW t \in Transactions, AllDeterministic(t)
  PROVE  /\ Len(t.msgs) \in Nat
         /\ \A i \in 1..Len(t.msgs) : MessageGas(t)[i] \in Nat
         /\ GasAfterAnte(t.envelope) \in Nat
         /\ \A n \in 0..Len(t.msgs) :
               /\ SumTo(MessageGas(t), n) \in Nat
               /\ GasAfterAnte(t.envelope) + SumTo(MessageGas(t), n) <= Forecast(t)
         /\ Forecast(t) \in Nat
<1>1. t.msgs \in Seq(Messages) /\ t.envelope \in Nat
  BY DEF Transactions
<1>2. Len(t.msgs) \in Nat /\ \A i \in 1..Len(t.msgs) : t.msgs[i] \in Messages
  BY <1>1, LenProperties, ElementOfSeq
<1>3. \A i \in 1..Len(t.msgs) : MessageGas(t)[i] \in Nat
  BY <1>2, AmountIsNat DEF MessageGas, AllDeterministic
<1>4. GasAfterAnte(t.envelope) \in Nat
  BY <1>1, TxGasAssumption DEF GasAfterAnte, OverBonus
<1>5. \A n \in 0..Len(t.msgs) : /\ SumTo(MessageGas(t), n) \in Nat
                                /\ SumTo(MessageGas(t), Len(t.msgs)) \in Nat
                                /\ SumTo(MessageGas(t), n) <= SumTo(MessageGas(t), Len(t.msgs))
  BY <1>2, <1>3, SumToGrows
<1>6. 0 \in 0..Len(t.msgs)
  BY <1>2
<1> QED BY <1>2, <1>3, <1>4, <1>5, <1>6 DEF Forecast

\* The decorators hand the messages a meter that shows the fixed amount and the excess.
LEMMA AnteKeepsMeter ==
  ASSUME MeterInv, NEW gas \in Gas, NEW fee \in Fees, NEW envelope \in EnvelopeGas,
         NEW n \in 1..MaxMessages, NEW msgs \in [1..n -> Messages],
         AnteChain(gas, fee, envelope, msgs)
  PROVE  MeterInv'
<1>1. n \in Nat \ {0} /\ gas \in Nat /\ envelope \in Nat
  BY TxGasAssumption, FeeModelAssumption
<1>2. msgs \in Seq(Messages)
  BY <1>1, SeqDef
<1>3. Len(msgs) = n
  BY <1>1, <1>2, LenProperties
<1>4. GasAfterAnte(envelope) \in Nat
  BY <1>1, TxGasAssumption DEF GasAfterAnte, OverBonus
<1>5. tx' = [stage |-> "running", gas |-> gas, envelope |-> envelope, msgs |-> msgs,
             next |-> 1, used |-> GasAfterAnte(envelope)]
  BY DEF AnteChain, NoTx
<1>6. tx' \in Transactions
  BY <1>1, <1>2, <1>4, <1>5 DEF Transactions
<1>7. tx'.stage = "running" /\ tx'.next = 1 /\ tx'.next \in 1..Len(tx'.msgs)
  BY <1>1, <1>3, <1>5
<1>8. ASSUME AllDeterministic(tx')
      PROVE  /\ tx'.used = GasAfterAnte(tx'.envelope) + SumTo(MessageGas(tx'), tx'.next - 1)
             /\ tx'.used <= Forecast(tx')
  <2>1. SumTo(MessageGas(tx'), 0) = 0 /\ tx'.next - 1 = 0
    BY <1>7, SumToZero
  <2>2. 0 \in 0..Len(tx'.msgs)
    BY <1>6, <1>8, ForecastCovers
  <2>3. tx'.used = GasAfterAnte(tx'.envelope) /\ GasAfterAnte(tx'.envelope) \in Nat
    BY <1>4, <1>5
  <2>4. GasAfterAnte(tx'.envelope) + SumTo(MessageGas(tx'), 0) <= Forecast(tx')
    BY <1>6, <1>8, <2>2, ForecastCovers
  <2> QED BY <2>1, <2>3, <2>4
<1> QED BY <1>6, <1>7, <1>8 DEF MeterInv

\* The wrapped handler of a deterministic message adds its amount, whether the message succeeds,
\* runs out of gas or is refused.
LEMMA MessageKeepsMeter ==
  ASSUME MeterInv, NEW real \in RealGas, RunMessage(real) \/ RefuseMessage(real)
  PROVE  MeterInv'
<1> DEFINE n == Len(tx.msgs)
           k == tx.next
           charged == Charged(Sent, real)
<1>1. /\ tx \in Transactions /\ tx.stage = "running" /\ k \in 1..n
      /\ tx.msgs \in Seq(Messages) /\ tx.used \in Nat
  BY DEF MeterInv, Transactions, RunMessage, RefuseMessage
<1>2. n \in Nat /\ Sent \in Messages
  BY <1>1, LenProperties, ElementOfSeq DEF Sent
<1>3. charged \in Nat
  BY <1>2, ChargedIsNat
<1>4. /\ tx' \in Transactions
      /\ tx'.msgs = tx.msgs /\ tx'.envelope = tx.envelope
      /\ tx'.used = tx.used + charged
      /\ tx'.stage \in {"running", "done", "failed"}
      /\ tx'.stage = "running" => tx'.next = k + 1 /\ k # n
      /\ tx'.stage = "done" => k = n
  <2>1. CASE RunMessage(real)
    <3> DEFINE stage == IF tx.used + charged > tx.gas \/ BlowsFuse(Sent, real) THEN "failed"
                        ELSE IF k = n THEN "done" ELSE tx.stage
    <3>1. tx' = [tx EXCEPT !.used = tx.used + charged, !.next = k + 1, !.stage = stage]
      BY <2>1 DEF RunMessage
    <3>2. stage \in {"running", "done", "failed"}
      BY <1>1
    <3>3. (stage = "running" => k # n) /\ (stage = "done" => k = n)
      BY <1>1
    <3> HIDE DEF stage, charged, n
    <3>4. tx.used + charged \in Nat /\ k + 1 \in Nat \ {0}
      BY <1>1, <1>3 DEF Transactions
    <3> QED BY <1>1, <3>1, <3>2, <3>3, <3>4 DEF Transactions
  <2>2. CASE RefuseMessage(real)
    <3>1. tx' = [tx EXCEPT !.stage = "failed", !.used = tx.used + charged]
      BY <2>2 DEF RefuseMessage
    <3> HIDE DEF charged, n
    <3>2. tx.used + charged \in Nat
      BY <1>1, <1>3
    <3> QED BY <1>1, <3>1, <3>2 DEF Transactions
  <2> QED BY <2>1, <2>2
<1>5. tx'.stage = "running" => tx'.next \in 1..Len(tx'.msgs)
  BY <1>1, <1>2, <1>4
<1>6. ASSUME AllDeterministic(tx')
      PROVE  /\ tx'.used = GasAfterAnte(tx'.envelope) + SumTo(MessageGas(tx'), k)
             /\ tx'.used <= Forecast(tx')
  <2>1. AllDeterministic(tx)
    BY <1>4, <1>6 DEF AllDeterministic
  <2>2. MessageGas(tx') = MessageGas(tx) /\ Forecast(tx') = Forecast(tx)
    BY <1>4 DEF MessageGas, Forecast
  <2>3. charged = MessageGas(tx)[k]
    BY <1>1, <1>2, <2>1, AmountIsNat DEF AllDeterministic, Sent, MessageGas
  <2>4. /\ \A i \in 1..n : MessageGas(tx)[i] \in Nat
        /\ GasAfterAnte(tx.envelope) \in Nat
        /\ \A m \in 0..n : /\ SumTo(MessageGas(tx), m) \in Nat
                           /\ GasAfterAnte(tx.envelope) + SumTo(MessageGas(tx), m) <= Forecast(tx)
    BY <1>1, <2>1, ForecastCovers
  <2> HIDE DEF charged, n
  <2>5. k - 1 \in Nat /\ (k - 1) + 1 = k /\ k - 1 \in 0..n /\ k \in 0..n
    BY <1>1, <1>2
  <2>6. SumTo(MessageGas(tx), (k - 1) + 1) = SumTo(MessageGas(tx), k - 1) + MessageGas(tx)[(k - 1) + 1]
    <3>0. \A i \in 1..(k - 1) + 1 : i \in 1..n
      BY <1>1, <1>2, <2>5
    <3>1. \A i \in 1..(k - 1) + 1 : MessageGas(tx)[i] \in Int
      BY <2>4, <3>0
    <3> QED BY <2>5, <3>1, SumToStep
  <2>7. tx.used = GasAfterAnte(tx.envelope) + SumTo(MessageGas(tx), k - 1)
    BY <1>1, <2>1 DEF MeterInv
  <2>8. tx'.used = GasAfterAnte(tx.envelope) + SumTo(MessageGas(tx), k)
    BY <1>3, <1>4, <2>3, <2>4, <2>5, <2>6, <2>7
  <2> QED BY <1>4, <2>2, <2>4, <2>5, <2>8
<1>7. ASSUME AllDeterministic(tx'), tx'.stage = "running"
      PROVE  tx'.used = GasAfterAnte(tx'.envelope) + SumTo(MessageGas(tx'), tx'.next - 1)
  <2>1. tx'.next - 1 = k
    BY <1>1, <1>2, <1>4, <1>7
  <2> QED BY <1>6, <1>7, <2>1
<1>8. ASSUME AllDeterministic(tx'), tx'.stage = "done"
      PROVE  tx'.used = Forecast(tx')
  <2>1. k = Len(tx'.msgs)
    BY <1>4, <1>8
  <2> QED BY <1>6, <1>8, <2>1 DEF Forecast
<1> QED BY <1>4, <1>5, <1>6, <1>7, <1>8 DEF MeterInv

\* Nothing else touches the meter.
LEMMA MeterStep ==
  ASSUME MeterInv, [GasNext]_gasVars
  PROVE  MeterInv'
<1>1. ASSUME NEW gas \in Gas, NEW fee \in Fees, NEW envelope \in EnvelopeGas,
             NEW msgs \in UNION {[1..n -> Messages] : n \in 1..MaxMessages},
             AnteChain(gas, fee, envelope, msgs)
      PROVE  MeterInv'
  BY <1>1, AnteKeepsMeter
<1>2. ASSUME NEW real \in RealGas, RunMessage(real) \/ RefuseMessage(real) PROVE MeterInv'
  BY <1>2, MessageKeepsMeter
<1>3. CASE FinishTx
  <2>1. tx' = NoTx
    BY <1>3 DEF FinishTx
  <2> QED BY <2>1, EmptySeq DEF MeterInv, NoTx, Transactions
<1>4. CASE UNCHANGED tx
  BY <1>4 DEF MeterInv
<1>5. EndGasBlock \/ (\E p \in ParamUpdates : UpdateGasParams(p)) => UNCHANGED tx
  BY DEF EndGasBlock, UpdateGasParams
<1>6. UNCHANGED gasVars => UNCHANGED tx
  BY DEF gasVars
<1> QED BY <1>1, <1>2, <1>3, <1>4, <1>5, <1>6 DEF GasNext

\* A new chain has no transaction yet.
LEMMA MeterInit == GasInit => MeterInv
BY EmptySeq DEF GasInit, MeterInv, NoTx, Transactions

\* x/deterministicgas: whatever the parameters, the table and the messages, a transaction of
\* deterministic messages uses the gas that can be computed before it is sent, and it fails for
\* lack of gas only when it declared less than that.
THEOREM GasStaysForeseen == GasSpec => []GasIsForeseen
<1>1. MeterInv => GasIsForeseen
  <2> SUFFICES ASSUME MeterInv, AllDeterministic(tx)
               PROVE  /\ tx.stage = "done" => tx.used = Forecast(tx)
                      /\ tx.used > tx.gas => Forecast(tx) > tx.gas
    BY DEF GasIsForeseen
  <2>1. tx \in Transactions /\ Forecast(tx) \in Nat
    BY ForecastCovers DEF MeterInv
  <2>2. tx.used \in Nat /\ tx.gas \in Nat
    BY <2>1 DEF Transactions
  <2>3. CASE tx.stage = "none"
    BY <2>3 DEF MeterInv, NoTx
  <2>4. CASE tx.stage # "none"
    BY <2>1, <2>2, <2>4 DEF MeterInv
  <2> QED BY <2>3, <2>4
<1> QED BY <1>1, MeterInit, MeterStep, PTL DEF GasSpec

--------------------------------------------------------------------------------
(* Fees and prices. *)

FeesInv == FeeTypeOK /\ blockFees \in Nat /\ FeesCoverTrackedGas

\* A transaction that pays for its own gas keeps the block paid for.
LEMMA AntePaysForTheBlock ==
  ASSUME FeesInv, NEW gas \in Gas, NEW fee \in Fees, NEW envelope, NEW msgs,
         AnteChain(gas, fee, envelope, msgs)
  PROVE  FeesInv'
<1>0. /\ One \in Nat /\ BlockGasLimit \in Nat /\ gas \in Nat /\ fee \in Nat
      /\ blockFees \in Nat /\ trackedGas \in Nat /\ minGasPrice \in Nat
  BY FeeModelAssumption DEF FeesInv, FeeTypeOK
<1>1. /\ fee * One >= gas * minGasPrice
      /\ trackedGas + gas <= BlockGasLimit
      /\ trackedGas' = trackedGas + gas
      /\ blockFees' = blockFees + fee
      /\ UNCHANGED <<params, shortEMA, longEMA, minGasPrice>>
  BY DEF AnteChain, AnteHandle, PaysFee
<1>2. /\ (blockFees + fee) * One = blockFees * One + fee * One
      /\ (trackedGas + gas) * minGasPrice = trackedGas * minGasPrice + gas * minGasPrice
  BY <1>0
<1>3. /\ blockFees * One \in Nat /\ fee * One \in Nat
      /\ trackedGas * minGasPrice \in Nat /\ gas * minGasPrice \in Nat
  BY <1>0
<1>4. blockFees * One >= trackedGas * minGasPrice
  BY DEF FeesInv, FeesCoverTrackedGas
<1>5. blockFees' * One >= trackedGas' * minGasPrice'
  BY <1>1, <1>2, <1>3, <1>4
<1>6. FeeTypeOK'
  BY <1>0, <1>1 DEF FeesInv, FeeTypeOK
<1>7. blockFees' \in Nat
  BY <1>0, <1>1
<1> QED BY <1>5, <1>6, <1>7 DEF FeesInv, FeesCoverTrackedGas

\* The invariant holds at every step: the price only changes when the block, and with it the count
\* of its gas, is over.
LEMMA FeesStep ==
  ASSUME FeesInv, [GasNext]_gasVars
  PROVE  FeesInv'
<1>1. ASSUME NEW gas \in Gas, NEW fee \in Fees, NEW envelope \in EnvelopeGas,
             NEW msgs \in UNION {[1..n -> Messages] : n \in 1..MaxMessages},
             AnteChain(gas, fee, envelope, msgs)
      PROVE  FeesInv'
  BY <1>1, AntePaysForTheBlock
<1>2. CASE UNCHANGED <<feeVars, blockFees>>
  BY <1>2 DEF FeesInv, FeeTypeOK, FeesCoverTrackedGas, feeVars
<1>3. CASE EndGasBlock
  <2>1. FeeTypeOK' /\ blockFees' = 0 /\ trackedGas' = 0
    BY <1>3, EndBlockKeepsTypes DEF EndGasBlock, EndBlock, FeesInv
  <2>2. One \in Nat /\ minGasPrice' \in Nat
    BY <2>1, FeeModelAssumption DEF FeeTypeOK
  <2>n. \A x \in Nat : 0 * x = 0
    OBVIOUS
  <2>3. blockFees' * One >= trackedGas' * minGasPrice'
    <3>1. blockFees' * One = 0 /\ trackedGas' * minGasPrice' = 0
      BY <2>1, <2>2, <2>n
    <3> QED BY <3>1
  <2> QED BY <2>1, <2>3 DEF FeesInv, FeesCoverTrackedGas
<1>4. ASSUME NEW p \in ParamUpdates, UpdateGasParams(p) PROVE FeesInv'
  <2>1. params' = p /\ UNCHANGED <<trackedGas, shortEMA, longEMA, minGasPrice, blockFees>>
    BY <1>4 DEF UpdateGasParams, UpdateParams
  <2>2. ValidParams(p)
    BY FeeModelAssumption
  <2> QED BY <2>1, <2>2 DEF FeesInv, FeeTypeOK, FeesCoverTrackedGas, ValidParams
<1>5. (\E real \in RealGas : RunMessage(real) \/ RefuseMessage(real)) \/ FinishTx
          => UNCHANGED <<feeVars, blockFees>>
  BY DEF RunMessage, RefuseMessage, FinishTx
<1>6. UNCHANGED gasVars => UNCHANGED <<feeVars, blockFees>>
  BY DEF gasVars
<1> QED BY <1>1, <1>2, <1>3, <1>4, <1>5, <1>6 DEF GasNext

\* A new chain has charged nothing.
LEMMA FeesInit == GasInit => FeesInv
<1> SUFFICES ASSUME GasInit PROVE FeesInv
  OBVIOUS
<1>1. /\ params = GenesisParams /\ trackedGas = 0 /\ shortEMA = 0 /\ longEMA = 0
      /\ minGasPrice = GenesisParams.InitialGasPrice /\ blockFees = 0
  BY DEF GasInit, FeeInit
<1>2. One \in Nat /\ BlockGasLimit \in Nat /\ ValidParams(GenesisParams)
  BY FeeModelAssumption
<1>3. minGasPrice \in Nat
  BY <1>1, <1>2 DEF ValidParams, ModelParams
<1>4. FeeTypeOK
  BY <1>1, <1>2, <1>3 DEF FeeTypeOK
<1>5. blockFees * One >= trackedGas * minGasPrice
  BY <1>1, <1>2, <1>3
<1> QED BY <1>1, <1>4, <1>5 DEF FeesInv, FeesCoverTrackedGas

\* x/feemodel EndBlock: for all valid parameters, also changing ones, the moving averages stay
\* within what a block may declare, and the price is a number.
THEOREM AveragesStayBounded == GasSpec => []FeeTypeOK
<1>1. FeesInv => FeeTypeOK
  BY DEF FeesInv
<1> QED BY <1>1, FeesInit, FeesStep, PTL DEF GasSpec

\* x/feemodel FeeDecorator and EndBlock: in every block the deducted fees cover the tracked gas at
\* the price of the block.
THEOREM BlocksArePaidFor == GasSpec => []FeesCoverTrackedGas
<1>1. FeesInv => FeesCoverTrackedGas
  BY DEF FeesInv
<1> QED BY <1>1, FeesInit, FeesStep, PTL DEF GasSpec

\* x/feemodel CalculateNextGasPrice: a price that is set lies on or between the price with the
\* maximum discount and the maximum price, for every load and all valid parameters, with decimals
\* rounded as the code rounds them.
THEOREM PricesStayWithinTheCurve == GasSpec => PriceIsWithinTheCurve
<1>1. ASSUME FeesInv, [GasNext]_gasVars
      PROVE  [minGasPrice' # minGasPrice =>
                 /\ CalculateGasPriceWithMaxDiscount(params) <= minGasPrice'
                 /\ minGasPrice' <= CalculateMaxGasPrice(params)]_feeVars
  <2>1. CASE EndGasBlock
    BY <1>1, <2>1, EndBlockKeepsTypes DEF EndGasBlock, FeesInv
  <2>2. CASE UNCHANGED minGasPrice
    BY <2>2
  <2>3. [GasNext]_gasVars => EndGasBlock \/ UNCHANGED minGasPrice
    BY DEF GasNext, AnteChain, AnteHandle, RunMessage, RefuseMessage, FinishTx, UpdateGasParams,
           UpdateParams, gasVars, feeVars
  <2> QED BY <1>1, <2>1, <2>2, <2>3
<1> QED BY <1>1, FeesInit, FeesStep, PTL DEF GasSpec, PriceIsWithinTheCurve
================================================================================
