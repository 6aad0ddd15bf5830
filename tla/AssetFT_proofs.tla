--------------------------- MODULE AssetFT_proofs ---------------------------
(***************************************************************************)
(* What the fungible token ledger keeps for every set of accounts, denoms, *)
(* amounts, rates and token definitions: its types, the conservation of    *)
(* the supply, and the cover of what the DEX has locked.                   *)
(***************************************************************************)
EXTENDS AssetFT, SeqSum_proofs, FiniteSetTheorems

Ledger == [Accounts -> [Denoms -> Nat]]

IntLedger == [Accounts -> [Denoms -> Int]]

-----------------------------------------------------------------------------
(* The sum of the balances                                                 *)

\* AccountOrder enumerates the accounts without repetition.
LEMMA AccountOrderIsBijection ==
  /\ Cardinality(Accounts) \in Nat
  /\ AccountOrder \in [1 .. Cardinality(Accounts) -> Accounts]
  /\ \A i, j \in 1 .. Cardinality(Accounts) : AccountOrder[i] = AccountOrder[j] => i = j
  /\ \A a \in Accounts : \E i \in 1 .. Cardinality(Accounts) : AccountOrder[i] = a
<1>1. /\ Cardinality(Accounts) \in Nat
      /\ ExistsBijection(1 .. Cardinality(Accounts), Accounts)
  BY AccountsAssumption, FS_CardinalityType
<1>2. AccountOrder \in Bijection(1 .. Cardinality(Accounts), Accounts)
  BY <1>1 DEF AccountOrder, ExistsBijection
<1> QED
  BY <1>1, <1>2 DEF Bijection, Injection, Surjection, IsInjective

\* The sum of integer balances is an integer; of balances that are not negative it is a natural
\* number no smaller than any of them.
LEMMA TotalType ==
  ASSUME NEW d \in Denoms
  PROVE  /\ \A b \in IntLedger : Total(b, d) \in Int
         /\ \A b \in Ledger : Total(b, d) \in Nat /\ \A a \in Accounts : b[a][d] <= Total(b, d)
<1> DEFINE n == Cardinality(Accounts)
           F(b) == [i \in 1 .. n |-> b[AccountOrder[i]][d]]
<1>1. ASSUME NEW b \in IntLedger PROVE Total(b, d) \in Int
  <2>1. \A i \in 1 .. n : F(b)[i] \in Int
    BY AccountOrderIsBijection DEF IntLedger
  <2> QED
    BY <2>1, AccountOrderIsBijection, SumToInt DEF Total
<1>2. ASSUME NEW b \in Ledger
      PROVE  Total(b, d) \in Nat /\ \A a \in Accounts : b[a][d] <= Total(b, d)
  <2>1. \A i \in 1 .. n : F(b)[i] \in Nat
    BY AccountOrderIsBijection DEF Ledger
  <2> HIDE DEF F
  <2>2. SumTo(F(b), n) \in Nat /\ \A k \in 1 .. n : F(b)[k] <= SumTo(F(b), n)
    BY <2>1, AccountOrderIsBijection, SumToCovers
  <2>3. Total(b, d) = SumTo(F(b), n)
    BY DEF Total, F
  <2>4. ASSUME NEW a \in Accounts PROVE b[a][d] <= Total(b, d)
    <3>1. PICK k \in 1 .. n : AccountOrder[k] = a
      BY AccountOrderIsBijection
    <3> QED
      BY <2>2, <2>3, <3>1 DEF F
  <2> QED
    BY <2>2, <2>3, <2>4
<1> QED
  BY <1>1, <1>2

\* Changing the balance of one account in one denom changes the sum of that denom by as much and
\* no other sum.
LEMMA TotalUpdate ==
  ASSUME NEW b \in IntLedger, NEW c \in IntLedger, NEW a \in Accounts, NEW d \in Denoms,
         \A x \in Accounts : x # a => c[x][d] = b[x][d]
  PROVE  Total(c, d) = Total(b, d) + (c[a][d] - b[a][d])
<1> DEFINE n == Cardinality(Accounts)
           f == [i \in 1 .. n |-> b[AccountOrder[i]][d]]
           g == [i \in 1 .. n |-> c[AccountOrder[i]][d]]
<1>1. PICK k \in 1 .. n : AccountOrder[k] = a
  BY AccountOrderIsBijection
<1>2. \A i \in 1 .. n : f[i] \in Int /\ g[i] \in Int
  BY AccountOrderIsBijection DEF IntLedger
<1>3. \A i \in 1 .. n : i # k => g[i] = f[i]
  BY <1>1, AccountOrderIsBijection
<1>4. f[k] = b[a][d] /\ g[k] = c[a][d]
  BY <1>1
<1>5. Total(b, d) = SumTo(f, n) /\ Total(c, d) = SumTo(g, n)
  BY DEF Total
<1> HIDE DEF f, g
<1>6. SumTo(g, n) = SumTo(f, n) + (g[k] - f[k])
  BY <1>2, <1>3, AccountOrderIsBijection, SumToUpdate
<1> QED
  BY <1>4, <1>5, <1>6

\* Take and Move, entry by entry, and what they do to the sums: a transfer conserves them.
LEMMA TakeFacts ==
  ASSUME NEW b \in IntLedger, NEW a \in Accounts, NEW d \in Denoms, NEW amt \in Int,
         NEW c, c = Take(b, a, d, amt)
  PROVE  /\ c \in IntLedger
         /\ \A x \in Accounts, e \in Denoms :
               c[x][e] = b[x][e] - (IF x = a /\ e = d THEN amt ELSE 0)
         /\ \A e \in Denoms : Total(c, e) = Total(b, e) - (IF e = d THEN amt ELSE 0)
<1>1. /\ c \in IntLedger
      /\ \A x \in Accounts, e \in Denoms :
            c[x][e] = b[x][e] - (IF x = a /\ e = d THEN amt ELSE 0)
  BY DEF Take, IntLedger
<1>2. ASSUME NEW e \in Denoms
      PROVE  Total(c, e) = Total(b, e) - (IF e = d THEN amt ELSE 0)
  <2>1. \A x \in Accounts : x # a => c[x][e] = b[x][e]
    BY <1>1 DEF IntLedger
  <2>2. Total(c, e) = Total(b, e) + (c[a][e] - b[a][e])
    BY <1>1, <2>1, TotalUpdate
  <2>3. Total(b, e) \in Int /\ b[a][e] \in Int /\ c[a][e] \in Int
    BY <1>1, TotalType DEF IntLedger
  <2>4. c[a][e] = b[a][e] - (IF e = d THEN amt ELSE 0)
    BY <1>1
  <2> QED
    BY <2>2, <2>3, <2>4
<1> QED
  BY <1>1, <1>2

\* Adding an amount to the balance of one account.
Give(b, a, d, amt) == [b EXCEPT ![a][d] = @ + amt]

\* What minting does to the balances, entry by entry, and to the sums.
LEMMA AddFacts ==
  ASSUME NEW b \in IntLedger, NEW a \in Accounts, NEW d \in Denoms, NEW amt \in Int,
         NEW c, c = Give(b, a, d, amt)
  PROVE  /\ c \in IntLedger
         /\ \A x \in Accounts, e \in Denoms :
               c[x][e] = b[x][e] + (IF x = a /\ e = d THEN amt ELSE 0)
         /\ \A e \in Denoms : Total(c, e) = Total(b, e) + (IF e = d THEN amt ELSE 0)
<1>1. /\ c \in IntLedger
      /\ \A x \in Accounts, e \in Denoms :
            c[x][e] = b[x][e] + (IF x = a /\ e = d THEN amt ELSE 0)
  BY DEF Give, IntLedger
<1>2. ASSUME NEW e \in Denoms
      PROVE  Total(c, e) = Total(b, e) + (IF e = d THEN amt ELSE 0)
  <2>1. \A x \in Accounts : x # a => c[x][e] = b[x][e]
    BY <1>1 DEF IntLedger
  <2>2. Total(c, e) = Total(b, e) + (c[a][e] - b[a][e])
    BY <1>1, <2>1, TotalUpdate
  <2>3. Total(b, e) \in Int /\ b[a][e] \in Int /\ c[a][e] \in Int
    BY <1>1, TotalType DEF IntLedger
  <2>4. c[a][e] = b[a][e] + (IF e = d THEN amt ELSE 0)
    BY <1>1
  <2> QED
    BY <2>2, <2>3, <2>4
<1> QED
  BY <1>1, <1>2

\* A transfer between two accounts, which may be the same, keeps every sum.
LEMMA MoveFacts ==
  ASSUME NEW b \in IntLedger, NEW from \in Accounts, NEW to \in Accounts,
         NEW d \in Denoms, NEW amt \in Int,
         NEW c, c = Move(b, from, to, d, amt)
  PROVE  /\ c \in IntLedger
         /\ \A x \in Accounts, e \in Denoms :
               c[x][e] = b[x][e] - (IF x = from /\ e = d THEN amt ELSE 0)
                                 + (IF x = to /\ e = d THEN amt ELSE 0)
         /\ \A e \in Denoms : Total(c, e) = Total(b, e)
<1>1. PICK t : t = Take(b, from, d, amt)
  OBVIOUS
<1>2. /\ t \in IntLedger
      /\ \A x \in Accounts, e \in Denoms : t[x][e] = b[x][e] - (IF x = from /\ e = d THEN amt ELSE 0)
      /\ \A e \in Denoms : Total(t, e) = Total(b, e) - (IF e = d THEN amt ELSE 0)
  BY <1>1, TakeFacts, SMTT(60)
<1>3. c = [t EXCEPT ![to][d] = @ + amt]
  BY <1>1 DEF Move, Take
<1>4. /\ c \in IntLedger
      /\ \A x \in Accounts, e \in Denoms : c[x][e] = t[x][e] + (IF x = to /\ e = d THEN amt ELSE 0)
  BY <1>2, <1>3 DEF IntLedger
<1>5. ASSUME NEW e \in Denoms
      PROVE  Total(c, e) = Total(b, e)
  <2>1. \A x \in Accounts : x # to => c[x][e] = t[x][e]
    BY <1>2, <1>4 DEF IntLedger
  <2>2. Total(c, e) = Total(t, e) + (c[to][e] - t[to][e])
    BY <1>2, <1>4, <2>1, TotalUpdate
  <2>3. /\ Total(b, e) \in Int /\ t[to][e] \in Int /\ c[to][e] \in Int
        /\ c[to][e] = t[to][e] + (IF e = d THEN amt ELSE 0)
        /\ Total(t, e) = Total(b, e) - (IF e = d THEN amt ELSE 0)
    BY <1>2, <1>4, TotalType DEF IntLedger
  <2> QED
    BY <2>2, <2>3
<1> QED
  BY <1>2, <1>4, <1>5 DEF IntLedger

-----------------------------------------------------------------------------
(* One transfer                                                            *)

\* What is locked is covered by the balances b.
Covered(b) == \A a \in Accounts, d \in Denoms : dexLocked[a][d] + bankLocked[a][d] <= b[a][d]

\* The DEX locks coins of users only.
OnlyUsersHaveLocks == \A a \in Accounts \ Users, d \in Denoms : dexLocked[a][d] = 0

\* A burn or commission is a natural number, and zero where IBC brings coins in.
LEMMA CalculateRateFacts ==
  ASSUME NEW rate \in Nat, NEW a \in Accounts, NEW amt \in Nat, NEW ctx \in Contexts
  PROVE  /\ CalculateRate(rate, a, amt, ctx) \in Nat
         /\ ctx.purpose = "in" => CalculateRate(rate, a, amt, ctx) = 0
<1>1. PICK p \in Nat : p = rate * amt
  OBVIOUS
<1>2. p + RateScale - 1 \in Nat
  BY AmountsAssumption
<1>3. (p + RateScale - 1) \div RateScale \in Nat
  BY <1>2, AmountsAssumption
<1> QED
  BY <1>1, <1>3 DEF CalculateRate

\* A transfer that applyFeatures lets through leaves what is locked in the sender's account, and
\* lowers the sum of the balances by what it burns.
LEMMA ApplyFeaturesFacts ==
  ASSUME FTTypeOK, OnlyUsersHaveLocks, NEW b \in Ledger, Covered(b),
         NEW from \in Accounts, NEW to \in Accounts, NEW d \in Denoms, NEW amt \in Nat,
         NEW ctx \in Contexts, ValidRoute(from, to, ctx),
         NEW res, res = ApplyFeatures(b, from, to, d, amt, ctx), res.ok
  PROVE  /\ res.balances \in Ledger
         /\ Covered(res.balances)
         /\ res.burnt \in Nat
         /\ \A e \in Denoms : Total(res.balances, e) = Total(b, e) - (IF e = d THEN res.burnt ELSE 0)
<1> DEFINE def        == definitions[d]
           charged    == def.admin \notin {from, to}
           commission == IF charged THEN CalculateRate(def.commissionRate, from, amt, ctx) ELSE 0
           burn       == IF charged THEN CalculateRate(def.burnRate, from, amt, ctx) ELSE 0
           afterFee   == IF commission > 0 THEN Move(b, from, def.admin, d, commission) ELSE b
           afterBurn  == Take(afterFee, from, d, burn)
           moved      == Move(b, from, to, d, amt)
<1>1. /\ b \in IntLedger
      /\ \A x \in Accounts, e \in Denoms : b[x][e] \in Nat
      /\ \A x \in Accounts, e \in Denoms : dexLocked[x][e] \in Nat /\ bankLocked[x][e] \in Nat
      /\ \A e \in Denoms : Total(b, e) \in Int
  BY TotalType DEF Ledger, IntLedger, FTTypeOK
<1>2. ctx.purpose \in {"in", "ack", "timeout"} => dexLocked[from][d] = 0
  BY DEF ValidRoute, Contexts, Purposes, OnlyUsersHaveLocks, Users
<1>3. /\ moved \in IntLedger
      /\ \A x \in Accounts, e \in Denoms :
            moved[x][e] = b[x][e] - (IF x = from /\ e = d THEN amt ELSE 0)
                                  + (IF x = to /\ e = d THEN amt ELSE 0)
      /\ \A e \in Denoms : Total(moved, e) = Total(b, e)
  BY <1>1, MoveFacts
<1>4. ASSUME res.balances = moved, res.burnt = 0,
             b[from][d] - dexLocked[from][d] - bankLocked[from][d] >= amt
      PROVE  /\ res.balances \in Ledger
             /\ Covered(res.balances)
             /\ res.burnt \in Nat
             /\ \A e \in Denoms : Total(res.balances, e) = Total(b, e) - (IF e = d THEN res.burnt ELSE 0)
  <2> HIDE DEF moved
  <2>1. ASSUME NEW x \in Accounts, NEW e \in Denoms
        PROVE  /\ moved[x][e] \in Nat
               /\ dexLocked[x][e] + bankLocked[x][e] <= moved[x][e]
    BY <1>1, <1>3, <1>4 DEF Covered
  <2>2. moved \in Ledger /\ Covered(moved)
    BY <2>1, <1>3 DEF Ledger, IntLedger, Covered
  <2> QED
    BY <2>2, <1>1, <1>3, <1>4
<1>5. CASE ~ HasDefinition(d)
  <2> DEFINE allowed == NotLockedByDEXAndBank(b, from, d, amt) /\ CanMove(b, from, d, amt)
  <2>1. res = [ok |-> allowed, balances |-> moved, burnt |-> 0]
    BY <1>5 DEF ApplyFeatures
  <2> HIDE DEF moved, allowed
  <2>2. res.balances = moved /\ res.burnt = 0
    BY <2>1
  <2>3. allowed
    <3>1. res.ok = allowed
      BY <2>1
    <3> QED
      BY <3>1
  <2> QED
    BY <2>2, <2>3, <1>4 DEF NotLockedByDEXAndBank, allowed
<1>6. CASE HasDefinition(d) /\ IsRefund(ctx)
  <2>1. res = [ok |-> CanMove(b, from, d, amt), balances |-> moved, burnt |-> 0]
    BY <1>6 DEF ApplyFeatures
  <2> HIDE DEF moved
  <2>2. res.balances = moved /\ res.burnt = 0
    BY <2>1
  <2>4. CanMove(b, from, d, amt)
    <3>1. res.ok = CanMove(b, from, d, amt)
      BY <2>1
    <3> QED
      BY <3>1
  <2>3. b[from][d] - dexLocked[from][d] - bankLocked[from][d] >= amt
    BY <2>4, <1>6, <1>1, <1>2, SMTT(60) DEF CanMove, IsRefund
  <2> QED
    BY <2>2, <2>3, <1>4
<1>7. CASE HasDefinition(d) /\ ~ IsRefund(ctx)
  <2> DEFINE final == Move(afterBurn, from, to, d, amt)
  <2>1. res = [ok |-> /\ commission > 0 => /\ def.admin # NoAdmin
                                           /\ CanMove(b, from, d, commission)
                      /\ burn > 0 => /\ ValidateCoinSpendable(afterFee, from, d, burn, ctx)
                                     /\ CanMove(afterFee, from, d, burn)
                      /\ ValidateCoinSpendable(afterBurn, from, d, amt, ctx)
                      /\ ValidateCoinReceivable(afterBurn, to, d, amt, ctx)
                      /\ CanMove(afterBurn, from, d, amt),
               balances |-> final, burnt |-> burn]
    BY <1>7 DEF ApplyFeatures
  <2>2. /\ def \in Definition
        /\ commission \in Nat /\ burn \in Nat
        /\ ctx.purpose = "in" => commission = 0 /\ burn = 0
        /\ commission > 0 => def.admin # from
    <3>1. def \in Definition
      BY <1>7 DEF HasDefinition, FTTypeOK
    <3>2. def.commissionRate \in Nat /\ def.burnRate \in Nat
      BY <3>1 DEF Definition
    <3> DEFINE c == CalculateRate(def.commissionRate, from, amt, ctx)
               r == CalculateRate(def.burnRate, from, amt, ctx)
    <3>3. c \in Nat /\ r \in Nat /\ (ctx.purpose = "in" => c = 0 /\ r = 0)
      BY <3>2, CalculateRateFacts
    <3>4. /\ commission = IF def.admin \notin {from, to} THEN c ELSE 0
          /\ burn = IF def.admin \notin {from, to} THEN r ELSE 0
      OBVIOUS
    <3> HIDE DEF c, r, def, commission, burn
    <3> QED
      BY <3>1, <3>3, <3>4
  <2> HIDE DEF commission, burn
  <2>3. /\ commission > 0 => def.admin \in Accounts
        /\ ValidateCoinSpendable(afterBurn, from, d, amt, ctx)
        /\ CanMove(afterBurn, from, d, amt)
        /\ res.balances = final /\ res.burnt = burn
    <3>1. /\ commission > 0 => def.admin # NoAdmin
          /\ ValidateCoinSpendable(afterBurn, from, d, amt, ctx)
          /\ CanMove(afterBurn, from, d, amt)
          /\ res.balances = final /\ res.burnt = burn
      <4> HIDE DEF def, afterFee, afterBurn, final
      <4> QED BY <2>1
    <3> QED
      BY <3>1, <2>2 DEF Definition
  <2>4. /\ afterFee \in IntLedger
        /\ \A x \in Accounts, e \in Denoms :
              /\ afterFee[x][e] \in Int
              /\ x # from \/ e # d => afterFee[x][e] >= b[x][e]
        /\ \A e \in Denoms : Total(afterFee, e) = Total(b, e)
    <3>1. CASE commission > 0
      <4> DEFINE fee == Move(b, from, def.admin, d, commission)
      <4>1. /\ fee \in IntLedger
            /\ \A x \in Accounts, e \in Denoms :
                  fee[x][e] = b[x][e] - (IF x = from /\ e = d THEN commission ELSE 0)
                                      + (IF x = def.admin /\ e = d THEN commission ELSE 0)
            /\ \A e \in Denoms : Total(fee, e) = Total(b, e)
        <5>1. def.admin \in Accounts
          BY <3>1, <2>3
        <5>2. b \in IntLedger /\ commission \in Int
          BY <1>1, <2>2, SMTT(60)
        <5>3. \A adm \in Accounts, c \in Int :
                 /\ Move(b, from, adm, d, c) \in IntLedger
                 /\ \A x \in Accounts, e \in Denoms :
                       Move(b, from, adm, d, c)[x][e]
                         = b[x][e] - (IF x = from /\ e = d THEN c ELSE 0)
                                   + (IF x = adm /\ e = d THEN c ELSE 0)
                 /\ \A e \in Denoms : Total(Move(b, from, adm, d, c), e) = Total(b, e)
          BY <5>2, MoveFacts, SMTT(60)
        <5> HIDE DEF def
        <5> QED
          BY <5>1, <5>2, <5>3, Zenon
      <4>2. afterFee = fee
        BY <3>1
      <4> HIDE DEF fee, afterFee, def
      <4> QED
        BY <4>1, <4>2, <1>1, <2>2, SMTT(60) DEF IntLedger
    <3>2. CASE ~ (commission > 0)
      <4>1. afterFee = b
        BY <3>2
      <4> HIDE DEF afterFee
      <4> QED
        BY <4>1, <1>1, SMTT(60)
    <3> QED
      BY <3>1, <3>2
  <2> HIDE DEF afterFee, def
  <2>5. /\ afterBurn \in IntLedger
        /\ \A x \in Accounts, e \in Denoms :
              afterBurn[x][e] = afterFee[x][e] - (IF x = from /\ e = d THEN burn ELSE 0)
        /\ \A e \in Denoms : Total(afterBurn, e) = Total(afterFee, e) - (IF e = d THEN burn ELSE 0)
    BY <2>4, <2>2, TakeFacts, SMTT(60)
  <2> HIDE DEF afterBurn
  <2>6. /\ final \in IntLedger
        /\ \A x \in Accounts, e \in Denoms :
              final[x][e] = afterBurn[x][e] - (IF x = from /\ e = d THEN amt ELSE 0)
                                            + (IF x = to /\ e = d THEN amt ELSE 0)
        /\ \A e \in Denoms : Total(final, e) = Total(afterBurn, e)
    BY <2>5, MoveFacts, SMTT(60)
  <2> HIDE DEF final
  <2>7. afterBurn[from][d] - dexLocked[from][d] - bankLocked[from][d] >= amt
    <3>1. CASE ctx.purpose = "in"
      BY <3>1, <2>3, <1>1, <1>2, <2>5, SMTT(60) DEF CanMove, IntLedger
    <3>2. CASE ctx.purpose # "in"
      BY <3>2, <2>3, <1>7 DEF ValidateCoinSpendable, NotLockedByDEXAndBank
    <3> QED
      BY <3>1, <3>2
  <2>8. ASSUME NEW x \in Accounts, NEW e \in Denoms
        PROVE  /\ final[x][e] \in Nat
               /\ dexLocked[x][e] + bankLocked[x][e] <= final[x][e]
    <3>1. afterFee[x][e] \in Int /\ afterBurn[x][e] \in Int /\ final[x][e] \in Int
      BY <2>4, <2>5, <2>6 DEF IntLedger
    <3>2. CASE x = from /\ e = d
      BY <3>1, <3>2, <2>6, <2>7, <1>1, SMTT(60)
    <3>3. CASE ~ (x = from /\ e = d)
      <4>1. dexLocked[x][e] + bankLocked[x][e] <= b[x][e]
        BY DEF Covered
      <4> QED
        BY <3>1, <3>3, <4>1, <2>4, <2>5, <2>6, <1>1, SMTT(60)
    <3> QED
      BY <3>2, <3>3
  <2>9. final \in Ledger /\ Covered(final)
    BY <2>8, <2>6 DEF Ledger, IntLedger, Covered
  <2> QED
    BY <2>2, <2>3, <2>4, <2>5, <2>6, <2>9
<1> QED
  BY <1>5, <1>6, <1>7

-----------------------------------------------------------------------------
(* The inductive invariant                                                 *)

\* LockedIsCovered alone is not inductive: refunds are only checked against what vesting locks,
\* so the DEX must have locked nothing in the escrow account. That no supply goes negative
\* follows from its being the sum of the balances.
LedgerInv ==
    /\ FTTypeOK
    /\ LockedIsCovered
    /\ SupplyIsTheSumOfBalances
    /\ OnlyUsersHaveLocks

\* A step that sets the supply to the sum of the new balances keeps its type and the equality.
LEMMA SupplyStep ==
  ASSUME balances' \in Ledger, supply' = [d \in Denoms |-> supply'[d]],
         \A e \in Denoms : supply'[e] = Total(balances', e)
  PROVE  supply' \in [Denoms -> Nat] /\ SupplyIsTheSumOfBalances'
<1>1. \A e \in Denoms : Total(balances', e) \in Nat
  BY TotalType
<1>2. \A e \in Denoms : supply'[e] \in Nat
  BY <1>1
<1> QED
  BY <1>2 DEF SupplyIsTheSumOfBalances

\* The ledger at genesis: nothing is locked by the DEX and the supply is the sum of the balances.
LEMMA LedgerInit == FTInit => LedgerInv
<1> SUFFICES ASSUME FTInit PROVE LedgerInv
  OBVIOUS
<1>1. \A d \in Denoms : Total(GenesisBalances, d) \in Nat
  BY GenesisAssumption, TotalType DEF Ledger
<1>2. FTTypeOK
  <2>1. supply \in [Denoms -> Nat]
    BY <1>1 DEF FTInit, StartsWith
  <2>2. dexSettings \in [Denoms -> Settings]
    BY DEF FTInit, StartsWith, Settings
  <2> QED
    BY <2>1, <2>2, GenesisAssumption, DefinitionsAssumption DEF FTInit, StartsWith, FTTypeOK, Zero
<1>3. LockedIsCovered
  BY GenesisAssumption DEF FTInit, StartsWith, LockedIsCovered, Zero
<1>4. SupplyIsTheSumOfBalances
  BY DEF FTInit, StartsWith, SupplyIsTheSumOfBalances
<1>5. OnlyUsersHaveLocks
  BY DEF FTInit, StartsWith, OnlyUsersHaveLocks, Zero
<1> QED
  BY <1>2, <1>3, <1>4, <1>5 DEF LedgerInv

\* Sends, through wbank's SendCoins.
LEMMA SendCoinsStep ==
  ASSUME LedgerInv, NEW from \in Accounts, NEW to \in Accounts, NEW d \in Denoms,
         NEW amt \in Amounts, NEW ctx \in Contexts, SendCoins(from, to, d, amt, ctx)
  PROVE  LedgerInv'
<1>1. PICK res : res = ApplyFeatures(balances, from, to, d, amt, ctx)
  OBVIOUS
<1>2. /\ FTTypeOK /\ OnlyUsersHaveLocks /\ balances \in Ledger /\ Covered(balances)
      /\ amt \in Nat /\ ValidRoute(from, to, ctx) /\ res.ok
  BY <1>1, AmountsAssumption DEF LedgerInv, FTTypeOK, LockedIsCovered, Covered, Ledger, SendCoins
<1>3. /\ res.balances \in Ledger /\ Covered(res.balances) /\ res.burnt \in Nat
      /\ \A e \in Denoms : Total(res.balances, e)
                             = Total(balances, e) - (IF e = d THEN res.burnt ELSE 0)
  BY <1>1, <1>2, ApplyFeaturesFacts, SMTT(60)
<1>4. /\ balances' = res.balances /\ supply' = Burnt(d, res.burnt)
      /\ UNCHANGED <<bankLocked, definitions, frozen, globallyFrozen, whitelisted, dexLocked,
                     dexExpectedToReceive, dexSettings>>
  BY <1>1 DEF SendCoins
<1>5. /\ supply \in [Denoms -> Nat]
      /\ \A e \in Denoms : supply[e] = Total(balances, e) /\ Total(balances, e) \in Nat
  BY <1>2, TotalType DEF LedgerInv, FTTypeOK, SupplyIsTheSumOfBalances
<1>6. supply' = [e \in Denoms |-> supply'[e]]
  BY <1>4, <1>5 DEF Burnt
<1>7. \A e \in Denoms : supply'[e] = Total(balances', e)
  BY <1>3, <1>4, <1>5 DEF Burnt
<1>8. supply' \in [Denoms -> Nat] /\ SupplyIsTheSumOfBalances'
  BY <1>3, <1>4, <1>6, <1>7, SupplyStep
<1>9. FTTypeOK'
  BY <1>2, <1>3, <1>4, <1>8 DEF FTTypeOK, Ledger
<1>10. LockedIsCovered' /\ OnlyUsersHaveLocks'
  BY <1>2, <1>3, <1>4 DEF LockedIsCovered, Covered, OnlyUsersHaveLocks, Users
<1> QED
  BY <1>8, <1>9, <1>10 DEF LedgerInv

\* Multi-sends: the second output meets the same conditions on what the first one leaves.
LEMMA InputOutputCoinsStep ==
  ASSUME LedgerInv, NEW from \in Users, NEW to1 \in Users, NEW to2 \in Users, NEW d \in Denoms,
         NEW amt1 \in Amounts, NEW amt2 \in Amounts,
         InputOutputCoins(from, to1, to2, d, amt1, amt2)
  PROVE  LedgerInv'
<1>1. PICK one : one = ApplyFeatures(balances, from, to1, d, amt1, Direct)
  OBVIOUS
<1>2. PICK two : two = ApplyFeatures(one.balances, from, to2, d, amt2, Direct)
  OBVIOUS
<1>3. /\ FTTypeOK /\ OnlyUsersHaveLocks /\ balances \in Ledger /\ Covered(balances)
      /\ amt1 \in Nat /\ amt2 \in Nat /\ Direct \in Contexts
      /\ from \in Accounts /\ to1 \in Accounts /\ to2 \in Accounts
  BY AmountsAssumption
     DEF LedgerInv, FTTypeOK, LockedIsCovered, Covered, Ledger, Users, Direct, Contexts, Purposes
<1>4. /\ ValidRoute(from, to1, Direct) /\ ValidRoute(from, to2, Direct)
      /\ one.ok /\ two.ok
      /\ balances' = two.balances
      /\ supply' = Burnt(d, one.burnt + two.burnt)
      /\ UNCHANGED <<bankLocked, definitions, frozen, globallyFrozen, whitelisted, dexLocked,
                     dexExpectedToReceive, dexSettings>>
  BY <1>1, <1>2 DEF InputOutputCoins
<1>5. /\ one.balances \in Ledger /\ Covered(one.balances) /\ one.burnt \in Nat
      /\ \A e \in Denoms : Total(one.balances, e)
                             = Total(balances, e) - (IF e = d THEN one.burnt ELSE 0)
  BY <1>1, <1>3, <1>4, ApplyFeaturesFacts, SMTT(60)
<1>6. /\ two.balances \in Ledger /\ Covered(two.balances) /\ two.burnt \in Nat
      /\ \A e \in Denoms : Total(two.balances, e)
                             = Total(one.balances, e) - (IF e = d THEN two.burnt ELSE 0)
  <2>1. PICK c : c = one.balances
    OBVIOUS
  <2>2. /\ c \in Ledger /\ Covered(c)
        /\ two = ApplyFeatures(c, from, to2, d, amt2, Direct)
    BY <2>1, <1>2, <1>5
  <2>3. /\ two.balances \in Ledger /\ Covered(two.balances) /\ two.burnt \in Nat
        /\ \A e \in Denoms : Total(two.balances, e)
                               = Total(c, e) - (IF e = d THEN two.burnt ELSE 0)
    BY <2>2, <1>3, <1>4, ApplyFeaturesFacts, SMTT(60)
  <2> QED
    BY <2>1, <2>3
<1>7. /\ supply \in [Denoms -> Nat]
      /\ \A e \in Denoms : supply[e] = Total(balances, e) /\ Total(balances, e) \in Nat
  BY <1>3, TotalType DEF LedgerInv, FTTypeOK, SupplyIsTheSumOfBalances
<1>8. supply' = [e \in Denoms |-> supply'[e]]
  BY <1>4, <1>7 DEF Burnt
<1>9. \A e \in Denoms : supply'[e] = Total(balances', e)
  BY <1>4, <1>5, <1>6, <1>7, SMTT(60) DEF Burnt
<1>10. supply' \in [Denoms -> Nat] /\ SupplyIsTheSumOfBalances'
  BY <1>4, <1>6, <1>8, <1>9, SupplyStep
<1>11. FTTypeOK'
  BY <1>3, <1>4, <1>6, <1>10 DEF FTTypeOK, Ledger
<1>12. LockedIsCovered' /\ OnlyUsersHaveLocks'
  BY <1>3, <1>4, <1>6 DEF LockedIsCovered, Covered, OnlyUsersHaveLocks, Users
<1> QED
  BY <1>10, <1>11, <1>12 DEF LedgerInv

\* A step that changes balances and supply only, and leaves what is locked covered.
LEMMA BalancesStep ==
  ASSUME LedgerInv, balances' \in IntLedger,
         \A a \in Accounts, d \in Denoms : dexLocked[a][d] + bankLocked[a][d] <= balances'[a][d],
         supply' = [d \in Denoms |-> supply'[d]],
         \A e \in Denoms : supply'[e] = Total(balances', e),
         UNCHANGED <<bankLocked, frozen, globallyFrozen, whitelisted, dexLocked,
                     dexExpectedToReceive, dexSettings>>,
         definitions' \in [Denoms -> Definition \cup {NoDefinition}]
  PROVE  LedgerInv'
<1>1. balances' \in Ledger
  BY DEF Ledger, IntLedger, LedgerInv, FTTypeOK
<1>2. supply' \in [Denoms -> Nat] /\ SupplyIsTheSumOfBalances'
  BY <1>1, SupplyStep
<1>3. FTTypeOK'
  BY <1>1, <1>2 DEF FTTypeOK, Ledger, LedgerInv
<1>4. LockedIsCovered' /\ OnlyUsersHaveLocks'
  BY DEF LockedIsCovered, OnlyUsersHaveLocks, Users, LedgerInv
<1> QED
  BY <1>2, <1>3, <1>4 DEF LedgerInv

\* What the invariant says of the state a step starts from.
LEMMA LedgerFacts ==
  ASSUME LedgerInv
  PROVE  /\ balances \in Ledger /\ balances \in IntLedger
         /\ supply \in [Denoms -> Nat]
         /\ \A a \in Accounts, d \in Denoms :
               /\ balances[a][d] \in Nat /\ dexLocked[a][d] \in Nat /\ bankLocked[a][d] \in Nat
               /\ dexLocked[a][d] + bankLocked[a][d] <= balances[a][d]
         /\ \A d \in Denoms : supply[d] = Total(balances, d) /\ Total(balances, d) \in Nat
<1>1. balances \in Ledger /\ balances \in IntLedger
  BY DEF LedgerInv, FTTypeOK, Ledger, IntLedger
<1> QED
  BY <1>1, TotalType DEF LedgerInv, FTTypeOK, LockedIsCovered, SupplyIsTheSumOfBalances

\* The invariant, one entry of the ledger at a time.
LEMMA EntryFacts ==
  ASSUME LedgerInv, NEW a \in Accounts, NEW d \in Denoms
  PROVE  /\ balances[a][d] \in Nat /\ dexLocked[a][d] \in Nat /\ bankLocked[a][d] \in Nat
         /\ dexLocked[a][d] + bankLocked[a][d] <= balances[a][d]
BY LedgerFacts

\* The ledger as a whole, and the sums.
LEMMA SumFacts ==
  ASSUME LedgerInv
  PROVE  /\ balances \in IntLedger
         /\ supply \in [Denoms -> Nat]
         /\ \A d \in Denoms : supply[d] = Total(balances, d) /\ Total(balances, d) \in Nat
BY LedgerFacts

\* The amounts of messages.
LEMMA AmountFacts ==
  ASSUME NEW amt \in Amounts
  PROVE  amt \in Nat /\ amt \in Int
BY AmountsAssumption

\* What stays after an amount that is not locked has left.
LEMMA RestCovers ==
  ASSUME NEW balance \in Nat, NEW locked \in Nat, NEW vesting \in Nat, NEW amt \in Nat,
         balance - locked - vesting >= amt
  PROVE  locked + vesting <= balance - amt
OBVIOUS

\* Delegations may use vesting coins, and lower what vesting keeps locked by as much.
LEMMA DelegateCoinsStep ==
  ASSUME LedgerInv, NEW a \in Users, NEW amt \in Amounts, DelegateCoins(a, amt)
  PROVE  LedgerInv'
<1> DEFINE vesting == IF bankLocked[a][BondDenom] < amt THEN bankLocked[a][BondDenom] ELSE amt
<1>1. /\ a \in Accounts /\ BondedPool \in Accounts /\ a # BondedPool /\ BondDenom \in Denoms
      /\ amt \in Nat /\ amt \in Int
  BY AccountsAssumption, AmountsAssumption DEF Users
<1>2. /\ balances[a][BondDenom] - dexLocked[a][BondDenom] >= amt
      /\ balances' = Move(balances, a, BondedPool, BondDenom, amt)
      /\ bankLocked' = [bankLocked EXCEPT ![a][BondDenom] = @ - vesting]
      /\ UNCHANGED <<supply, definitions, frozen, globallyFrozen, whitelisted, dexLocked,
                     dexExpectedToReceive, dexSettings>>
  BY DEF DelegateCoins, CanDelegate
<1>3. /\ balances' \in IntLedger
      /\ \A x \in Accounts, e \in Denoms :
            balances'[x][e] = balances[x][e] - (IF x = a /\ e = BondDenom THEN amt ELSE 0)
                                 + (IF x = BondedPool /\ e = BondDenom THEN amt ELSE 0)
      /\ \A e \in Denoms : Total(balances', e) = Total(balances, e)
  <2>1. balances \in IntLedger
    BY SumFacts
  <2>2. PICK c : c = Move(balances, a, BondedPool, BondDenom, amt)
    OBVIOUS
  <2>3. /\ c \in IntLedger
        /\ \A x \in Accounts, e \in Denoms :
              c[x][e] = balances[x][e] - (IF x = a /\ e = BondDenom THEN amt ELSE 0)
                                 + (IF x = BondedPool /\ e = BondDenom THEN amt ELSE 0)
        /\ \A e \in Denoms : Total(c, e) = Total(balances, e)
    BY <2>1, <2>2, <1>1, MoveFacts, SMTT(60)
  <2>4. balances' = c
    BY <1>2, <2>2
  <2> QED
    BY <2>3, <2>4
<1>4. vesting \in Nat /\ vesting <= bankLocked[a][BondDenom] /\ vesting <= amt
      /\ (vesting = amt \/ vesting = bankLocked[a][BondDenom])
  BY <1>1, EntryFacts, SMTT(60)
<1>5. /\ bankLocked \in Ledger /\ bankLocked' \in Ledger
      /\ \A x \in Accounts, e \in Denoms :
            bankLocked'[x][e] = bankLocked[x][e] - (IF x = a /\ e = BondDenom THEN vesting ELSE 0)
  <2> HIDE DEF vesting
  <2>1. bankLocked \in Ledger
    BY DEF LedgerInv, FTTypeOK, Ledger
  <2> QED
    BY <2>1, <1>1, <1>2, <1>4, SMTT(60) DEF Ledger
<1> HIDE DEF vesting
<1>6. ASSUME NEW x \in Accounts, NEW e \in Denoms
      PROVE  /\ balances'[x][e] \in Nat
             /\ dexLocked'[x][e] + bankLocked'[x][e] <= balances'[x][e]
  <2>1. /\ balances[x][e] \in Nat /\ dexLocked[x][e] \in Nat /\ bankLocked[x][e] \in Nat
        /\ dexLocked[x][e] + bankLocked[x][e] <= balances[x][e] /\ dexLocked'[x][e] = dexLocked[x][e]
    BY <1>2, EntryFacts
  <2>2. CASE x = a /\ e = BondDenom
    <3>1. balances'[x][e] = balances[x][e] - amt
      BY <2>1, <2>2, <1>1, <1>3, SMTT(60)
    <3>2. bankLocked'[x][e] = bankLocked[x][e] - vesting
      BY <2>2, <1>5
    <3>3. balances[x][e] - dexLocked[x][e] >= amt
      BY <2>2, <1>2
    <3>4. /\ amt \in Nat /\ vesting \in Nat /\ vesting <= amt
          /\ (vesting = amt \/ vesting = bankLocked[x][e])
      BY <2>2, <1>1, <1>4
    <3>5. dexLocked[x][e] + (bankLocked[x][e] - vesting) <= balances[x][e] - amt
      BY <2>1, <3>3, <3>4, SMTT(60)
    <3> QED
      BY <2>1, <3>1, <3>2, <3>3, <3>4, <3>5
  <2>3. CASE ~ (x = a /\ e = BondDenom)
    <3>1. bankLocked'[x][e] = bankLocked[x][e]
      BY <2>1, <2>3, <1>5, SMTT(60)
    <3>2. \/ balances'[x][e] = balances[x][e]
          \/ balances'[x][e] = balances[x][e] + amt
      BY <2>1, <2>3, <1>1, <1>3, SMTT(60)
    <3> QED
      BY <2>1, <3>1, <3>2, <1>1, SMTT(60)
  <2> QED
    BY <2>2, <2>3
<1>7. balances' \in Ledger
  BY <1>3, <1>6 DEF Ledger, IntLedger
<1>8. FTTypeOK'
  BY <1>2, <1>5, <1>7 DEF FTTypeOK, Ledger, LedgerInv
<1>9. LockedIsCovered' /\ OnlyUsersHaveLocks' /\ SupplyIsTheSumOfBalances'
  BY <1>2, <1>3, <1>6
     DEF LockedIsCovered, OnlyUsersHaveLocks, Users, SupplyIsTheSumOfBalances, LedgerInv
<1> QED
  BY <1>8, <1>9 DEF LedgerInv

\* Vesting only lowers what is locked.
LEMMA VestStep ==
  ASSUME LedgerInv, NEW a \in Users, NEW d \in Denoms, Vest(a, d)
  PROVE  LedgerInv'
<1>1. a \in Accounts
  BY DEF Users
<1>2. /\ bankLocked' \in [Accounts -> [Denoms -> Nat]]
      /\ \A x \in Accounts, e \in Denoms : bankLocked'[x][e] <= bankLocked[x][e]
  BY <1>1 DEF Vest, LedgerInv, FTTypeOK
<1>3. FTTypeOK'
  BY <1>2 DEF Vest, LedgerInv, FTTypeOK
<1>4. LockedIsCovered'
  <2>1. dexLocked' = dexLocked /\ balances' = balances
    BY DEF Vest
  <2>2. ASSUME NEW x \in Accounts, NEW e \in Denoms
        PROVE  dexLocked[x][e] + bankLocked'[x][e] <= balances[x][e]
    <3>1. bankLocked'[x][e] \in Nat /\ bankLocked'[x][e] <= bankLocked[x][e]
      BY <1>2
    <3> QED
      BY <3>1, EntryFacts, SMTT(60)
  <2> QED
    BY <2>1, <2>2 DEF LockedIsCovered
<1>5. OnlyUsersHaveLocks' /\ SupplyIsTheSumOfBalances'
  BY DEF Vest, OnlyUsersHaveLocks, Users, SupplyIsTheSumOfBalances, LedgerInv
<1> QED
  BY <1>3, <1>4, <1>5 DEF LedgerInv

\* Issuing burns the fee in the bond denom and mints the new token.
LEMMA IssueStep ==
  ASSUME LedgerInv, NEW d \in Denoms, NEW amt \in Amounts, Issue(d, amt)
  PROVE  LedgerInv'
<1> DEFINE def == Issuable[d]
<1>1. PICK issuer : issuer = def.issuer
  OBVIOUS
<1>2. def \in Definition /\ issuer \in Accounts /\ d # BondDenom /\ BondDenom \in Denoms
      /\ amt \in Nat /\ amt \in Int /\ IssueFee \in Nat /\ IssueFee \in Int
  <2>1. def \in Definition
    BY DefinitionsAssumption DEF Issue
  <2>2. d # BondDenom
    BY DefinitionsAssumption DEF Issue
  <2> QED
    BY <1>1, <2>1, <2>2, AmountsAssumption DEF Definition
<1>3. PICK paid : paid = Take(balances, issuer, BondDenom, IssueFee)
  OBVIOUS
<1>4. PICK given : given = Give(paid, issuer, d, amt)
  OBVIOUS
<1>5. /\ IssueFee > 0 => NotLockedByDEXAndBank(balances, issuer, BondDenom, IssueFee)
      /\ definitions' = [definitions EXCEPT ![d] = [def EXCEPT !.admin = def.issuer]]
      /\ balances' = given
      /\ supply' = [Burnt(BondDenom, IssueFee) EXCEPT ![d] = @ + amt]
      /\ UNCHANGED <<bankLocked, frozen, globallyFrozen, whitelisted, dexLocked,
                     dexExpectedToReceive, dexSettings>>
  BY <1>1, <1>3, <1>4 DEF Issue, Give
<1>6. /\ supply \in [Denoms -> Nat]
      /\ \A e \in Denoms : supply[e] = Total(balances, e) /\ Total(balances, e) \in Nat
  BY SumFacts
<1>13. /\ balances \in IntLedger
       /\ issuer \in Accounts /\ BondDenom \in Denoms /\ IssueFee \in Int /\ amt \in Int
  BY <1>2, SumFacts
<1>7. /\ paid \in IntLedger
      /\ \A x \in Accounts, e \in Denoms :
            paid[x][e] = balances[x][e] - (IF x = issuer /\ e = BondDenom THEN IssueFee ELSE 0)
      /\ \A e \in Denoms : Total(paid, e)
                             = Total(balances, e) - (IF e = BondDenom THEN IssueFee ELSE 0)
  <2>1. PICK fee \in Int : fee = IssueFee
    BY <1>13
  <2>2. PICK bond \in Denoms : bond = BondDenom
    BY <1>13
  <2>3. paid = Take(balances, issuer, bond, fee)
    BY <1>3, <2>1, <2>2
  <2>4. /\ paid \in IntLedger
        /\ \A x \in Accounts, e \in Denoms :
              paid[x][e] = balances[x][e] - (IF x = issuer /\ e = bond THEN fee ELSE 0)
        /\ \A e \in Denoms : Total(paid, e) = Total(balances, e) - (IF e = bond THEN fee ELSE 0)
    <3>1. balances \in IntLedger /\ issuer \in Accounts
      BY <1>13
    <3> QED
      BY <3>1, <2>3, TakeFacts, SMTT(60)
  <2> QED
    BY <2>1, <2>2, <2>4
<1>8. /\ given \in IntLedger
      /\ \A x \in Accounts, e \in Denoms :
            given[x][e] = paid[x][e] + (IF x = issuer /\ e = d THEN amt ELSE 0)
      /\ \A e \in Denoms : Total(given, e) = Total(paid, e) + (IF e = d THEN amt ELSE 0)
  <2>1. paid \in IntLedger /\ issuer \in Accounts /\ amt \in Int
    BY <1>7, <1>13
  <2> QED
    BY <1>4, <2>1, AddFacts, SMTT(60)
<1>9. ASSUME NEW x \in Accounts, NEW e \in Denoms
      PROVE  dexLocked[x][e] + bankLocked[x][e] <= given[x][e]
  <2>1. /\ balances[x][e] \in Nat /\ dexLocked[x][e] \in Nat /\ bankLocked[x][e] \in Nat
        /\ dexLocked[x][e] + bankLocked[x][e] <= balances[x][e]
    BY EntryFacts
  <2>2. CASE x = issuer /\ e = BondDenom
    <3>1. given[x][e] = balances[x][e] - IssueFee
      BY <2>1, <2>2, <1>2, <1>7, <1>8, SMTT(60)
    <3>2. IssueFee > 0 => balances[x][e] - dexLocked[x][e] - bankLocked[x][e] >= IssueFee
      BY <2>2, <1>5 DEF NotLockedByDEXAndBank
    <3> QED
      BY <2>1, <3>1, <3>2, <1>2, SMTT(60)
  <2>3. CASE ~ (x = issuer /\ e = BondDenom)
    <3>1. given[x][e] = balances[x][e] \/ given[x][e] = balances[x][e] + amt
      BY <2>1, <2>3, <1>7, <1>8, SMTT(60)
    <3> QED
      BY <2>1, <3>1, <1>2, SMTT(60)
  <2> QED
    BY <2>2, <2>3
<1>10. definitions' \in [Denoms -> Definition \cup {NoDefinition}]
  <2>1. [def EXCEPT !.admin = def.issuer] \in Definition
    BY <1>2 DEF Definition
  <2> HIDE DEF def
  <2> QED
    BY <2>1, <1>5 DEF LedgerInv, FTTypeOK
<1>11. \A e \in Denoms : supply'[e] = Total(balances', e)
  BY <1>2, <1>5, <1>6, <1>7, <1>8 DEF Burnt
<1>12. supply' = [e \in Denoms |-> supply'[e]]
  BY <1>5, <1>6 DEF Burnt
<1> HIDE DEF def
<1> QED
  BY <1>5, <1>8, <1>9, <1>10, <1>11, <1>12, BalancesStep

\* Minting adds to one account and to the supply.
LEMMA MintStep ==
  ASSUME LedgerInv, NEW s \in Users, NEW r \in Accounts, NEW d \in Denoms, NEW amt \in Amounts,
         Mint(s, r, d, amt)
  PROVE  LedgerInv'
<1>1. PICK given : given = Give(balances, r, d, amt)
  OBVIOUS
<1>2. /\ balances' = given
      /\ supply' = [supply EXCEPT ![d] = @ + amt]
      /\ UNCHANGED <<bankLocked, definitions, frozen, globallyFrozen, whitelisted, dexLocked,
                     dexExpectedToReceive, dexSettings>>
  BY <1>1 DEF Mint, Give
<1>3. balances \in IntLedger /\ amt \in Nat /\ amt \in Int
  BY SumFacts, AmountFacts
<1>8. /\ supply \in [Denoms -> Nat]
      /\ \A e \in Denoms : supply[e] = Total(balances, e) /\ Total(balances, e) \in Nat
  BY SumFacts
<1>4. /\ given \in IntLedger
      /\ \A x \in Accounts, e \in Denoms :
            given[x][e] = balances[x][e] + (IF x = r /\ e = d THEN amt ELSE 0)
      /\ \A e \in Denoms : Total(given, e) = Total(balances, e) + (IF e = d THEN amt ELSE 0)
  BY <1>1, <1>3, AddFacts, SMTT(60)
<1>5. ASSUME NEW x \in Accounts, NEW e \in Denoms
      PROVE  dexLocked[x][e] + bankLocked[x][e] <= given[x][e]
  <2>1. given[x][e] = balances[x][e] + (IF x = r /\ e = d THEN amt ELSE 0)
    BY <1>4
  <2> QED
    BY <2>1, <1>3, EntryFacts, SMTT(60)
<1>6. /\ supply' = [e \in Denoms |-> supply'[e]]
      /\ \A e \in Denoms : supply'[e] = Total(balances', e)
  <2>1. supply' = [e \in Denoms |-> supply'[e]]
    BY <1>2, <1>8
  <2>2. \A e \in Denoms : supply'[e] = Total(balances', e)
    BY <1>2, <1>3, <1>4, <1>8, SMTT(60)
  <2> QED
    BY <2>1, <2>2
<1>7. definitions' \in [Denoms -> Definition \cup {NoDefinition}]
  BY <1>2 DEF LedgerInv, FTTypeOK
<1> QED
  BY <1>2, <1>4, <1>5, <1>6, <1>7, BalancesStep

\* Burning takes spendable coins only.
LEMMA BurnStep ==
  ASSUME LedgerInv, NEW s \in Users, NEW d \in Denoms, NEW amt \in Amounts, Burn(s, d, amt)
  PROVE  LedgerInv'
<1>1. PICK left : left = Take(balances, s, d, amt)
  OBVIOUS
<1>2. /\ NotLockedByDEXAndBank(balances, s, d, amt)
      /\ balances' = left
      /\ supply' = Burnt(d, amt)
      /\ UNCHANGED <<bankLocked, definitions, frozen, globallyFrozen, whitelisted, dexLocked,
                     dexExpectedToReceive, dexSettings>>
  BY <1>1 DEF Burn, ValidateCoinSpendable, Direct, IsRefund
<1>3. balances \in IntLedger /\ amt \in Nat /\ amt \in Int /\ s \in Accounts
  BY SumFacts, AmountFacts DEF Users
<1>8. /\ supply \in [Denoms -> Nat]
      /\ \A e \in Denoms : supply[e] = Total(balances, e) /\ Total(balances, e) \in Nat
  BY SumFacts
<1>4. /\ left \in IntLedger
      /\ \A x \in Accounts, e \in Denoms :
            left[x][e] = balances[x][e] - (IF x = s /\ e = d THEN amt ELSE 0)
      /\ \A e \in Denoms : Total(left, e) = Total(balances, e) - (IF e = d THEN amt ELSE 0)
  <2>1. PICK b \in IntLedger : b = balances
    BY <1>3
  <2>2. PICK n \in Int : n = amt
    BY <1>3
  <2>3. left = Take(b, s, d, n) /\ s \in Accounts
    BY <1>1, <1>3, <2>1, <2>2
  <2>4. /\ left \in IntLedger
        /\ \A x \in Accounts, e \in Denoms : left[x][e] = b[x][e] - (IF x = s /\ e = d THEN n ELSE 0)
        /\ \A e \in Denoms : Total(left, e) = Total(b, e) - (IF e = d THEN n ELSE 0)
    BY <2>3, TakeFacts, SMTT(60)
  <2> QED
    BY <2>1, <2>2, <2>4
<1>5. \A x \in Accounts, e \in Denoms : dexLocked[x][e] + bankLocked[x][e] <= left[x][e]
  <2>1. dexLocked[s][d] + bankLocked[s][d] <= balances[s][d] - amt
    <3>1. balances[s][d] - dexLocked[s][d] - bankLocked[s][d] >= amt
      BY <1>2 DEF NotLockedByDEXAndBank
    <3>2. balances[s][d] \in Nat /\ dexLocked[s][d] \in Nat /\ bankLocked[s][d] \in Nat
      BY <1>3, EntryFacts
    <3> QED
      BY <3>1, <3>2, <1>3, RestCovers
  <2> SUFFICES ASSUME NEW x \in Accounts, NEW e \in Denoms
               PROVE  dexLocked[x][e] + bankLocked[x][e] <= left[x][e]
    OBVIOUS
  <2>2. CASE x = s /\ e = d
    <3>1. left[x][e] = balances[s][d] - amt
      BY <1>4, <2>2
    <3> QED
      BY <2>1, <2>2, <3>1
  <2>3. CASE ~(x = s /\ e = d)
    <3>1. left[x][e] = balances[x][e] - 0
      BY <1>4, <2>3
    <3> QED
      BY <3>1, EntryFacts, SMTT(60)
  <2> QED
    BY <2>2, <2>3
<1>6. /\ supply' = [e \in Denoms |-> supply'[e]]
      /\ \A e \in Denoms : supply'[e] = Total(balances', e)
  <2>1. supply' = [e \in Denoms |-> supply'[e]]
    BY <1>2, <1>8 DEF Burnt
  <2>2. \A e \in Denoms : supply'[e] = Total(balances', e)
    BY <1>2, <1>3, <1>4, <1>8, SMTT(60) DEF Burnt
  <2> QED
    BY <2>1, <2>2
<1>7. definitions' \in [Denoms -> Definition \cup {NoDefinition}]
  BY <1>2 DEF LedgerInv, FTTypeOK
<1> QED
  BY <1>2, <1>4, <1>5, <1>6, <1>7, BalancesStep

\* A clawback takes coins that neither the DEX nor vesting keeps locked.
LEMMA ClawbackKeeps ==
  ASSUME LedgerInv, NEW s \in Users, NEW a \in Accounts, NEW d \in Denoms, NEW amt \in Amounts,
         Clawback(s, a, d, amt)
  PROVE  LedgerInv'
<1>1. PICK moved : moved = Move(balances, a, s, d, amt)
  OBVIOUS
<1>2. /\ NotLockedByDEXAndBank(balances, a, d, amt)
      /\ balances' = moved
      /\ UNCHANGED <<supply, bankLocked, definitions, frozen, globallyFrozen, whitelisted, dexLocked,
                     dexExpectedToReceive, dexSettings>>
  BY <1>1 DEF Clawback
<1>3. balances \in IntLedger /\ amt \in Nat /\ amt \in Int /\ s \in Accounts
  BY SumFacts, AmountFacts DEF Users
<1>8. /\ supply \in [Denoms -> Nat]
      /\ \A e \in Denoms : supply[e] = Total(balances, e) /\ Total(balances, e) \in Nat
  BY SumFacts
<1>4. /\ moved \in IntLedger
      /\ \A x \in Accounts, e \in Denoms :
            moved[x][e] = balances[x][e] - (IF x = a /\ e = d THEN amt ELSE 0)
                                         + (IF x = s /\ e = d THEN amt ELSE 0)
      /\ \A e \in Denoms : Total(moved, e) = Total(balances, e)
  BY <1>1, <1>3, MoveFacts, SMTT(60)
<1>5. ASSUME NEW x \in Accounts, NEW e \in Denoms
      PROVE  dexLocked[x][e] + bankLocked[x][e] <= moved[x][e]
  <2>1. /\ balances[x][e] \in Nat /\ dexLocked[x][e] \in Nat /\ bankLocked[x][e] \in Nat
        /\ dexLocked[x][e] + bankLocked[x][e] <= balances[x][e]
    BY EntryFacts
  <2>2. CASE x = a /\ e = d
    <3>1. balances[x][e] - dexLocked[x][e] - bankLocked[x][e] >= amt
      BY <1>2, <2>2 DEF NotLockedByDEXAndBank
    <3>2. dexLocked[x][e] + bankLocked[x][e] <= balances[x][e] - amt
      BY <3>1, <2>1, <1>3, RestCovers
    <3>3. moved[x][e] = balances[x][e] - amt + (IF x = s THEN amt ELSE 0)
      BY <1>4, <2>2
    <3> QED
      BY <3>2, <3>3, <2>1, <1>3, SMTT(60)
  <2>3. CASE ~(x = a /\ e = d)
    <3>1. moved[x][e] = balances[x][e] - 0 + (IF x = s /\ e = d THEN amt ELSE 0)
      BY <1>4, <2>3
    <3> QED
      BY <3>1, <2>1, <1>3, SMTT(60)
  <2> QED
    BY <2>2, <2>3
<1>6. /\ supply' = [e \in Denoms |-> supply'[e]]
      /\ \A e \in Denoms : supply'[e] = Total(balances', e)
  <2>1. supply' = [e \in Denoms |-> supply'[e]]
    BY <1>2, <1>8
  <2>2. \A e \in Denoms : supply'[e] = Total(balances', e)
    BY <1>2, <1>3, <1>4, <1>8
  <2> QED
    BY <2>1, <2>2
<1>7. definitions' \in [Denoms -> Definition \cup {NoDefinition}]
  BY <1>2 DEF LedgerInv, FTTypeOK
<1> QED
  BY <1>2, <1>4, <1>5, <1>6, <1>7, BalancesStep

\* A step that leaves balances, supply and locks alone keeps the invariant if it keeps the types.
LEMMA UntouchedLedger ==
  ASSUME LedgerInv, FTTypeOK', UNCHANGED <<balances, supply, bankLocked, dexLocked>>
  PROVE  LedgerInv'
BY DEF LedgerInv, LockedIsCovered, SupplyIsTheSumOfBalances, OnlyUsersHaveLocks, Users

\* Freezing, whitelisting and the administration of a token.
LEMMA ControlStep ==
  ASSUME LedgerInv, ControlNext
  PROVE  LedgerInv'
<1>1. PICK s \in Users, d \in Denoms :
        \/ \E a \in Accounts, amt \in Amounts :
               \/ Freeze(s, a, d, amt)
               \/ Unfreeze(s, a, d, amt)
               \/ SetFrozen(s, a, d, amt)
               \/ SetWhitelistedBalance(s, a, d, amt)
        \/ GloballyFreeze(s, d)
        \/ GloballyUnfreeze(s, d)
        \/ \E a \in Accounts : TransferAdmin(s, a, d)
        \/ ClearAdmin(s, d)
  BY DEF ControlNext
<1>2. FTTypeOK
  BY DEF LedgerInv
<1>3. ASSUME NEW a \in Accounts, NEW amt \in Nat, FrozenBecomes(a, d, amt)
      PROVE  LedgerInv'
  <2>1. FTTypeOK'
    BY <1>2, <1>3 DEF FrozenBecomes, FTTypeOK
  <2> QED
    BY <1>3, <2>1, UntouchedLedger DEF FrozenBecomes
<1>4. ASSUME NEW a \in Accounts, NEW amt \in Amounts, Freeze(s, a, d, amt)
      PROVE  LedgerInv'
  <2>1. frozen[a][d] + amt \in Nat
    BY <1>2, AmountsAssumption DEF FTTypeOK
  <2> QED
    BY <1>3, <1>4, <2>1 DEF Freeze
<1>5. ASSUME NEW a \in Accounts, NEW amt \in Amounts, Unfreeze(s, a, d, amt)
      PROVE  LedgerInv'
  <2>1. frozen[a][d] - amt \in Nat
    BY <1>2, <1>5, AmountsAssumption DEF FTTypeOK, Unfreeze
  <2> QED
    BY <1>3, <1>5, <2>1 DEF Unfreeze
<1>6. ASSUME NEW a \in Accounts, NEW amt \in Amounts, SetFrozen(s, a, d, amt)
      PROVE  LedgerInv'
  BY <1>3, <1>6, AmountsAssumption DEF SetFrozen
<1>7. ASSUME NEW a \in Accounts, NEW amt \in Amounts, SetWhitelistedBalance(s, a, d, amt)
      PROVE  LedgerInv'
  <2>1. FTTypeOK'
    BY <1>2, <1>7, AmountsAssumption DEF SetWhitelistedBalance, FTTypeOK
  <2> QED
    BY <1>7, <2>1, UntouchedLedger DEF SetWhitelistedBalance
<1>8. CASE GloballyFreeze(s, d) \/ GloballyUnfreeze(s, d)
  <2>1. FTTypeOK'
    BY <1>2, <1>8 DEF GloballyFreeze, GloballyUnfreeze, SetGlobalFreeze, FTTypeOK
  <2> QED
    BY <1>8, <2>1, UntouchedLedger DEF GloballyFreeze, GloballyUnfreeze, SetGlobalFreeze
<1>9. ASSUME NEW def \in Definition, DefinitionBecomes(d, def)
      PROVE  LedgerInv'
  <2>1. FTTypeOK'
    BY <1>2, <1>9 DEF DefinitionBecomes, FTTypeOK
  <2> QED
    BY <1>9, <2>1, UntouchedLedger DEF DefinitionBecomes
<1>10. ASSUME NEW a \in Accounts, TransferAdmin(s, a, d)
       PROVE  LedgerInv'
  <2>1. definitions[d] \in Definition
    BY <1>2, <1>10 DEF FTTypeOK, TransferAdmin, HasDefinition
  <2>2. [definitions[d] EXCEPT !.admin = a] \in Definition
    BY <2>1 DEF Definition
  <2> QED
    BY <1>9, <1>10, <2>2 DEF TransferAdmin
<1>11. CASE ClearAdmin(s, d)
  <2>1. definitions[d] \in Definition
    BY <1>2, <1>11 DEF FTTypeOK, ClearAdmin, HasDefinition
  <2>2. [definitions[d] EXCEPT !.admin = NoAdmin, !.commissionRate = 0] \in Definition
    BY <2>1 DEF Definition
  <2> QED
    BY <1>9, <1>11, <2>2 DEF ClearAdmin
<1> QED
  BY <1>1, <1>4, <1>5, <1>6, <1>7, <1>8, <1>10, <1>11

\* The DEX settings of a token.
LEMMA SettingsStep ==
  ASSUME LedgerInv, SettingsNext
  PROVE  LedgerInv'
<1>1. PICK d \in Denoms :
        \/ \E s \in Users, denoms \in SUBSET Denoms : UpdateDEXWhitelistedDenoms(s, d, denoms)
        \/ \E s \in Users, amt \in Amounts : UpdateDEXUnifiedRefAmount(s, d, amt)
        \/ \E settings \in [whitelistedDenoms : SUBSET Denoms, unifiedRefAmount : Amounts] :
               GovUpdateDEXSettings(d, settings)
  BY DEF SettingsNext
<1>2. FTTypeOK /\ dexSettings[d] \in Settings
  BY DEF LedgerInv, FTTypeOK
<1>3. ASSUME NEW settings \in Settings, SettingsBecome(d, settings)
      PROVE  LedgerInv'
  <2>1. FTTypeOK'
    BY <1>2, <1>3 DEF SettingsBecome, FTTypeOK
  <2> QED
    BY <1>3, <2>1, UntouchedLedger DEF SettingsBecome
<1>4. ASSUME NEW s \in Users, NEW denoms \in SUBSET Denoms, UpdateDEXWhitelistedDenoms(s, d, denoms)
      PROVE  LedgerInv'
  <2>1. [dexSettings[d] EXCEPT !.whitelistedDenoms = denoms] \in Settings
    BY <1>2 DEF Settings
  <2> QED
    BY <1>3, <1>4, <2>1 DEF UpdateDEXWhitelistedDenoms
<1>5. ASSUME NEW s \in Users, NEW amt \in Amounts, UpdateDEXUnifiedRefAmount(s, d, amt)
      PROVE  LedgerInv'
  <2>1. [dexSettings[d] EXCEPT !.unifiedRefAmount = amt] \in Settings
    BY <1>2, AmountsAssumption DEF Settings
  <2> QED
    BY <1>3, <1>5, <2>1 DEF UpdateDEXUnifiedRefAmount
<1>6. ASSUME NEW settings \in [whitelistedDenoms : SUBSET Denoms, unifiedRefAmount : Amounts],
             GovUpdateDEXSettings(d, settings)
      PROVE  LedgerInv'
  <2>1. settings \in Settings
    BY AmountsAssumption DEF Settings
  <2> QED
    BY <1>3, <1>6, <2>1 DEF GovUpdateDEXSettings
<1> QED
  BY <1>1, <1>4, <1>5, <1>6

\* The DEX raises the locked amount of a user only by what is free.
LEMMA LimitsStep ==
  ASSUME LedgerInv, LimitsNext
  PROVE  LedgerInv'
<1>1. PICK a \in Users, d \in Denoms, amt \in Amounts :
        \/ DEXIncreaseLocked(a, d, amt)
        \/ DEXDecreaseLocked(a, d, amt)
        \/ DEXIncreaseExpectedToReceive(a, d, amt)
        \/ DEXDecreaseExpectedToReceive(a, d, amt)
  BY DEF LimitsNext
<1>2. FTTypeOK /\ a \in Accounts /\ amt \in Nat
  BY <1>1, AmountsAssumption DEF LedgerInv, Users
<1>3. CASE DEXIncreaseExpectedToReceive(a, d, amt) \/ DEXDecreaseExpectedToReceive(a, d, amt)
  <2>1. FTTypeOK'
    <3>1. CASE DEXIncreaseExpectedToReceive(a, d, amt)
      BY <1>2, <3>1, SMTT(60) DEF DEXIncreaseExpectedToReceive, LimitsBecome, FTTypeOK
    <3>2. CASE DEXDecreaseExpectedToReceive(a, d, amt)
      <4>1. dexExpectedToReceive[a][d] - amt \in Nat
        BY <1>2, <3>2 DEF DEXDecreaseExpectedToReceive, FTTypeOK
      <4> QED
        BY <1>2, <3>2, <4>1 DEF DEXDecreaseExpectedToReceive, LimitsBecome, FTTypeOK
    <3> QED
      BY <1>3, <3>1, <3>2
  <2>2. UNCHANGED <<balances, supply, bankLocked, dexLocked>>
    BY <1>3 DEF DEXIncreaseExpectedToReceive, DEXDecreaseExpectedToReceive, LimitsBecome
  <2> QED
    BY <2>1, <2>2, UntouchedLedger
<1>4. CASE DEXIncreaseLocked(a, d, amt) \/ DEXDecreaseLocked(a, d, amt)
  <2>1. /\ FTTypeOK'
        /\ UNCHANGED <<balances, supply, bankLocked>>
    <3>1. CASE DEXIncreaseLocked(a, d, amt)
      BY <1>2, <3>1, SMTT(60) DEF DEXIncreaseLocked, LimitsBecome, FTTypeOK
    <3>2. CASE DEXDecreaseLocked(a, d, amt)
      <4>1. dexLocked[a][d] - amt \in Nat
        BY <1>2, <3>2 DEF DEXDecreaseLocked, FTTypeOK
      <4> QED
        BY <1>2, <3>2, <4>1 DEF DEXDecreaseLocked, LimitsBecome, FTTypeOK
    <3> QED
      BY <1>4, <3>1, <3>2
  <2>2. ASSUME NEW x \in Accounts, NEW e \in Denoms
        PROVE  dexLocked'[x][e] + bankLocked'[x][e] <= balances'[x][e]
    <3>1. /\ balances[x][e] \in Nat /\ dexLocked[x][e] \in Nat /\ bankLocked[x][e] \in Nat
          /\ dexLocked[x][e] + bankLocked[x][e] <= balances[x][e]
          /\ dexLocked \in [Accounts -> [Denoms -> Nat]]
      BY <1>2, EntryFacts DEF FTTypeOK
    <3>2. CASE DEXIncreaseLocked(a, d, amt)
      <4>1. /\ dexLocked' = [dexLocked EXCEPT ![a][d] = @ + amt]
            /\ balances' = balances /\ bankLocked' = bankLocked
        BY <2>1, <3>2 DEF DEXIncreaseLocked, LimitsBecome
      <4>2. NotLockedByDEXAndBank(balances, a, d, amt)
        BY <3>2 DEF DEXIncreaseLocked
      <4>3. CASE x = a /\ e = d
        <5>1. dexLocked'[x][e] = dexLocked[x][e] + amt
          BY <3>1, <4>1, <4>3, <1>2
        <5>2. amt <= balances[x][e] - dexLocked[x][e] - bankLocked[x][e]
          BY <3>1, <4>2, <4>3, <1>2 DEF NotLockedByDEXAndBank
        <5> QED
          BY <3>1, <4>1, <5>1, <5>2, <1>2, SMTT(60)
      <4>4. CASE ~(x = a /\ e = d)
        <5>1. dexLocked'[x][e] = dexLocked[x][e]
          BY <3>1, <4>1, <4>4, <1>2
        <5> QED
          BY <3>1, <4>1, <5>1
      <4> QED
        BY <4>3, <4>4
    <3>3. CASE DEXDecreaseLocked(a, d, amt)
      BY <3>1, <3>3, <2>1, <1>2, SMTT(60) DEF DEXDecreaseLocked, LimitsBecome
    <3> QED
      BY <1>4, <3>2, <3>3
  <2>3. OnlyUsersHaveLocks'
    BY <1>2, <1>4
       DEF DEXIncreaseLocked, DEXDecreaseLocked, LimitsBecome, OnlyUsersHaveLocks, Users,
           LedgerInv, FTTypeOK
  <2> QED
    BY <2>1, <2>2, <2>3 DEF LedgerInv, LockedIsCovered, SupplyIsTheSumOfBalances
<1> QED
  BY <1>1, <1>3, <1>4

-----------------------------------------------------------------------------
(* Theorems                                                                *)

\* Every message, the passing of time and every call of the DEX keep the invariant.
LEMMA LedgerStep ==
  ASSUME LedgerInv, [FTNext]_ftVars
  PROVE  LedgerInv'
<1>1. CASE TransferNext
  BY <1>1, SendCoinsStep, InputOutputCoinsStep, DelegateCoinsStep, VestStep DEF TransferNext
<1>2. CASE IssuanceNext
  BY <1>2, IssueStep, MintStep, BurnStep, ClawbackKeeps DEF IssuanceNext
<1>3. CASE ControlNext
  BY <1>3, ControlStep
<1>4. CASE SettingsNext
  BY <1>4, SettingsStep
<1>5. CASE LimitsNext
  BY <1>5, LimitsStep
<1>6. CASE UNCHANGED ftVars
  <2>1. FTTypeOK'
    BY <1>6 DEF ftVars, LedgerInv, FTTypeOK
  <2> QED
    BY <1>6, <2>1, UntouchedLedger DEF ftVars
<1> QED
  BY <1>1, <1>2, <1>3, <1>4, <1>5, <1>6 DEF FTNext, MessagesNext

\* The ledger keeps the inductive invariant.
THEOREM LedgerInvariant == FTSpec => []LedgerInv
<1>1. FTInit => LedgerInv
  BY LedgerInit
<1>2. LedgerInv /\ [FTNext]_ftVars => LedgerInv'
  BY LedgerStep
<1> QED
  BY <1>1, <1>2, PTL DEF FTSpec

\* No balance, supply, frozen amount, limit or lock ever goes negative or leaves its type.
THEOREM TypeCorrect == FTSpec => []FTTypeOK
<1>1. LedgerInv => FTTypeOK
  BY DEF LedgerInv
<1> QED
  BY <1>1, LedgerInvariant, PTL

\* No transfer, fee, burn, clawback or delegation moves coins that the DEX or vesting locks.
THEOREM LockedStaysCovered == FTSpec => []LockedIsCovered
<1>1. LedgerInv => LockedIsCovered
  BY DEF LedgerInv
<1> QED
  BY <1>1, LedgerInvariant, PTL

\* The supply of every denom is the sum of its balances, whatever rates and fees burn.
THEOREM SupplyIsConserved == FTSpec => []SupplyIsTheSumOfBalances
<1>1. LedgerInv => SupplyIsTheSumOfBalances
  BY DEF LedgerInv
<1> QED
  BY <1>1, LedgerInvariant, PTL
=============================================================================
