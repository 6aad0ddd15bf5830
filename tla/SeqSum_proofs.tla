---------------------------- MODULE SeqSum_proofs ----------------------------
(***************************************************************************)
(* Facts about SumTo, the sum the bank's supply is compared with. A sum is *)
(* a recursive function, so every fact goes by induction, stated over a    *)
(* set of natural numbers (SetInduction).                                  *)
(***************************************************************************)
EXTENDS SeqSum, TLAPS, NaturalsInduction, WellFoundedInduction

\* A set of natural numbers that holds 0 and is closed under successor is Nat.
LEMMA SetInduction ==
  ASSUME NEW T \in SUBSET Nat, 0 \in T, \A n \in T : n + 1 \in T
  PROVE  T = Nat
<1> DEFINE U == Nat \ T
<1>1. SUFFICES ASSUME U # {} PROVE FALSE
  OBVIOUS
<1>2. IsWellFoundedOn(OpToRel(<, Nat), Nat)
  BY NatLessThanWellFounded
<1>3. PICK x \in U : \A y \in U : ~ (<<y, x>> \in OpToRel(<, Nat))
  BY <1>1, <1>2, WFMin
<1>4. \A y \in U : ~ (y < x)
  BY <1>3 DEF OpToRel
<1>5. x # 0 /\ x - 1 \in Nat /\ x - 1 \in T
  BY <1>4
<1> QED BY <1>5

\* S[i] is the sum of the first i entries of f.
IsPartialSums(S, f, n) == S = [i \in 0 .. n |-> IF i = 0 THEN 0 ELSE S[i - 1] + f[i]]

\* The function of partial sums, which SumTo chooses, exists.
LEMMA PartialSumsExist ==
  ASSUME NEW f, NEW n \in Nat, \A i \in 1 .. n : f[i] \in Int
  PROVE  \E S \in [0 .. n -> Int] : IsPartialSums(S, f, n)
<1> DEFINE T == {m \in Nat : m <= n => \E S \in [0 .. m -> Int] : IsPartialSums(S, f, m)}
<1>1. 0 \in T
  <2> DEFINE S0 == [i \in 0 .. 0 |-> 0]
  <2>1. S0 \in [0 .. 0 -> Int] /\ IsPartialSums(S0, f, 0)
    BY DEF IsPartialSums
  <2> QED BY <2>1
<1>2. ASSUME NEW m \in T PROVE m + 1 \in T
  <2>0. SUFFICES ASSUME m + 1 <= n
                 PROVE  \E S \in [0 .. m + 1 -> Int] : IsPartialSums(S, f, m + 1)
    OBVIOUS
  <2>1. m \in Nat /\ m <= n /\ f[m + 1] \in Int
    BY <2>0
  <2>2. PICK S \in [0 .. m -> Int] : IsPartialSums(S, f, m)
    BY <2>1
  <2> DEFINE R == [i \in 0 .. m + 1 |-> IF i = m + 1 THEN S[m] + f[m + 1] ELSE S[i]]
  <2>3. R \in [0 .. m + 1 -> Int]
    BY <2>1
  <2>4. \A i \in 0 .. m : S[i] = IF i = 0 THEN 0 ELSE S[i - 1] + f[i]
    BY <2>2 DEF IsPartialSums
  <2>5. \A i \in 0 .. m + 1 : R[i] = IF i = 0 THEN 0 ELSE R[i - 1] + f[i]
    <3> TAKE i \in 0 .. m + 1
    <3>1. CASE i = m + 1
      <4>1. R[m + 1] = S[m] + f[m + 1] BY <2>1
      <4>2. R[m] = S[m] BY <2>1
      <4> QED BY <2>1, <3>1, <4>1, <4>2
    <3>2. CASE i \in 0 .. m /\ i # 0
      <4>1. i - 1 \in 0 .. m /\ i # m + 1 /\ i - 1 # m + 1 BY <2>1, <3>2
      <4>2. R[i] = S[i] /\ R[i - 1] = S[i - 1] BY <2>1, <4>1
      <4> QED BY <2>4, <3>2, <4>2
    <3>3. CASE i = 0
      BY <2>1, <2>4, <3>3
    <3> QED BY <2>1, <3>1, <3>2, <3>3
  <2>6. IsPartialSums(R, f, m + 1)
    BY <2>3, <2>5 DEF IsPartialSums
  <2> QED BY <2>1, <2>3, <2>6
<1> HIDE DEF T
<1>3. T = Nat
  <2>1. T \in SUBSET Nat BY DEF T
  <2> QED BY <1>1, <1>2, <2>1, SetInduction
<1> QED BY <1>3 DEF T

\* It is unique: the partial sums of a prefix are those of the whole.
LEMMA PartialSumsUnique ==
  ASSUME NEW f, NEW n \in Nat, \A i \in 1 .. n : f[i] \in Int,
         NEW S \in [0 .. n -> Int], IsPartialSums(S, f, n),
         NEW m \in 0 .. n,
         NEW R \in [0 .. m -> Int], IsPartialSums(R, f, m)
  PROVE  R[m] = S[m]
<1> DEFINE T == {k \in Nat : k \in 0 .. m => R[k] = S[k]}
<1>0. n \in Nat /\ m \in Nat /\ m <= n OBVIOUS
<1>1. \A i \in 0 .. n : S[i] = IF i = 0 THEN 0 ELSE S[i - 1] + f[i]
  BY DEF IsPartialSums
<1>2. \A i \in 0 .. m : R[i] = IF i = 0 THEN 0 ELSE R[i - 1] + f[i]
  BY DEF IsPartialSums
<1>3. 0 \in T
  BY <1>0, <1>1, <1>2
<1>4. ASSUME NEW k \in T PROVE k + 1 \in T
  <2>1. SUFFICES ASSUME k + 1 \in 0 .. m PROVE R[k + 1] = S[k + 1]
    OBVIOUS
  <2>2. k \in Nat /\ k \in 0 .. m /\ k + 1 \in 0 .. n /\ k + 1 # 0 /\ (k + 1) - 1 = k
    BY <1>0, <2>1
  <2>3. R[k] = S[k] BY <2>2
  <2>4. R[k + 1] = R[k] + f[k + 1] BY <1>2, <2>1, <2>2
  <2>5. S[k + 1] = S[k] + f[k + 1] BY <1>1, <2>2
  <2> QED BY <2>3, <2>4, <2>5
<1> HIDE DEF T
<1>5. T = Nat
  <2>1. T \in SUBSET Nat BY DEF T
  <2> QED BY <1>3, <1>4, <2>1, SetInduction
<1> QED BY <1>0, <1>5 DEF T

\* SumTo is the last of the partial sums.
LEMMA SumToDef ==
  ASSUME NEW f, NEW n \in Nat, \A i \in 1 .. n : f[i] \in Int
  PROVE  \E S \in [0 .. n -> Int] : IsPartialSums(S, f, n) /\ SumTo(f, n) = S[n]
<1> DEFINE C == CHOOSE S : S = [i \in 0 .. n |-> IF i = 0 THEN 0 ELSE S[i - 1] + f[i]]
<1>1. PICK S \in [0 .. n -> Int] : IsPartialSums(S, f, n)
  BY PartialSumsExist
<1>2. C = [i \in 0 .. n |-> IF i = 0 THEN 0 ELSE C[i - 1] + f[i]]
  BY <1>1 DEF IsPartialSums
<1>3. SumTo(f, n) = C[n]
  BY DEF SumTo
<1> HIDE DEF C
<1>4. C \in [0 .. n -> Int]
  <2> DEFINE T == {k \in Nat : k <= n => C[k] \in Int}
  <2>1. \A i \in 0 .. n : C[i] = IF i = 0 THEN 0 ELSE C[i - 1] + f[i]
    BY <1>2
  <2>2. 0 \in T
    BY <2>1
  <2>3. ASSUME NEW k \in T PROVE k + 1 \in T
    <3>1. SUFFICES ASSUME k + 1 <= n PROVE C[k + 1] \in Int
      OBVIOUS
    <3>2. k \in Nat /\ k <= n /\ k + 1 \in 1 .. n /\ k + 1 \in 0 .. n /\ k + 1 # 0 /\ (k + 1) - 1 = k
      BY <3>1
    <3>3. C[k] \in Int /\ f[k + 1] \in Int
      BY <3>2
    <3>4. C[k + 1] = C[k] + f[k + 1]
      BY <2>1, <3>2
    <3> QED BY <3>3, <3>4
  <2> HIDE DEF T
  <2>4. T = Nat
    <3>1. T \in SUBSET Nat BY DEF T
    <3> QED BY <2>2, <2>3, <3>1, SetInduction
  <2>5. \A k \in 0 .. n : C[k] \in Int
    BY <2>4 DEF T
  <2>6. C = [i \in 0 .. n |-> C[i]]
    <3>1. C = [i \in DOMAIN C |-> C[i]] /\ DOMAIN C = 0 .. n
      BY <1>2
    <3> QED BY <3>1
  <2> QED BY <2>5, <2>6
<1> QED BY <1>2, <1>3, <1>4 DEF IsPartialSums

\* The sum over no account is zero.
LEMMA SumToZero ==
  ASSUME NEW f
  PROVE  SumTo(f, 0) = 0
<1>0. 0 \in Nat /\ \A i \in 1 .. 0 : f[i] \in Int
  OBVIOUS
<1>1. PICK S \in [0 .. 0 -> Int] : IsPartialSums(S, f, 0) /\ SumTo(f, 0) = S[0]
  BY <1>0, SumToDef
<1> QED BY <1>1 DEF IsPartialSums

\* One more account adds its entry to the sum.
LEMMA SumToStep ==
  ASSUME NEW f, NEW n \in Nat, \A i \in 1 .. n + 1 : f[i] \in Int
  PROVE  /\ SumTo(f, n) \in Int
         /\ SumTo(f, n + 1) = SumTo(f, n) + f[n + 1]
<1>0. n + 1 \in Nat /\ \A i \in 1 .. n : f[i] \in Int
  OBVIOUS
<1>1. PICK R \in [0 .. n -> Int] : IsPartialSums(R, f, n) /\ SumTo(f, n) = R[n]
  BY <1>0, SumToDef
<1>2. PICK S \in [0 .. n + 1 -> Int] : IsPartialSums(S, f, n + 1) /\ SumTo(f, n + 1) = S[n + 1]
  BY <1>0, SumToDef
<1>3. n \in 0 .. n + 1 OBVIOUS
<1>4. R[n] = S[n]
  BY <1>0, <1>1, <1>2, <1>3, PartialSumsUnique
<1>5. S[n + 1] = S[n] + f[n + 1]
  <2>1. \A i \in 0 .. n + 1 : S[i] = IF i = 0 THEN 0 ELSE S[i - 1] + f[i]
    BY <1>2 DEF IsPartialSums
  <2>2. n + 1 \in 0 .. n + 1 /\ n + 1 # 0 /\ (n + 1) - 1 = n
    OBVIOUS
  <2> QED BY <2>1, <2>2
<1> QED BY <1>1, <1>2, <1>4, <1>5

\* A sum of integers is an integer.
LEMMA SumToInt ==
  ASSUME NEW f, NEW n \in Nat, \A i \in 1 .. n : f[i] \in Int
  PROVE  SumTo(f, n) \in Int
<1>1. PICK R \in [0 .. n -> Int] : IsPartialSums(R, f, n) /\ SumTo(f, n) = R[n]
  BY SumToDef
<1> QED BY <1>1

\* Changing one entry, as a balance write of the bank does, changes the sum by as much.
LEMMA SumToUpdate ==
  ASSUME NEW f, NEW g, NEW n \in Nat, NEW k \in 1 .. n,
         \A i \in 1 .. n : f[i] \in Int /\ g[i] \in Int,
         \A i \in 1 .. n : i # k => g[i] = f[i]
  PROVE  SumTo(g, n) = SumTo(f, n) + (g[k] - f[k])
<1> DEFINE Off(m) == IF m < k THEN 0 ELSE g[k] - f[k]
           T == {m \in Nat : m <= n => SumTo(g, m) = SumTo(f, m) + Off(m)}
<1>1. 0 \in T
  BY SumToZero
<1>2. ASSUME NEW m \in T PROVE m + 1 \in T
  <2>1. SUFFICES ASSUME m + 1 <= n
                 PROVE  SumTo(g, m + 1) = SumTo(f, m + 1) + Off(m + 1)
    OBVIOUS
  <2>2. m \in Nat /\ m + 1 \in 1 .. n /\ m <= n /\ 1 .. m + 1 \subseteq 1 .. n
    BY <2>1
  <2>3. SumTo(f, m) \in Int /\ SumTo(f, m + 1) = SumTo(f, m) + f[m + 1]
    BY <2>2, SumToStep
  <2>4. SumTo(g, m) \in Int /\ SumTo(g, m + 1) = SumTo(g, m) + g[m + 1]
    BY <2>2, SumToStep
  <2>5. SumTo(g, m) = SumTo(f, m) + Off(m)
    BY <2>2
  <2>6. f[k] \in Int /\ g[k] \in Int /\ f[m + 1] \in Int /\ g[m + 1] \in Int
    BY <2>2
  <2>7. CASE m + 1 = k
    BY <2>2, <2>3, <2>4, <2>5, <2>6, <2>7
  <2>8. CASE m + 1 # k
    <3>1. g[m + 1] = f[m + 1] BY <2>2, <2>8
    <3>2. Off(m + 1) = Off(m) BY <2>2, <2>8
    <3> HIDE DEF Off
    <3>3. Off(m) \in Int BY <2>6 DEF Off
    <3> QED BY <2>3, <2>4, <2>5, <2>6, <3>1, <3>2, <3>3
  <2> QED BY <2>7, <2>8
<1> HIDE DEF T
<1>3. T = Nat
  <2>1. T \in SUBSET Nat BY DEF T
  <2> QED BY <1>1, <1>2, <2>1, SetInduction
<1>4. SumTo(g, n) = SumTo(f, n) + Off(n)
  BY <1>3 DEF T
<1> QED BY <1>4

\* A sum of natural numbers is one, and no entry is larger: no account holds more than the supply.
LEMMA SumToCovers ==
  ASSUME NEW f, NEW n \in Nat, \A i \in 1 .. n : f[i] \in Nat
  PROVE  /\ SumTo(f, n) \in Nat
         /\ \A k \in 1 .. n : f[k] <= SumTo(f, n)
<1> DEFINE T == {m \in Nat : m <= n => /\ SumTo(f, m) \in Nat
                                       /\ \A k \in 1 .. m : f[k] <= SumTo(f, m)}
<1>1. 0 \in T
  BY SumToZero
<1>2. ASSUME NEW m \in T PROVE m + 1 \in T
  <2>1. SUFFICES ASSUME m + 1 <= n
                 PROVE  /\ SumTo(f, m + 1) \in Nat
                        /\ \A k \in 1 .. m + 1 : f[k] <= SumTo(f, m + 1)
    OBVIOUS
  <2>2. m \in Nat /\ m + 1 \in 1 .. n /\ m <= n /\ 1 .. m + 1 \subseteq 1 .. n
    BY <2>1
  <2>3. SumTo(f, m + 1) = SumTo(f, m) + f[m + 1]
    BY <2>2, SumToStep
  <2>4. SumTo(f, m) \in Nat /\ \A k \in 1 .. m : f[k] <= SumTo(f, m)
    BY <2>2
  <2>5. \A k \in 1 .. m + 1 : f[k] \in Nat /\ (k \in 1 .. m \/ k = m + 1)
    BY <2>2
  <2>6. f[m + 1] \in Nat BY <2>2
  <2> QED BY <2>3, <2>4, <2>5, <2>6
<1> HIDE DEF T
<1>3. T = Nat
  <2>1. T \in SUBSET Nat BY DEF T
  <2> QED BY <1>1, <1>2, <2>1, SetInduction
<1> QED BY <1>3 DEF T

\* The sum of a prefix is at most the sum of the whole.
LEMMA SumToGrows ==
  ASSUME NEW f, NEW n \in Nat, \A i \in 1 .. n : f[i] \in Nat, NEW m \in 0 .. n
  PROVE  SumTo(f, m) \in Nat /\ SumTo(f, n) \in Nat /\ SumTo(f, m) <= SumTo(f, n)
<1> DEFINE T == {k \in Nat : k <= n - m => SumTo(f, m) <= SumTo(f, m + k)}
<1>0. /\ \A j \in 0 .. n : SumTo(f, j) \in Nat
      /\ m \in Nat /\ m + 0 = m
  BY SumToCovers
<1>1. 0 \in T
  BY <1>0
<1>2. ASSUME NEW k \in T PROVE k + 1 \in T
  <2>1. SUFFICES ASSUME k + 1 <= n - m PROVE SumTo(f, m) <= SumTo(f, m + (k + 1))
    OBVIOUS
  <2>2. k \in Nat /\ m + k \in 0 .. n /\ (m + k) + 1 \in 1 .. n /\ m + (k + 1) = (m + k) + 1
    BY <1>0, <2>1
  <2>3. SumTo(f, (m + k) + 1) = SumTo(f, m + k) + f[(m + k) + 1]
    BY <2>2, SumToStep
  <2>4. f[(m + k) + 1] \in Nat /\ SumTo(f, m) <= SumTo(f, m + k)
    BY <2>1, <2>2
  <2>5. SumTo(f, m) \in Nat /\ SumTo(f, m + k) \in Nat
    BY <1>0, <2>2
  <2> QED BY <2>2, <2>3, <2>4, <2>5
<1> HIDE DEF T
<1>3. T = Nat
  <2>1. T \in SUBSET Nat BY DEF T
  <2> QED BY <1>1, <1>2, <2>1, SetInduction
<1>4. n - m \in Nat /\ m + (n - m) = n
  BY <1>0
<1>5. \A k \in Nat : k <= n - m => SumTo(f, m) <= SumTo(f, m + k)
  BY <1>3 DEF T
<1>6. SumTo(f, m) <= SumTo(f, m + (n - m))
  BY <1>4, <1>5
<1> QED BY <1>0, <1>4, <1>6
=============================================================================
