------------------------------- MODULE SeqSum -------------------------------
(* Sums over an enumeration, as a recursive function so that the provers can   *)
(* reason about them.                                                          *)
EXTENDS Integers

\* f[1] + ... + f[n]
SumTo(f, n) ==
    LET S[i \in 0 .. n] == IF i = 0 THEN 0 ELSE S[i - 1] + f[i]
    IN  S[n]
=============================================================================
