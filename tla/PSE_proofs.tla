------------------------------- MODULE PSE_proofs -------------------------------
(***************************************************************************)
(* The order of payments, for every schedule, set of accounts and message: *)
(* only a distribution takes from clearing accounts, and it takes the      *)
(* earliest due allocation as a whole.                                     *)
(***************************************************************************)
EXTENDS PSE, TLAPS

\* The schedule and the clearing accounts across one step, as PaidInOrder states it.
PaysEarliest ==
    clearing' # clearing =>
        \E t \in DOMAIN schedule :
            /\ t <= time
            /\ \A u \in DOMAIN schedule : t <= u
            /\ DOMAIN schedule' = DOMAIN schedule \ {t}
            /\ \A c \in Clearing : clearing'[c] = clearing[c] - schedule[t][c]

\* Staking, with its hooks, does not touch the clearing accounts.
LEMMA StakingPaysNothing == StakingNext => UNCHANGED clearing
<1>1. ASSUME NEW d, NEW shares, NEW stakes, NEW paid, Restaked(d, shares, stakes, paid)
      PROVE  UNCHANGED clearing
  BY <1>1 DEF Restaked, fundVars
<1>2. ASSUME NEW d, NEW v, NEW amt, Delegate(d, v, amt) PROVE UNCHANGED clearing
  BY <1>1, <1>2, Zenon DEF Delegate
<1>3. ASSUME NEW d, NEW v, NEW amt, Undelegate(d, v, amt) PROVE UNCHANGED clearing
  BY <1>1, <1>3, Zenon DEF Undelegate
<1>4. ASSUME NEW d, NEW v, NEW dst, NEW amt, Redelegate(d, v, dst, amt) PROVE UNCHANGED clearing
  BY <1>1, <1>4, Zenon DEF Redelegate
<1> QED BY <1>2, <1>3, <1>4 DEF StakingNext

\* Neither does governance, also where it replaces the schedule.
LEMMA GovernancePaysNothing == GovNext => UNCHANGED clearing
BY DEF GovNext, UpdateExcludedAddresses, UpdateClearingAccountMappings,
       UpdateDistributionSchedule, DisableDistributions, fundVars

\* At the end of a block the earliest due allocation is paid, or nothing.
LEMMA BlockPaysEarliest == BlockNext => PaysEarliest
<1> SUFFICES ASSUME NEW elapsed, EndBlock(elapsed) PROVE PaysEarliest
  BY DEF BlockNext
<1>1. CASE SkipDistribution
  BY <1>1 DEF SkipDistribution, fundVars, PaysEarliest
<1>2. ASSUME NEW t \in NextDue, NEW paid, DisableAfterFailure(t, paid) PROVE PaysEarliest
  BY <1>2 DEF DisableAfterFailure, fundVars, PaysEarliest
<1>3. ASSUME NEW t \in NextDue, NEW paid, Distribute(t, paid) PROVE PaysEarliest
  <2>1. t \in DOMAIN schedule /\ t <= time /\ \A u \in DOMAIN schedule : t <= u
    BY DEF NextDue, IsDue
  <2>2. clearing' = [c \in Clearing |-> clearing[c] - schedule[t][c]]
    BY <1>3 DEF Distribute
  <2>3. schedule' = [u \in DOMAIN schedule \ {t} |-> schedule[u]]
    BY <1>3 DEF Distribute
  <2> QED BY <2>1, <2>2, <2>3 DEF PaysEarliest
<1> QED BY <1>1, <1>2, <1>3 DEF EndBlock

\* x/pse ProcessNextDistribution: clearing accounts pay allocations whole, in the order of their
\* times, once each, and never before their time, whatever governance does to the schedule.
THEOREM AllocationsArePaidInOrder == PSESpec => PaidInOrder
<1>1. ASSUME [PSENext]_pseVars PROVE [PaysEarliest]_pseVars
  <2>1. CASE UNCHANGED clearing
    BY <2>1 DEF PaysEarliest
  <2>2. (\E v \in Validators : Slash(v)) \/ PanicAtEndBlock => UNCHANGED clearing
    BY DEF Slash, PanicAtEndBlock, fundVars
  <2> QED BY <1>1, <2>1, <2>2, StakingPaysNothing, GovernancePaysNothing, BlockPaysEarliest
          DEF PSENext
<1>2. [PaysEarliest]_pseVars =>
        [clearing' # clearing =>
            \E t \in DOMAIN schedule :
                /\ t <= time
                /\ \A u \in DOMAIN schedule : t <= u
                /\ DOMAIN schedule' = DOMAIN schedule \ {t}
                /\ \A c \in Clearing : clearing'[c] = clearing[c] - schedule[t][c]]_pseVars
  BY DEF PaysEarliest
<1> QED BY <1>1, <1>2, PTL DEF PSESpec, PaidInOrder
================================================================================
