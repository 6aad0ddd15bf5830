---------------------------------- MODULE PSE ----------------------------------
(***************************************************************************)
(* x/pse, the Proof of Support Emission: clearing accounts pay a schedule  *)
(* of allocations at the end of blocks.  The community's allocation is     *)
(* shared among delegators by score, the stake multiplied by the time it   *)
(* was staked, which hooks of the staking module keep; the other           *)
(* allocations go to mapped recipients.                                    *)
(*                                                                         *)
(* Staking is external: a delegation is a number of shares, a validator a  *)
(* number of tokens.  Unbonding is immediate here, and a slash halves an   *)
(* even stake, so that shares convert to tokens without rounding by the    *)
(* staking module itself.                                                  *)
(***************************************************************************)
EXTENDS Integers, FiniteSets, FiniteSetsExt, TLC

CONSTANTS
    Delegators,          \* accounts that may delegate
    Validators,          \* numbers: the store lists delegations in their order
    Recipients,          \* accounts that clearing accounts may be mapped to
    BlockedAccounts,     \* accounts the bank refuses to pay
    Community,           \* the clearing account that pays by score
    OtherClearing,       \* the clearing accounts that pay recipients
    PageLimit,           \* delegations one staking query returns (100)
    GenesisTime,
    MaxTime,             \* bound: the last block time
    BlockTimes,          \* seconds between two blocks
    MaxSlashes,          \* bound: slashes in one behaviour
    MaxMessages,         \* bound: staking and governance messages in one behaviour
    Stakes,              \* amounts that staking messages move
    GenesisWallet,
    GenesisClearing,
    GenesisSchedule,
    GenesisMapping,
    ExclusionUpdates,    \* additions and removals that governance may vote in
    ScheduleUpdates,     \* schedules that governance may vote in
    MappingUpdates       \* mappings that governance may vote in

Clearing == {Community} \union OtherClearing

Holders == Delegators \union Recipients

Positions == Delegators \X Validators

\* A pair without a DelegationTimeEntry; an entry always has shares.
NoEntry == [last |-> 0, shares |-> 0]

\* types/params.go ValidateDistributionSchedule: every period allocates a
\* positive amount to every clearing account.
ValidSchedule(s) ==
    /\ DOMAIN s \subseteq Nat \ {0}
    /\ \A t \in DOMAIN s : s[t] \in [Clearing -> Nat \ {0}]

\* types/msg.go and validateClearingAccountMappings: exactly the clearing
\* accounts other than the community's, each with at least one recipient.
ValidMapping(m) == m \in [OtherClearing -> SUBSET Recipients \ {{}}]

ASSUME PSEAssumption ==
    /\ Validators \subseteq Nat
    /\ PageLimit \in Nat \ {0}
    /\ GenesisTime \in Nat
    /\ BlockTimes \subseteq Nat
    /\ Stakes \subseteq Nat \ {0}
    /\ GenesisWallet \in [Holders -> Nat]
    /\ GenesisClearing \in [Clearing -> Nat]
    /\ ExclusionUpdates \subseteq [add : SUBSET Delegators, remove : SUBSET Delegators]
    /\ ValidSchedule(GenesisSchedule)
    /\ \A s \in ScheduleUpdates : ValidSchedule(s)
    /\ ValidMapping(GenesisMapping)
    /\ \A m \in MappingUpdates : ValidMapping(m)

VARIABLES
    time,          \* block time in seconds
    delegation,    \* staking: shares of a delegator with a validator
    tokens,        \* staking: tokens of a validator
    wallet,        \* bank: balances outside staking and clearing accounts
    clearing,      \* bank: balances of the clearing accounts
    pool,          \* the community pool
    burnt,         \* tokens burnt by slashes
    slashes,       \* how many slashes there were
    messages,      \* how many staking and governance messages there were
    entries,       \* DelegationTimeEntries
    snapshot,      \* AccountScoreSnapshot, 0 where there is none
    schedule,      \* AllocationSchedule: timestamp to allocations
    mapping,       \* Params.ClearingAccountMappings
    excluded,      \* Params.ExcludedAddresses
    disabled,      \* DistributionDisabled
    halted,        \* a panic at the end of a block stopped the chain
    earned         \* history: stake times seconds since the score was last reset

stakingVars == <<delegation, tokens, wallet, burnt, slashes>>
scoreVars == <<entries, snapshot, earned>>
fundVars == <<clearing, pool>>
govVars == <<schedule, mapping, excluded, disabled>>
pseVars == <<time, stakingVars, scoreVars, fundVars, govVars, messages, halted>>

PSEInit ==
    /\ time = GenesisTime
    /\ delegation = [p \in Positions |-> 0]
    /\ tokens = [v \in Validators |-> 0]
    /\ wallet = GenesisWallet
    /\ clearing = GenesisClearing
    /\ pool = 0
    /\ burnt = 0
    /\ slashes = 0
    /\ messages = 0
    /\ entries = [p \in Positions |-> NoEntry]
    /\ snapshot = [d \in Delegators |-> 0]
    /\ earned = [d \in Delegators |-> 0]
    /\ schedule = GenesisSchedule
    /\ mapping = GenesisMapping
    /\ excluded = {}
    /\ disabled = FALSE
    /\ halted = FALSE

--------------------------------------------------------------------------------
(* The staking module, as the keeper uses it. *)

Total(f, S) == MapThenSumSet(LAMBDA x : f[x], S)

TotalShares(v) == MapThenSumSet(LAMBDA d : delegation[d, v], Delegators)

TokensFromShares(v, shares) ==
    IF shares = 0 THEN 0 ELSE (shares * tokens[v]) \div TotalShares(v)

SharesFromTokens(v, amt) ==
    IF TotalShares(v) = 0 THEN amt ELSE (TotalShares(v) * amt) \div tokens[v]

InvalidExRate(v) == tokens[v] = 0 /\ TotalShares(v) > 0

Balance(d, v) == TokensFromShares(v, delegation[d, v])

\* DelegatorDelegations without pagination: the first page of delegations.
DelegatorDelegations(d) ==
    LET held == {v \in Validators : delegation[d, v] > 0}
    IN  {v \in held : Cardinality({w \in held : w < v}) < PageLimit}

StakeOf(d) == MapThenSumSet(LAMBDA v : Balance(d, v), DelegatorDelegations(d))

--------------------------------------------------------------------------------
(* Scores. *)

\* hooks.go calculateAddedScore: the shares of the entry at the validator's
\* present exchange rate, for the time since the entry last changed.
calculateAddedScore(d, v) ==
    TokensFromShares(v, entries[d, v].shares) * (time - entries[d, v].last)

\* delegation.go CalculateDelegatorScore
CalculateDelegatorScore(d) ==
    snapshot[d] + MapThenSumSet(LAMBDA v : calculateAddedScore(d, v), Validators)

\* hooks.go AfterDelegationModified and BeforeDelegationRemoved: the time entry
\* of each modified delegation restarts with its new shares (none when the
\* delegation is gone) and what it earned goes to the snapshot.
ModifyDelegations(d, shares) ==
    IF d \in excluded THEN UNCHANGED <<entries, snapshot>>
    ELSE /\ entries' = [p \in Positions |->
                CASE ~(p[1] = d /\ p[2] \in DOMAIN shares) -> entries[p]
                  [] shares[p[2]] = 0 -> NoEntry
                  [] OTHER -> [last |-> time, shares |-> shares[p[2]]]]
         /\ snapshot' = [snapshot EXCEPT ![d] = @ +
                MapThenSumSet(LAMBDA v : calculateAddedScore(d, v), DOMAIN shares)]

--------------------------------------------------------------------------------
(* Staking messages, with the hooks they call. *)

NextMessage ==
    /\ ~halted
    /\ messages < MaxMessages
    /\ messages' = messages + 1

\* Delegation shares of d become shares[v]; the stakes of validators become
\* stakes and the delegator's wallet changes by paid.
Restaked(d, shares, stakes, paid) ==
    /\ NextMessage
    /\ delegation' = [p \in Positions |->
            IF p[1] = d /\ p[2] \in DOMAIN shares THEN shares[p[2]] ELSE delegation[p]]
    /\ tokens' = stakes
    /\ wallet' = [wallet EXCEPT ![d] = @ - paid]
    /\ ModifyDelegations(d, shares)
    /\ UNCHANGED <<time, burnt, slashes, fundVars, govVars, halted, earned>>

Delegate(d, v, amt) ==
    /\ amt <= wallet[d]
    /\ ~InvalidExRate(v)
    /\ Restaked(d, v :> delegation[d, v] + SharesFromTokens(v, amt),
                [tokens EXCEPT ![v] = @ + amt], amt)

CanUnbond(d, v, amt) ==
    /\ tokens[v] > 0
    /\ SharesFromTokens(v, amt) <= delegation[d, v]

Undelegate(d, v, amt) ==
    /\ CanUnbond(d, v, amt)
    /\ Restaked(d, v :> delegation[d, v] - SharesFromTokens(v, amt),
                [tokens EXCEPT ![v] = @ - amt], -amt)

Redelegate(d, src, dst, amt) ==
    /\ src # dst
    /\ CanUnbond(d, src, amt)
    /\ ~InvalidExRate(dst)
    /\ Restaked(d, src :> delegation[d, src] - SharesFromTokens(src, amt)
                   @@ dst :> delegation[d, dst] + SharesFromTokens(dst, amt),
                [tokens EXCEPT ![src] = @ - amt, ![dst] = @ + amt], 0)

\* Slashing, at the beginning of a block; hooks.go BeforeValidatorSlashed does
\* nothing.
Slash(v) ==
    /\ ~halted
    /\ slashes < MaxSlashes
    /\ tokens[v] > 0
    /\ tokens[v] % 2 = 0
    /\ tokens' = [tokens EXCEPT ![v] = @ \div 2]
    /\ burnt' = burnt + tokens[v] \div 2
    /\ slashes' = slashes + 1
    /\ UNCHANGED <<time, delegation, wallet, scoreVars, fundVars, govVars, messages,
                   halted>>

--------------------------------------------------------------------------------
(* Governance messages. *)

\* Mutant: an excluded address keeps its time entries.
EntriesAfterExclusionKept(add, remove) ==
    [p \in Positions |->
        IF p[1] \in remove /\ p[2] \in DelegatorDelegations(p[1])
        THEN [last |-> time, shares |-> delegation[p]]
        ELSE entries[p]]

\* params.go UpdateExcludedAddresses (types/msg.go: no address is in both
\* lists).  Addresses taken off the list restart with their delegations of
\* now; addresses put on it lose their entries and their snapshot.
EntriesAfterExclusion(add, remove) ==
    [p \in Positions |->
        CASE p[1] \in add \ (excluded \ remove) -> NoEntry
          [] p[1] \in remove /\ p[2] \in DelegatorDelegations(p[1]) ->
                [last |-> time, shares |-> delegation[p]]
          [] OTHER -> entries[p]]

UpdateExcludedAddresses(add, remove) ==
    /\ NextMessage
    /\ add \intersect remove = {}
    /\ add \union remove # {}
    /\ LET added == add \ (excluded \ remove)
       IN  /\ excluded' = (excluded \ remove) \union added
           /\ snapshot' = [d \in Delegators |-> IF d \in added THEN 0 ELSE snapshot[d]]
           /\ earned' = [d \in Delegators |->
                            CASE d \in added -> 0
                              [] d \in remove -> snapshot[d]
                              [] OTHER -> earned[d]]
    /\ entries' = EntriesAfterExclusion(add, remove)
    /\ UNCHANGED <<time, stakingVars, fundVars, schedule, mapping, disabled, halted>>

\* params.go UpdateClearingAccountMappings
UpdateClearingAccountMappings(m) ==
    /\ NextMessage
    /\ mapping' = m
    /\ UNCHANGED <<time, stakingVars, scoreVars, fundVars, schedule, excluded,
                   disabled, halted>>

\* distribution.go UpdateDistributionSchedule: the whole schedule is replaced.
UpdateDistributionSchedule(s) ==
    /\ NextMessage
    /\ schedule' = s
    /\ UNCHANGED <<time, stakingVars, scoreVars, fundVars, mapping, excluded,
                   disabled, halted>>

\* distribution.go DisableDistributions: nothing enables them again.
DisableDistributions ==
    /\ NextMessage
    /\ disabled' = TRUE
    /\ UNCHANGED <<time, stakingVars, scoreVars, fundVars, schedule, mapping,
                   excluded, halted>>

--------------------------------------------------------------------------------
(* The end of a block. *)

\* Mutant: a distribution is not due at its own second.
IsOverdue(t) == t \in DOMAIN schedule /\ t < time

\* distribution.go PeekNextAllocationSchedule: the earliest timestamp, once it
\* is not in the future.
IsDue(t) == t \in DOMAIN schedule /\ t <= time

\* Mutant: any due timestamp.
AnyDue == {t \in DOMAIN schedule : IsDue(t)}

NextDue == {t \in DOMAIN schedule : IsDue(t) /\ \A u \in DOMAIN schedule : t <= u}

\* score_map.go: the scores of the accounts that are not excluded.
FinalScores ==
    [d \in Delegators |-> IF d \in excluded THEN 0 ELSE CalculateDelegatorScore(d)]

\* distribute.go DistributeCommunityPSE: each delegator's part by score ...
UserAmounts(amount) ==
    LET score == FinalScores
        total == Total(score, Delegators)
    IN  [d \in Delegators |-> IF total = 0 THEN 0 ELSE (amount * score[d]) \div total]

\* ... which distributeToDelegator pays only to an account that delegates.
DistributedAmounts(amount) ==
    LET user == UserAmounts(amount)
    IN  [d \in Delegators |-> IF DelegatorDelegations(d) = {} THEN 0 ELSE user[d]]

\* Mutant: amounts that nobody received count as distributed.
LeftoverOfUserAmounts(amount) == amount - Total(UserAmounts(amount), Delegators)

Leftover(amount) == amount - Total(DistributedAmounts(amount), Delegators)

\* distributeToDelegator: each payment is delegated along the delegations of
\* its account.  paid is DistributedAmounts from here on.
RedelegatesTo(paid, d, v) == paid[d] > 0 /\ v \in DelegatorDelegations(d)

DelegationAmounts(paid) ==
    LET stake == [d \in Delegators |-> StakeOf(d)]
    IN  [p \in Positions |->
            IF RedelegatesTo(paid, p[1], p[2])
            THEN (Balance(p[1], p[2]) * paid[p[1]]) \div stake[p[1]]
            ELSE 0]

\* That division panics for a paid account whose delegations are worth nothing.
DividesByZero(paid) == \E d \in Delegators : paid[d] > 0 /\ StakeOf(d) = 0

\* A transfer fails, or a delegation to a validator without an exchange rate.
\* When a division by zero is there too, the order of the allocations and of
\* the accounts decides which comes first, and the model leaves it open.
Fails(t, paid) ==
    \/ \E c \in Clearing : clearing[c] < schedule[t][c]
    \/ \E c \in OtherClearing : mapping[c] \intersect BlockedAccounts # {}
    \/ \E d \in Delegators :
            /\ paid[d] > 0
            /\ d \in BlockedAccounts \/ \E v \in DelegatorDelegations(d) : InvalidExRate(v)

\* distribution.go distributeAllocatedTokens: what a recipient gets from each
\* clearing account, and what the division leaves to the community pool.
PerRecipient(t, c) == schedule[t][c] \div Cardinality(mapping[c])

Remainder(t, c) == schedule[t][c] % Cardinality(mapping[c])

ReceivedBy(t, a) ==
    MapThenSumSet(LAMBDA c : PerRecipient(t, c), {c \in OtherClearing : a \in mapping[c]})

\* Mutant: only the entries of paid accounts restart.
EntriesOfPaidRestart(paid, shares) ==
    [p \in Positions |->
        IF RedelegatesTo(paid, p[1], p[2])
        THEN [last |-> time, shares |-> shares[p]]
        ELSE entries[p]]

\* DistributeCommunityPSE restarts every entry; the hooks of the delegations
\* it makes then record their new shares.
EntriesAfterDistribution(paid, shares) ==
    [p \in Positions |->
        CASE RedelegatesTo(paid, p[1], p[2]) -> [last |-> time, shares |-> shares[p]]
          [] entries[p] # NoEntry /\ ~RedelegatesTo(paid, p[1], p[2]) ->
                [entries[p] EXCEPT !.last = time]
          [] OTHER -> NoEntry]

\* distribution.go ProcessNextDistribution, committed by module.go EndBlock.
\* Coins that rounding leaves undelegated stay with the paid account.
Distribute(t, paid) ==
    LET staked == DelegationAmounts(paid)
        shares == [p \in Positions |-> delegation[p] +
                    IF staked[p] = 0 THEN 0 ELSE SharesFromTokens(p[2], staked[p])]
        Undelegated(d) == paid[d] - Total(staked, {d} \X Validators)
    IN  /\ ~Fails(t, paid)
        /\ ~DividesByZero(paid)
        /\ clearing' = [c \in Clearing |-> clearing[c] - schedule[t][c]]
        /\ pool' = pool + Leftover(schedule[t][Community])
                        + MapThenSumSet(LAMBDA c : Remainder(t, c), OtherClearing)
        /\ wallet' = [a \in Holders |-> wallet[a]
                        + (IF a \in Recipients THEN ReceivedBy(t, a) ELSE 0)
                        + (IF a \in Delegators THEN Undelegated(a) ELSE 0)]
        /\ delegation' = shares
        /\ tokens' = [v \in Validators |-> tokens[v] + Total(staked, Delegators \X {v})]
        /\ entries' = EntriesAfterDistribution(paid, shares)
        /\ snapshot' = [d \in Delegators |-> 0]
        /\ schedule' = [u \in DOMAIN schedule \ {t} |-> schedule[u]]
        /\ UNCHANGED <<burnt, slashes, mapping, excluded, disabled, halted>>

\* module.go EndBlock: a failed distribution is dropped with its cache and
\* disables all distributions.
DisableAfterFailure(t, paid) ==
    /\ Fails(t, paid)
    /\ disabled' = TRUE
    /\ UNCHANGED <<stakingVars, entries, snapshot, fundVars, schedule, mapping,
                   excluded, halted>>

SkipDistribution ==
    /\ disabled \/ NextDue = {}
    /\ UNCHANGED <<stakingVars, entries, snapshot, fundVars, govVars, halted>>

\* The next block starts elapsed seconds later, with the stake of this one.
EarnStakeTime(elapsed) ==
    earned' = [d \in Delegators |->
        (IF DOMAIN schedule' # DOMAIN schedule THEN 0 ELSE earned[d])
        + IF d \in excluded THEN 0
          ELSE elapsed * MapThenSumSet(LAMBDA v : Balance(d, v)', Validators)]

EndBlock(elapsed) ==
    /\ ~halted
    /\ UNCHANGED messages
    /\ time + elapsed <= MaxTime
    /\ time' = time + elapsed
    /\ \/ SkipDistribution
       \/ /\ ~disabled
          /\ \E t \in NextDue :
                LET paid == DistributedAmounts(schedule[t][Community])
                IN  Distribute(t, paid) \/ DisableAfterFailure(t, paid)
    /\ EarnStakeTime(elapsed)

\* No handler recovers from a panic at the end of a block.
PanicAtEndBlock ==
    /\ ~halted
    /\ ~disabled
    /\ \E t \in NextDue : DividesByZero(DistributedAmounts(schedule[t][Community]))
    /\ halted' = TRUE
    /\ UNCHANGED <<time, stakingVars, scoreVars, fundVars, govVars, messages>>

--------------------------------------------------------------------------------

StakingNext ==
    \E d \in Delegators, v \in Validators, amt \in Stakes :
        \/ Delegate(d, v, amt)
        \/ Undelegate(d, v, amt)
        \/ \E dst \in Validators : Redelegate(d, v, dst, amt)

GovNext ==
    \/ \E e \in ExclusionUpdates : UpdateExcludedAddresses(e.add, e.remove)
    \/ \E m \in MappingUpdates : UpdateClearingAccountMappings(m)
    \/ \E s \in ScheduleUpdates : UpdateDistributionSchedule(s)
    \/ DisableDistributions

BlockNext == \E elapsed \in BlockTimes \union {0} : EndBlock(elapsed)

PSENext ==
    \/ StakingNext
    \/ \E v \in Validators : Slash(v)
    \/ GovNext
    \/ BlockNext
    \/ PanicAtEndBlock

PSESpec == PSEInit /\ [][PSENext]_pseVars

\* Blocks keep being produced: CometBFT ends every block it starts.
LivePSESpec == PSESpec /\ WF_pseVars(BlockNext \/ PanicAtEndBlock)

--------------------------------------------------------------------------------
(* Properties. *)

\* A distribution neither loses nor creates a coin: what leaves the clearing
\* accounts is in wallets, delegated, or in the community pool, through every
\* rounding and through accounts that have a score and no delegation, and no
\* account or validator is left with less than nothing.
CoinsAreConserved ==
    /\ \A c \in Clearing : clearing[c] >= 0
    /\ \A a \in Holders : wallet[a] >= 0
    /\ \A v \in Validators : tokens[v] >= 0
    /\ pool >= 0
    /\ Total(clearing, Clearing) + Total(wallet, Holders) + Total(tokens, Validators) + pool + burnt
        = Total(GenesisClearing, Clearing) + Total(GenesisWallet, Holders)

\* The score that hooks, distributions and exclusions keep in pieces is the stake
\* multiplied by the time it was staked since the last distribution.  A slash
\* takes from it, since the open pieces are counted at the rate of the moment
\* they are closed, and never adds to it.
ScoreIsStakeTime ==
    \A d \in Delegators :
        /\ CalculateDelegatorScore(d) <= earned[d]
        /\ slashes = 0 => CalculateDelegatorScore(d) = earned[d]

\* The time entries follow the delegations of every account that is not
\* excluded, with their shares, and an excluded account has no entry and no
\* score; so a distribution never meets an entry whose validator is gone.
EntriesMirrorDelegations ==
    \A d \in Delegators, v \in Validators :
        /\ entries[d, v].shares = IF d \in excluded THEN 0 ELSE delegation[d, v]
        /\ d \in excluded => snapshot[d] = 0

\* A clearing account pays exactly the allocation of the earliest scheduled
\* time, once that time has come, and the schedule then forgets it.
PaidInOrder ==
    [][clearing' # clearing =>
        \E t \in DOMAIN schedule :
            /\ t <= time
            /\ \A u \in DOMAIN schedule : t <= u
            /\ DOMAIN schedule' = DOMAIN schedule \ {t}
            /\ \A c \in Clearing : clearing'[c] = clearing[c] - schedule[t][c]]_pseVars

\* x/pse/spec/README.md: overdue distributions are paid in subsequent blocks.
\* Once every scheduled second has come, the schedule empties, one distribution
\* a block, unless distributions are disabled or governance reschedules them.
AllOverdue == \A t \in DOMAIN schedule : t <= time

DueDistributionsArePaid ==
    AllOverdue ~> (DOMAIN schedule = {} \/ ~AllOverdue \/ disabled \/ halted)

\* x/pse/module.go EndBlock logs "failed to process next distribution, disabling
\* all future distributions": a distribution that cannot be made is disabled,
\* and the block goes on.
FailureDisables == ~halted
================================================================================
