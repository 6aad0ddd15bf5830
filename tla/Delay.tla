------------------------------- MODULE Delay -------------------------------
(***************************************************************************)
(* The x/delay keeper: messages stored under an execution time or height,  *)
(* executed by BeginBlock, and the block clock that drives it. The router  *)
(* calls a handler of another module; that module's actions say what the   *)
(* handler does and whether it fails.                                      *)
(*                                                                         *)
(* Block time is counted in ticks, keys in whole seconds.                  *)
(***************************************************************************)
EXTENDS Integers

CONSTANTS TicksPerSecond, GenesisTime, MaxHeight, BlockTimes

ASSUME DelayAssumption ==
    /\ TicksPerSecond \in Nat \ {0}
    /\ GenesisTime \in Nat
    /\ MaxHeight \in Nat
    /\ BlockTimes \subseteq Nat \ {0}

VARIABLES
    blockTime,      \* ticks
    blockHeight,
    phase,          \* "begin": BeginBlock runs; "deliver": transactions; "halted"
    delayedItems,   \* {[at, id, data]}, at in seconds
    blockItems      \* {[at, id, data]}, at a height

delayVars == <<blockTime, blockHeight, phase, delayedItems, blockItems>>

DelayInit ==
    /\ blockTime = GenesisTime
    /\ blockHeight = 1
    /\ phase = "deliver"
    /\ delayedItems = {}
    /\ blockItems = {}

\* The timestamp in an item's key (CreateDelayedItemKey).
Unix(t) == t \div TicksPerSecond

HasItem(items, at, id) == \E i \in items : i.at = at /\ i.id = id

WithItem(items, at, id, data) == items \cup {[at |-> at, id |-> id, data |-> data]}

\* Keys are ordered by time or height, then by the bytes of the ID.
First(items) == {i \in items : \A j \in items : i.at <= j.at}

\* Mutant: only the items of this very second.
DelayedItemsOfNow == {i \in delayedItems : i.at = Unix(blockTime)}

\* Mutant: an item is due a second early.
DelayedItemsOfNextSecond == {i \in delayedItems : (i.at - 1) * TicksPerSecond <= blockTime}

\* What ExecuteDelayedItems still has to run in this block.
DueDelayedItems == {i \in delayedItems : i.at * TicksPerSecond <= blockTime}

\* What ExecuteBlockItems still has to run in this block.
DueBlockItems == {i \in blockItems : i.at < blockHeight}

\* ExecuteAllItems takes the delayed items first, then the block items, both ascending.
NextItems == IF DueDelayedItems # {} THEN First(DueDelayedItems) ELSE First(DueBlockItems)

NewBlock(elapsed) ==
    /\ phase = "deliver"
    /\ blockHeight < MaxHeight
    /\ blockTime' = blockTime + elapsed
    /\ blockHeight' = blockHeight + 1
    /\ phase' = "begin"
    /\ UNCHANGED <<delayedItems, blockItems>>

FinishBegin ==
    /\ phase = "begin"
    /\ NextItems = {}
    /\ phase' = "deliver"
    /\ UNCHANGED <<blockTime, blockHeight, delayedItems, blockItems>>

\* A handler returned an error: BeginBlock fails and the chain stops.
HaltBegin ==
    /\ phase = "begin"
    /\ phase' = "halted"
    /\ UNCHANGED <<blockTime, blockHeight, delayedItems, blockItems>>
=============================================================================
