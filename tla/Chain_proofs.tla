---------------------------- MODULE Chain_proofs ----------------------------
(***************************************************************************)
(* UpgradeIsScheduled on the whole chain: the upgrades share the store of  *)
(* delayed messages with the exchange, which adds to it and deletes from   *)
(* it while orders are placed, matched, cancelled and expire, and which is *)
(* exported and imported. The inductive invariant adds what keeps the two  *)
(* users of the store apart: an upgrade is stored under its denom, the     *)
(* exchange only ever touches keys that hold a sequence.                   *)
(*                                                                         *)
(* And the chain implements the specification of the book IDs, so that     *)
(* what is proved of them alone holds on the chain.                        *)
(***************************************************************************)
EXTENDS Chain, OrderBookIDs_proofs

\* Items are what WithItem makes; an upgrade is stored under its denom.
ItemsInv ==
    /\ \A i \in delayedItems : i = [at |-> i.at, id |-> i.id, data |-> i.data]
    /\ \A i \in UpgradeItems : i.id = i.data

\* What the exchange is about to remove are orders, and an account has sent the placement.
TxInv ==
    /\ {"active", "creator", "toRemove"} \subseteq DOMAIN tx
    /\ tx.toRemove \subseteq Nat
    /\ tx.active => tx.creator \in Accounts

TokensInv ==
    /\ versions \in [Denoms -> {0, 1}]
    /\ definitions \in [Denoms -> Definition \cup {NoDefinition}]

UpgradeInv == UpgradeIsScheduled /\ ItemsInv /\ TxInv /\ TokensInv

\* A step that leaves the upgrades in the delay store and the tokens alone keeps them scheduled.
LEMMA UpgradesUntouched ==
  ASSUME UpgradeInv, UNCHANGED <<versions, pendingUpgrades, definitions>>,
         UpgradeItems' = UpgradeItems, ItemsInv', TxInv'
  PROVE  UpgradeInv'
BY DEF UpgradeInv, UpgradeIsScheduled, TokensInv, HasDefinition

\* A step that leaves the delay store and the tokens alone.
LEMMA StoreUntouched ==
  ASSUME UpgradeInv, UNCHANGED <<versions, pendingUpgrades, definitions, delayedItems>>, TxInv'
  PROVE  UpgradeInv'
<1>1. UpgradeItems' = UpgradeItems
  BY DEF UpgradeItems
<1>2. ItemsInv'
  BY <1>1 DEF UpgradeInv, ItemsInv
<1> QED BY <1>1, <1>2, UpgradesUntouched

\* Deleting good-til cancellations of orders deletes no upgrade: their keys hold sequences.
LEMMA CancellationsAreNotUpgrades ==
  ASSUME ItemsInv, NEW S, S \subseteq Nat
  PROVE  /\ DelayedWithout(S) \subseteq delayedItems
         /\ UpgradeItems \subseteq DelayedWithout(S)
<1>1. ASSUME NEW i \in UpgradeItems PROVE i \in DelayedWithout(S)
  <2>1. i \in delayedItems /\ i.id \in Denoms
    BY <1>1 DEF UpgradeItems, ItemsInv
  <2>2. \A s \in S : i.id # s
    BY <2>1, ChainAssumption
  <2> QED BY <2>1, <2>2 DEF DelayedWithout
<1> QED BY <1>1 DEF DelayedWithout

\* A store that keeps the upgrades and otherwise only loses items.
LEMMA FewerItems ==
  ASSUME ItemsInv, delayedItems' \subseteq delayedItems, UpgradeItems \subseteq delayedItems'
  PROVE  ItemsInv' /\ UpgradeItems' = UpgradeItems
<1>1. UpgradeItems' = UpgradeItems
  BY DEF UpgradeItems
<1> QED BY <1>1 DEF ItemsInv

-----------------------------------------------------------------------------

\* The idle transaction satisfies TxInv.
LEMMA IdleTxInv == ASSUME tx' = IdleTx PROVE TxInv'
BY DEF IdleTx, TxInv

\* Placing and matching write to no store; applying the result schedules at most the taker's
\* cancellation and deletes those of closed makers.
LEMMA PlacementKeepsUpgrades == ASSUME UpgradeInv, PlacementNext PROVE UpgradeInv'
<1>u. UNCHANGED <<versions, pendingUpgrades>>
  BY DEF PlacementNext, upgradeVars
<1>1. ASSUME NEW a \in Users, NEW id \in OrderIDs, NEW o \in Orders, PlaceOrder(a, id, o)
      PROVE  UpgradeInv'
  <2>1. TxInv'
    BY <1>1 DEF PlaceOrder, IdleTx, TxInv, Users
  <2>2. UNCHANGED <<definitions, delayedItems>>
    BY <1>1 DEF PlaceOrder, ftVars, delayVars
  <2> QED BY <1>u, <2>1, <2>2, StoreUntouched
<1>2. ASSUME NEW s \in Sequences, MatchRecords(s) PROVE UpgradeInv'
  <2>0. s \in Nat
    BY DEF Sequences
  <2>1. TxInv'
    BY <1>2, <2>0 DEF MatchRecords, UpgradeInv, TxInv
  <2>2. UNCHANGED <<definitions, delayedItems>>
    BY <1>2 DEF MatchRecords, ftVars, delayVars
  <2> QED BY <1>u, <2>1, <2>2, StoreUntouched
<1>3. CASE RejectOrder \/ CloseUnexecuted
  <2>1. tx' = IdleTx /\ UNCHANGED <<definitions, delayedItems>>
    BY <1>3 DEF RejectOrder, CloseUnexecuted, ftVars, delayVars
  <2> QED BY <1>u, <2>1, IdleTxInv, StoreUntouched
<1>4. CASE ApplyMatchingResult
  <2> DEFINE kept == DelayedWithout(tx.toRemove)
             new  == [at |-> Unix(tx.order.goodTil.time), id |-> orderSequence + 1,
                      data |-> tx.creator]
  <2>1. tx' = IdleTx /\ UNCHANGED definitions
    BY <1>4 DEF ApplyMatchingResult
  <2>2. delayedItems' \in {kept, kept \cup {new}}
    BY <1>4 DEF ApplyMatchingResult, DelayedWithTaker, WithItem
  <2>3. tx.creator \in Accounts /\ tx.creator \notin Denoms
    BY <1>4, ChainAssumption DEF ApplyMatchingResult, IsMatched, UpgradeInv, TxInv
  <2>4. kept \subseteq delayedItems /\ UpgradeItems \subseteq kept
    BY CancellationsAreNotUpgrades DEF UpgradeInv, TxInv
  <2>5. UpgradeItems' = UpgradeItems
    BY <2>2, <2>3, <2>4 DEF UpgradeItems
  <2>6. ItemsInv'
    BY <2>2, <2>4, <2>5 DEF UpgradeInv, ItemsInv
  <2> QED BY <1>u, <2>1, <2>5, <2>6, IdleTxInv, UpgradesUntouched
<1> QED BY <1>1, <1>2, <1>3, <1>4 DEF PlacementNext

\* Cancel removes orders from the book and leaves tokens and the placement alone.
LEMMA CancelKeepsUpgrades ==
  ASSUME UpgradeInv, NEW S, CanCancel(S), Cancel(S), UNCHANGED <<versions, pendingUpgrades>>,
         delayedItems' \subseteq DelayedWithout(S), UpgradeItems \subseteq delayedItems'
  PROVE  UpgradeInv'
<1>1. S \subseteq Nat
  <2>1. \A x \in S : x \in Sequences
    BY DEF CanCancel, IsFound
  <2> QED BY <2>1 DEF Sequences
<1>2. delayedItems' \subseteq delayedItems
  BY <1>1, CancellationsAreNotUpgrades DEF UpgradeInv
<1>3. ItemsInv' /\ UpgradeItems' = UpgradeItems
  BY <1>2, FewerItems DEF UpgradeInv
<1>4. UNCHANGED <<definitions, tx>>
  BY DEF Cancel
<1>5. TxInv'
  BY <1>4 DEF UpgradeInv, TxInv
<1> QED BY <1>3, <1>4, <1>5, UpgradesUntouched

\* Cancellations by owners and admins, and new parameters.
LEMMA MessagesKeepUpgrades == ASSUME UpgradeInv, MessageNext PROVE UpgradeInv'
<1>u. UNCHANGED <<versions, pendingUpgrades>>
  BY DEF MessageNext, upgradeVars
<1>1. ASSUME NEW S, CancelMessage(S) PROVE UpgradeInv'
  <2>1. CanCancel(S) /\ Cancel(S) /\ delayedItems' = DelayedWithout(S)
    BY <1>1 DEF CancelMessage
  <2>2. S \subseteq Nat
    BY <2>1 DEF CanCancel, IsFound, Sequences
  <2>3. UpgradeItems \subseteq delayedItems'
    BY <2>1, <2>2, CancellationsAreNotUpgrades DEF UpgradeInv
  <2> QED BY <1>u, <2>1, <2>3, CancelKeepsUpgrades
<1>2. ASSUME NEW p \in ParamUpdates, UpdateParams(p) PROVE UpgradeInv'
  <2>1. UNCHANGED <<definitions, delayedItems, tx>>
    BY <1>2 DEF UpdateParams, ftVars, delayVars
  <2>2. TxInv'
    BY <2>1 DEF UpgradeInv, TxInv
  <2> QED BY <1>u, <2>1, <2>2, StoreUntouched
<1>3. CASE CancelNext
  BY <1>1, <1>3 DEF CancelNext, CancelOrder, CancelOrdersByDenom
<1> QED BY <1>2, <1>3 DEF MessageNext, ParamsNext

-----------------------------------------------------------------------------

\* An accepted request makes the one item of its denom; nobody's pending upgrade is replaced.
LEMMA RequestsKeepUpgrades == ASSUME UpgradeInv, UpgradeNext PROVE UpgradeInv'
<1>1. PICK sender \in Users, d \in Denoms : AddDelayedTokenUpgradeV1(sender, d)
  BY DEF UpgradeNext
<1>2. TxInv'
  BY DEF UpgradeNext, dexVars, UpgradeInv, TxInv
<1>3. HasDefinition(d) /\ versions[d] = 0 /\ d \notin pendingUpgrades
  BY <1>1 DEF AddDelayedTokenUpgradeV1, UpgradeAtOnce, UpgradeAfterGracePeriod, CanUpgrade,
              UpgradeInv, TokensInv
<1>4. UNCHANGED definitions
  BY <1>1 DEF AddDelayedTokenUpgradeV1, UpgradeAtOnce, UpgradeAfterGracePeriod, ftVars
<1>5. CASE UpgradeAtOnce(sender, d)
  <2>1. /\ UNCHANGED <<delayedItems, pendingUpgrades>>
        /\ versions' = [versions EXCEPT ![d] = 1]
    BY <1>5 DEF UpgradeAtOnce, delayVars
  <2>2. UpgradeItems' = UpgradeItems
    BY <2>1 DEF UpgradeItems
  <2>3. ItemsInv'
    BY <2>1, <2>2 DEF UpgradeInv, ItemsInv
  <2>4. TokensInv'
    BY <1>4, <2>1 DEF UpgradeInv, TokensInv
  <2>5. \A e \in pendingUpgrades : e \in Denoms /\ e # d
    BY <1>3 DEF UpgradeInv, UpgradeIsScheduled, UpgradeItems
  <2>6. UpgradeIsScheduled'
    BY <1>4, <2>1, <2>2, <2>5 DEF UpgradeInv, UpgradeIsScheduled, TokensInv, HasDefinition
  <2> QED BY <1>2, <2>3, <2>4, <2>6 DEF UpgradeInv
<1>6. CASE UpgradeAfterGracePeriod(sender, d)
  <2> DEFINE new == [at |-> Unix(blockTime + GracePeriod), id |-> d, data |-> d]
  <2>1. /\ delayedItems' = delayedItems \cup {new}
        /\ pendingUpgrades' = pendingUpgrades \cup {d}
        /\ UNCHANGED versions
    BY <1>6 DEF UpgradeAfterGracePeriod, WithItem
  <2> HIDE DEF new
  <2>n. new.data = d /\ new.id = d /\ new = [at |-> new.at, id |-> new.id, data |-> new.data]
    BY DEF new
  <2>2. UpgradeItems' = UpgradeItems \cup {new}
    BY <2>1, <2>n DEF UpgradeItems
  <2>3. ItemsInv'
    BY <2>1, <2>2, <2>n DEF UpgradeInv, ItemsInv
  <2>4. TokensInv'
    BY <1>4, <2>1 DEF UpgradeInv, TokensInv
  <2>5. \A i \in UpgradeItems : i.data # d
    BY <1>3 DEF UpgradeInv, UpgradeIsScheduled
  <2>6. pendingUpgrades' = {i.data : i \in UpgradeItems'}
    BY <2>1, <2>2, <2>n DEF UpgradeInv, UpgradeIsScheduled
  <2>7. \A i, j \in UpgradeItems' : i.data = j.data => i = j
    BY <2>2, <2>5, <2>n DEF UpgradeInv, UpgradeIsScheduled
  <2>8. \A e \in pendingUpgrades' : versions'[e] = 0 /\ HasDefinition(e)'
    BY <1>3, <1>4, <2>1 DEF UpgradeInv, UpgradeIsScheduled, HasDefinition
  <2> QED BY <1>2, <2>3, <2>4, <2>6, <2>7, <2>8 DEF UpgradeInv, UpgradeIsScheduled
<1> QED BY <1>1, <1>5, <1>6 DEF AddDelayedTokenUpgradeV1

\* A definition that replaces another is not the absence of one.
LEMMA TokenKeepsExisting ==
  ASSUME TokensInv, NEW d \in Denoms, NEW def \in Definition, HasDefinition(d),
         definitions' = [definitions EXCEPT ![d] = def]
  PROVE  /\ definitions' \in [Denoms -> Definition \cup {NoDefinition}]
         /\ \A e \in Denoms : HasDefinition(e) => HasDefinition(e)'
<1>1. def # NoDefinition
  BY AccountsAssumption DEF Definition, NoDefinition
<1> QED BY <1>1 DEF TokensInv, HasDefinition

\* An existing token is defined.
LEMMA ExistingTokenIsDefined ==
  ASSUME TokensInv, NEW d \in Denoms, HasDefinition(d)
  PROVE  definitions[d] \in Definition
BY DEF TokensInv, HasDefinition

\* The admin that gives a token up does not call its upgrade off.
LEMMA AdminKeepsUpgrades == ASSUME UpgradeInv, AdminNext PROVE UpgradeInv'
<1>1. PICK sender \in Users, d \in Denoms : ClearAdmin(sender, d)
  BY DEF AdminNext
<1> DEFINE def == [definitions[d] EXCEPT !.admin = NoAdmin, !.commissionRate = 0]
<1>2. HasDefinition(d) /\ definitions' = [definitions EXCEPT ![d] = def]
  BY <1>1 DEF ClearAdmin, DefinitionBecomes
<1>3. UNCHANGED <<delayedItems, versions, pendingUpgrades, tx>>
  BY DEF AdminNext, delayVars, dexVars, upgradeVars
<1>4. def \in Definition
  BY <1>2, ExistingTokenIsDefined DEF UpgradeInv, Definition
<1>5. /\ definitions' \in [Denoms -> Definition \cup {NoDefinition}]
      /\ \A e \in Denoms : HasDefinition(e) => HasDefinition(e)'
  BY <1>2, <1>4, TokenKeepsExisting DEF UpgradeInv
<1>6. UpgradeItems' = UpgradeItems
  BY <1>3 DEF UpgradeItems
<1>7. ItemsInv' /\ TxInv' /\ TokensInv'
  BY <1>3, <1>5, <1>6 DEF UpgradeInv, ItemsInv, TxInv, TokensInv
<1>8. pendingUpgrades \subseteq Denoms
  BY DEF UpgradeInv, UpgradeIsScheduled, UpgradeItems
<1>9. UpgradeIsScheduled'
  BY <1>3, <1>5, <1>6, <1>8 DEF UpgradeInv, UpgradeIsScheduled
<1> QED BY <1>7, <1>9 DEF UpgradeInv

\* BeginBlock: an upgrade that is carried out leaves the store and the pending versions together.
LEMMA ExecutionKeepsUpgrades ==
  ASSUME UpgradeInv, NEW item \in UpgradeItems, UpgradeTokenToV1(item), UNCHANGED dexVars
  PROVE  UpgradeInv'
<1> DEFINE d == item.data
           def == [definitions[d] EXCEPT !.features = @ \cup {"ibc"}]
<1>0. d \in Denoms /\ TxInv'
  BY DEF UpgradeItems, UpgradeInv, TxInv, dexVars
<1>1. CASE HasDefinition(d)
  <2>1. /\ definitions' = [definitions EXCEPT ![d] = def]
        /\ versions' = [versions EXCEPT ![d] = 1]
        /\ pendingUpgrades' = pendingUpgrades \ {d}
        /\ delayedItems' = delayedItems \ {item}
    BY <1>1 DEF UpgradeTokenToV1, DefinitionBecomes, UpgradedDefinition
  <2>2. definitions[d] \in Definition
    BY <1>0, <1>1, ExistingTokenIsDefined DEF UpgradeInv
  <2>3. def \in Definition
    BY <2>2 DEF Definition, Features
  <2>4. /\ definitions' \in [Denoms -> Definition \cup {NoDefinition}]
        /\ \A e \in Denoms : HasDefinition(e) => HasDefinition(e)'
    BY <1>0, <1>1, <2>1, <2>3, TokenKeepsExisting DEF UpgradeInv
  <2>5. UpgradeItems' = UpgradeItems \ {item}
    BY <2>1 DEF UpgradeItems
  <2>6. ItemsInv' /\ TokensInv'
    BY <2>1, <2>4, <2>5 DEF UpgradeInv, ItemsInv, TokensInv
  <2>7. pendingUpgrades' = {i.data : i \in UpgradeItems'}
    BY <2>1, <2>5 DEF UpgradeInv, UpgradeIsScheduled
  <2>8. \A e \in pendingUpgrades' : e \in Denoms /\ e # d /\ e \in pendingUpgrades
    BY <2>1 DEF UpgradeInv, UpgradeIsScheduled, UpgradeItems
  <2>9. \A e \in pendingUpgrades' : versions'[e] = 0 /\ HasDefinition(e)'
    BY <2>1, <2>4, <2>8 DEF UpgradeInv, UpgradeIsScheduled, TokensInv
  <2>10. \A i, j \in UpgradeItems' : i.data = j.data => i = j
    BY <2>5 DEF UpgradeInv, UpgradeIsScheduled
  <2> QED BY <1>0, <2>6, <2>7, <2>9, <2>10 DEF UpgradeInv, UpgradeIsScheduled
<1>2. CASE ~ HasDefinition(d)
  <2>1. UNCHANGED <<definitions, versions, pendingUpgrades, delayedItems>>
    BY <1>2 DEF UpgradeTokenToV1, HaltBegin, ftVars, upgradeVars
  <2> QED BY <1>0, <2>1, StoreUntouched
<1> QED BY <1>1, <1>2

\* BeginBlock hands every item to its handler; the next block changes nothing but the clock.
LEMMA BlocksKeepUpgrades == ASSUME UpgradeInv, BlocksNext PROVE UpgradeInv'
<1>1. ASSUME NEW item \in NextItems \cap UpgradeItems, UpgradeTokenToV1(item), UNCHANGED dexVars
      PROVE  UpgradeInv'
  BY <1>1, ExecutionKeepsUpgrades
<1>2. ASSUME NEW item \in NextItems \ UpgradeItems, ExecuteItem(item), UNCHANGED upgradeVars
      PROVE  UpgradeInv'
  <2> DEFINE S == {BySequence(item.data, item.id)}
             done == IF DueDelayedItems # {} THEN {item} ELSE {}
  <2>u. UNCHANGED <<versions, pendingUpgrades>>
    BY <1>2 DEF upgradeVars
  <2>1. CASE CanCancel(S)
    <3>1. Cancel(S) /\ delayedItems' = DelayedWithout(S) \ done
      BY <1>2, <2>1 DEF ExecuteItem
    <3>2. S \subseteq Nat
      <4>1. \A x \in S : x \in Sequences
        BY <2>1 DEF CanCancel, IsFound
      <4> QED BY <4>1 DEF Sequences
    <3>3. UpgradeItems \subseteq DelayedWithout(S)
      BY <3>2, CancellationsAreNotUpgrades DEF UpgradeInv
    <3>4. UpgradeItems \subseteq delayedItems' /\ delayedItems' \subseteq DelayedWithout(S)
      BY <3>1, <3>3
    <3> HIDE DEF S
    <3> QED BY <2>u, <2>1, <3>1, <3>4, CancelKeepsUpgrades
  <2>2. CASE ~ CanCancel(S)
    <3>1. UNCHANGED <<definitions, delayedItems, tx>>
      BY <1>2, <2>2 DEF ExecuteItem, HaltBegin, ftVars, dexVars
    <3>2. TxInv'
      BY <3>1 DEF UpgradeInv, TxInv
    <3> QED BY <2>u, <3>1, <3>2, StoreUntouched
  <2> QED BY <2>1, <2>2
<1>3. ASSUME (\E elapsed \in BlockTimes : NewBlock(elapsed)) \/ FinishBegin,
             UNCHANGED <<ftVars, dexVars, upgradeVars>>
      PROVE  UpgradeInv'
  <2>1. UNCHANGED <<definitions, delayedItems, tx, versions, pendingUpgrades>>
    BY <1>3 DEF NewBlock, FinishBegin, ftVars, dexVars, upgradeVars
  <2>2. TxInv'
    BY <2>1 DEF UpgradeInv, TxInv
  <2> QED BY <2>1, <2>2, StoreUntouched
<1>4. CASE ExecuteNext
  BY <1>1, <1>2, <1>4 DEF ExecuteNext
<1> QED BY <1>3, <1>4 DEF BlocksNext

\* Every item is imported under the key and with the message it was exported with.
LEMMA RestartKeepsUpgrades == ASSUME UpgradeInv, Restart PROVE UpgradeInv'
<1>0. pendingUpgrades' = pendingUpgrades
  <2>1. ImportPendingTokenUpgrades
    BY DEF Restart
  <2>2. \A d : [denom |-> d, version |-> 1].denom = d
    OBVIOUS
  <2> QED BY <2>1, <2>2 DEF ImportPendingTokenUpgrades
<1>1. UNCHANGED <<definitions, tx, versions, pendingUpgrades>>
  BY <1>0 DEF Restart, ImportTokens
<1>2. delayedItems' = ImportedItems(delayedItems)
  BY DEF Restart
<1>3. ImportedItems(delayedItems) = delayedItems
  BY DEF ImportedItems, UpgradeInv, ItemsInv
<1>4. TxInv'
  BY <1>1 DEF UpgradeInv, TxInv
<1> QED BY <1>1, <1>2, <1>3, <1>4, StoreUntouched

\* On the whole chain, a token has a pending version exactly while one delayed upgrade is stored for
\* it, and only old, defined tokens do (AddDelayedTokenUpgradeV1, the delay keeper, InitGenesis):
\* whatever the exchange does to the store of delayed messages, and across exports and imports.
THEOREM UpgradesStayScheduled == ChainSpec => []UpgradeIsScheduled
<1>1. ChainInit => UpgradeInv
  <2> SUFFICES ASSUME ChainInit PROVE UpgradeInv
    OBVIOUS
  <2>1. delayedItems = {} /\ pendingUpgrades = {} /\ tx = IdleTx
    BY DEF ChainInit, DEXInit, DelayInit, UpgradeInit
  <2>2. TokensInv
    BY UpgradeAssumption, DefinitionsAssumption
       DEF ChainInit, DEXInit, FTInit, StartsWith, UpgradeInit, TokensInv
  <2>3. TxInv
    BY <2>1 DEF IdleTx, TxInv
  <2> QED BY <2>1, <2>2, <2>3 DEF UpgradeInv, ItemsInv, UpgradeIsScheduled, UpgradeItems
<1>2. ASSUME UpgradeInv, [ChainNext]_chainVars PROVE UpgradeInv'
  <2>1. CASE ChainNext
    BY <1>2, <2>1, PlacementKeepsUpgrades, MessagesKeepUpgrades, RequestsKeepUpgrades,
       AdminKeepsUpgrades, BlocksKeepUpgrades, RestartKeepsUpgrades DEF ChainNext
  <2>2. CASE UNCHANGED chainVars
    <3>1. UNCHANGED <<definitions, delayedItems, tx, versions, pendingUpgrades>>
      BY <2>2 DEF chainVars, vars, ftVars, delayVars, dexVars, upgradeVars
    <3>2. TxInv'
      BY <1>2, <3>1 DEF UpgradeInv, TxInv
    <3> QED BY <1>2, <3>1, <3>2, StoreUntouched
  <2> QED BY <1>2, <2>1, <2>2
<1>3. UpgradeInv => UpgradeIsScheduled
  BY DEF UpgradeInv
<1> QED BY <1>1, <1>2, <1>3, PTL DEF ChainSpec

-----------------------------------------------------------------------------

\* The order being placed names two different denoms.
PairInv ==
    /\ {"active", "order"} \subseteq DOMAIN tx
    /\ tx.active => <<tx.order.base, tx.order.quote>> \in Pairs

\* Only PlaceOrder sets the order, and it has validated it.
LEMMA PairStep == ASSUME PairInv, [ChainNext]_chainVars PROVE PairInv'
<1>1. ASSUME NEW a \in Users, NEW id \in OrderIDs, NEW o \in Orders, PlaceOrder(a, id, o)
      PROVE  PairInv'
  <2>1. o.base \in TradedDenoms /\ o.quote \in TradedDenoms
    BY DEXAssumption, ChainAssumption DEF Order
  <2>2. o.base # o.quote
    BY <1>1 DEF PlaceOrder, ValidateOrder, IsValidOrder
  <2>3. <<o.base, o.quote>> \in Pairs
    BY <2>1, <2>2 DEF Pairs
  <2>4. tx'.order = o /\ {"active", "order"} \subseteq DOMAIN tx'
    BY <1>1 DEF PlaceOrder, IdleTx
  <2> QED BY <2>3, <2>4 DEF PairInv
<1>2. ASSUME NEW s \in Sequences, MatchRecords(s) PROVE PairInv'
  <2>1. DOMAIN tx' = DOMAIN tx
    BY <1>2 DEF MatchRecords
  <2>2. tx'.order = tx.order
    BY <1>2 DEF MatchRecords, PairInv
  <2>3. tx'.active = tx.active
    BY <1>2 DEF MatchRecords, PairInv
  <2> QED BY <2>1, <2>2, <2>3 DEF PairInv
<1>3. CASE tx' = IdleTx
  <2>1. {"active", "order"} \subseteq DOMAIN IdleTx /\ ~ IdleTx.active
    BY DEF IdleTx
  <2> QED BY <1>3, <2>1 DEF PairInv
<1>4. CASE UNCHANGED tx
  BY <1>4 DEF PairInv
<1>5. RejectOrder \/ CloseUnexecuted \/ ApplyMatchingResult => tx' = IdleTx
  BY DEF RejectOrder, CloseUnexecuted, ApplyMatchingResult
<1>6. MessageNext => UNCHANGED tx
  <2>1. \A S : CancelMessage(S) => UNCHANGED tx
    BY DEF CancelMessage, Cancel
  <2>2. CancelNext => UNCHANGED tx
    BY <2>1 DEF CancelNext, CancelOrder, CancelOrdersByDenom
  <2>3. ParamsNext => UNCHANGED tx
    BY DEF ParamsNext, UpdateParams
  <2> QED BY <2>2, <2>3 DEF MessageNext
<1>7. UpgradeNext \/ AdminNext \/ Restart => UNCHANGED tx
  BY DEF UpgradeNext, AdminNext, Restart, dexVars
<1>8. BlocksNext => UNCHANGED tx
  <2>1. \A item : ExecuteItem(item) => UNCHANGED tx
    BY DEF ExecuteItem, Cancel, dexVars
  <2> QED BY <2>1 DEF BlocksNext, ExecuteNext, dexVars
<1>9. UNCHANGED chainVars => UNCHANGED tx
  BY DEF chainVars, vars, dexVars
<1>10. CASE PlacementNext
  BY <1>1, <1>2, <1>3, <1>5, <1>10 DEF PlacementNext
<1> QED BY <1>4, <1>6, <1>7, <1>8, <1>9, <1>10 DEF ChainNext

\* Every step of the chain is a step of the book IDs or leaves them alone.
LEMMA ChainStepOfBookIDs ==
  ASSUME PairInv, [ChainNext]_chainVars
  PROVE  [BookIDsNext]_bookIDVars
<1>1. CASE PlacementNext
  <2>1. ASSUME ApplyMatchingResult \/ CloseUnexecuted,
               getOrGenOrderBookIDs(<<tx.order.base, tx.order.quote>>)
        PROVE  BookIDsNext
    <3>1. tx.active
      BY <2>1 DEF ApplyMatchingResult, CloseUnexecuted, IsMatched
    <3> QED BY <2>1, <3>1 DEF PairInv, BookIDsNext
  <2> QED BY <1>1, <2>1 DEF PlacementNext
<1>2. MessageNext \/ UpgradeNext \/ AdminNext \/ BlocksNext => UNCHANGED bookIDVars
  BY DEF MessageNext, UpgradeNext, AdminNext, BlocksNext, ExecuteNext
<1>3. Restart => BookIDsNext
  BY DEF Restart, BookIDsNext
<1>4. UNCHANGED chainVars => UNCHANGED bookIDVars
  BY DEF chainVars
<1> QED BY <1>1, <1>2, <1>3, <1>4 DEF ChainNext

\* The chain implements the specification of the book IDs: a placement that commits generates the
\* IDs of its pair or finds them, a restart imports them, nothing else touches them.
THEOREM ChainImplementsBookIDs == ChainSpec => BookIDsSpec
<1>1. ChainInit => BookIDsInit
  BY DEF ChainInit
<1>2. ChainInit => PairInv
  <2>1. ChainInit => tx = IdleTx
    BY DEF ChainInit, DEXInit
  <2>2. {"active", "order"} \subseteq DOMAIN IdleTx /\ ~ IdleTx.active
    BY DEF IdleTx
  <2> QED BY <2>1, <2>2 DEF PairInv
<1> QED BY <1>1, <1>2, PairStep, ChainStepOfBookIDs, PTL DEF ChainSpec, BookIDsSpec

\* So no two books of the chain ever share an ID (getOrGenOrderBookIDs, InitGenesis).
THEOREM BooksStayApart == ChainSpec => []BookIDsAreSound
BY ChainImplementsBookIDs, BookIDsStaySound, PTL
=============================================================================
