--------------------------------- MODULE MCPSE ---------------------------------
(* Instances of PSE: two delegators, two validators, one clearing account      *)
(* beside the community's, and schedules of one or two periods.                *)
EXTENDS PSE

CONSTANTS alice, bob, fund, team

Allocation(community, other) == Community :> community @@ fund :> other

MCSchedule == 1 :> Allocation(3, 3) @@ 2 :> Allocation(2, 1)

\* The second period asks for more than the clearing accounts then hold.
MCScheduleUpdates == {2 :> Allocation(9, 1)}

MCWallet == alice :> 2 @@ bob :> 1 @@ team :> 0

MCClearing == Community :> 5 @@ fund :> 4

MCExclusionUpdates ==
    {[add |-> {alice}, remove |-> {}], [add |-> {bob}, remove |-> {alice}]}

MCMapping == fund :> {team}

MCMappingUpdates == {fund :> {team, bob}}
================================================================================
