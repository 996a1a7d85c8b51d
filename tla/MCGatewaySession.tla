-------------------------- MODULE MCGatewaySession --------------------------
EXTENDS GatewaySession, TLC

CONSTANTS c1, c2, k1, k2, k3,
  MaxFault   \* bound: lost connections, clients that quit, restarts and expiries

MCOwnerOf == k1 :> c1 @@ k2 :> c1 @@ k3 :> c2

VARIABLE faults

MCInit == Init /\ faults = 0

MCNext ==
  \/ Work /\ UNCHANGED faults
  \/ Fault /\ faults < MaxFault /\ faults' = faults + 1

MCSpec == MCInit /\ [][MCNext]_<<vars, faults>>

MCFairSpec == MCSpec /\ Fairness
=============================================================================
