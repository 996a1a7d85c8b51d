--------------------------- MODULE MCGatewayLock ---------------------------
(***************************************************************************)
(* Three runs of the gateway.  The first and the last get the same pid,    *)
(* and one of them could not read its own start time.                      *)
(***************************************************************************)
EXTENDS GatewayLoneStart, TLC

CONSTANTS r1, r2, r3, p1, p2, low, high

MCPidOf  == r1 :> p1 @@ r2 :> p2 @@ r3 :> p1
MCPortOf == r1 :> low @@ r2 :> low @@ r3 :> high
=============================================================================
