--------------------------- MODULE MCGatewayOwner ---------------------------
(* A small instance of GatewayOwner for TLC: the production deployment with *)
(* two configurations and a failure, the staging deployment, whose state    *)
(* has the lease, too, with one configuration and no failure.               *)
EXTENDS GatewayOwner

CONSTANTS t1, o1, o2

MCPuts == [s \in Stages |-> IF s = "production" THEN 2 ELSE 1]
MCFailures == [s \in Stages |-> IF s = "production" THEN 1 ELSE 0]
=============================================================================
