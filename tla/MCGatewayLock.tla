---------------------------- MODULE MCGatewayLock ----------------------------
(***************************************************************************)
(* Instances of GatewayLock: a supervised process, and one started beside  *)
(* it that may stay away.                                                  *)
(***************************************************************************)
EXTENDS GatewayLock

CONSTANTS p1, p2

MCProcs == {p1, p2}
MCSupervised == {p1}
==============================================================================
