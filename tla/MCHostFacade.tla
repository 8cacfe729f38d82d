---------------------------- MODULE MCHostFacade ----------------------------
(* A host with two remotes on one IP.                                       *)
EXTENDS HostFacade

CONSTANTS a1, a2, i1

SharedIp == a1 :> i1 @@ a2 :> i1

=============================================================================
