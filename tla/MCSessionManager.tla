-------------------------- MODULE MCSessionManager --------------------------
(* An instance of SessionManager with three remotes on two IPs.             *)
EXTENDS SessionManager, TLC

CONSTANTS a1, a2, a3, i1, i2

IpOfThree == a1 :> i1 @@ a2 :> i1 @@ a3 :> i2

=============================================================================
