------------------------------ MODULE MCTenant ------------------------------
(* The default Tenant and another one, with an app and the common gateway,  *)
(* and one with a gateway of its own whose name makes the domain too long.  *)
EXTENDS Tenant

ThreeKinds ==
    {[default |-> TRUE, gateways |-> FALSE, long |-> FALSE, apps |-> 1],
     [default |-> FALSE, gateways |-> FALSE, long |-> FALSE, apps |-> 1],
     [default |-> FALSE, gateways |-> TRUE, long |-> TRUE, apps |-> 0]}
=============================================================================
