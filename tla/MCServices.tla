----------------------------- MODULE MCServices -----------------------------
(* Instances of Services: a chain of three services, as service_network,     *)
(* service_gateway and service_data_motion (through others) are, and the     *)
(* same with a transport beside it that is not installed.                    *)
EXTENDS Services

CONSTANTS net, gate, data, http, r1

ChainServices == {net, gate, data}
ChainDepends == net :> {} @@ gate :> {net} @@ data :> {gate}
ChainLoaded == <<data, gate, net>>

TreeServices == {net, gate, data, http}
TreeDepends == ChainDepends @@ http :> {net}
TreeLoaded == <<data, http, net, gate>>
=============================================================================
