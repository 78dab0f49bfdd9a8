------------------------------ MODULE MCRouting ------------------------------
(* Instances of Routing for TLC.                                           *)
EXTENDS Routing, TLC

CONSTANTS ann, bob, s1, s2, rpc1, rpc2

Askers     == {ann}
Asked      == {bob}
TwoServers == {s1, s2}

(* A refusal takes the path of a text.                                     *)
ThreeKinds == Kinds \ {"refuse"}
TextOnly   == {"text"}

(* Peers are known by the host:port of their RPC port, and StatusServer    *)
(* gives out the same addresses: its answers find a pool.                  *)
RpcPorts == (s1 :> rpc1) @@ (s2 :> rpc2)
=============================================================================
