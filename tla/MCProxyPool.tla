---------------------------- MODULE MCProxyPool ----------------------------
(* Instances of ProxyPool for TLC. *)
EXTENDS ProxyPool

CONSTANTS p1, loop, button, h1
=============================================================================
