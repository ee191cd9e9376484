---------------------------- MODULE MCProxyServer ----------------------------
(* ProxyServer has no constants; its state space is finite as it stands.     *)
EXTENDS ProxyServer
=============================================================================
