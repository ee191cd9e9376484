----------------------------- MODULE MCConnect -----------------------------
(* Two proxies with the same files, and a tunnel through one of them.        *)
EXTENDS Connect
=============================================================================
