----------------------------- MODULE MCRpcServer -----------------------------
(* Instances of RpcServer for TLC. *)
EXTENDS RpcServer

CONSTANTS r1, r2, r3
=============================================================================
