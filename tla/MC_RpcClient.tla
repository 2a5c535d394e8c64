----------------------------- MODULE MC_RpcClient -----------------------------
(* Model-checking instance of RpcClient: the method sets each run lets the *)
(* FUSE threads call.                                                      *)
EXTENDS RpcClient

MCAllOps == DOMAIN Program
MCFileBranchOps == {"Rename"}
MCStatOps == {"GetAttr"}
=============================================================================
