----------------------------- MODULE MCRpcChannel -----------------------------
(* The channel with its inductive invariant, so that TLC checks the formula *)
(* the proofs rest on before and beside them.                               *)
EXTENDS RpcChannelProofs
=============================================================================
