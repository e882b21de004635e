----------------------------- MODULE MCProofChain -----------------------------
(* Chains of up to MaxSize shard blocks: whole cells, and each remainder.      *)
EXTENDS ProofChain
===============================================================================
