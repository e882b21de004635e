---------------------------- MODULE MCReliableSend ----------------------------
(* A small instance of ReliableSend: pages of two, up to five transactions.    *)
EXTENDS ReliableSend

\* A clock behind the chain, one in step with it, and no expiry at all.
MCExpiries == {0, 1, Never}
===============================================================================
