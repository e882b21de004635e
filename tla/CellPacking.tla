------------------------------ MODULE CellPacking ------------------------------
(* The chains of shard proofs that make_proof_chain of util packs into cells,  *)
(* for the modules whose requests end in it.  ProofChain is the function step  *)
(* by step, and its PacksWholeCells says that this is what comes of it.        *)
EXTENDS Integers

\* Shard proofs of a full cell; its last reference is the next cell.
PerCell == 3

\* After the first shard proof come full cells only, or none; any other chain
\* ends in a panic, whatever its proofs are.
Packs(n) == n <= 4 \/ (n - 1) % PerCell = 0
===============================================================================
