---------------------------- MODULE MCProofClients ----------------------------
(* A new validator set, one that shares members with it, and a key block that  *)
(* leaves the set as it is.  Shard block 3 is older than the key block before  *)
(* the block that commits it; 2 and 9 are made on a key block or just before   *)
(* one.  Block 4 commits 3 to 8, so the chains from 3 and 4 cannot be packed.  *)
(* v1 and v3 have exactly two thirds of the first set.                         *)
EXTENDS ProofClients, FiniteSetsExt

CONSTANTS v1, v2, v3, v4

MCKeyBlocks == {1, 3, 5}
MCPrevKey == [m \in 2..6 |-> IF m <= 3 THEN 1 ELSE IF m <= 5 THEN 3 ELSE 5]
MCFirst == [since |-> 1, list |-> <<v1, v2, v3, v4>>, main |-> 3]
MCSecond == [since |-> 2, list |-> <<v2, v4, v1, v3>>, main |-> 3]
MCVset == [k \in {1, 3, 5} |-> IF k = 1 THEN MCFirst ELSE MCSecond]
MCValidators == {v1, v2, v3, v4}
MCSingle(v) == IF v = v1 THEN 3 ELSE IF v = v2 THEN 2 ELSE 1
MCWeight == [S \in SUBSET {v1, v2, v3, v4} |-> MapThenSumSet(MCSingle, S)]
MCCommittedBy == <<2, 3, 4, 4, 4, 4, 4, 4, 6>>
MCRef == <<1, 2, 2, 3, 3, 3, 3, 3, 5>>
MCTop == [m \in 2..6 |-> IF m = 2 THEN 1 ELSE IF m = 3 THEN 2 ELSE IF m <= 5 THEN 8 ELSE 9]
===============================================================================
