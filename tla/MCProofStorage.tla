---------------------------- MODULE MCProofStorage ----------------------------
(* One shard P with five blocks in the first masterchain block, the fewest     *)
(* that make_proof_chain cannot pack, which splits into L and R, which merge   *)
(* again: masterchain block 3 lists a new block of one half only.  Every       *)
(* second masterchain block keeps a timing; the first and the third are key    *)
(* blocks.                                                                     *)
EXTENDS ProofStorage

MCLeaves == [m \in 1..6 |-> IF m \in {2, 3} THEN {"L", "R"} ELSE {"P"}]
MCTop == <<[P |-> 5, L |-> 6, R |-> 6], [P |-> 5, L |-> 6, R |-> 6],
           [P |-> 5, L |-> 6, R |-> 7], [P |-> 8, L |-> 6, R |-> 7],
           [P |-> 8, L |-> 6, R |-> 7], [P |-> 8, L |-> 6, R |-> 7]>>
MCScBlocks == {Sc("P", n) : n \in 1..5} \cup {Sc("L", 6), Sc("R", 6), Sc("R", 7), Sc("P", 8)}
MCRef ==
  [b \in MCScBlocks |-> CASE b.seqno <= 5 -> 1
                          [] b.seqno = 6 -> 2
                          [] b.seqno = 7 -> 3
                          [] b.seqno = 8 -> 4]
MCMcTime == <<1, 1, 2, 2, 3, 3>>
MCScTime ==
  [b \in MCScBlocks |-> CASE b.seqno = 1 -> 0 [] b.seqno <= 6 -> 1 [] OTHER -> 2]
===============================================================================
