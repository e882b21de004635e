--------------------------- MODULE MCKeyBlockFetch ----------------------------
(* Two chains of seven blocks and a short one without key blocks.  The first   *)
(* rotates in its first key block, has a key block that leaves the epoch as it *)
(* is and two rotations in a row; the second begins with a key block that      *)
(* leaves the zerostate's epoch.  Each validator set shares members with the   *)
(* next, at other indices.                                                     *)
EXTENDS KeyBlockFetch

CONSTANTS v1, v2, v3, v4, v5

MCChains ==
  {[keys |-> {2, 4, 5, 6}, epoch |-> <<0, 1, 1, 1, 2, 3, 3>>],
   [keys |-> {1, 3, 6}, epoch |-> <<0, 0, 1, 1, 1, 2, 2>>],
   [keys |-> {}, epoch |-> <<0, 0>>]}

MCList == [e \in 0..3 |-> CASE e = 0 -> <<v1, v2, v3>>
                            [] e = 1 -> <<v2, v3, v4>>
                            [] e = 2 -> <<v4, v2, v5>>
                            [] e = 3 -> <<v5, v1, v4>>]
MCVset == [e \in 0..3 |-> [since |-> 10 * e, list |-> MCList[e]]]

\* All three, or the first two.
MCQuorums ==
  [e \in 0..3 |-> {{MCList[e][i] : i \in 1..3}, {MCList[e][i] : i \in 1..2}}]
===============================================================================
