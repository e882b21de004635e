------------------------------ MODULE ProofChain ------------------------------
(* make_proof_chain of util: the cells a contract walks from a masterchain     *)
(* block down to the block with the transaction.  The head cell refers to the  *)
(* masterchain proof, the signatures and the first shard proof; the others     *)
(* hang below it, three to a cell, the innermost cell being built first.       *)
(*                                                                             *)
(* A shard proof is its position in `shard_blocks`; a cell is the sequence of  *)
(* the proofs it refers to, and a chain of cells, each the last reference of   *)
(* the one before, is the sequence of those.  The standard library's iterators *)
(* are modelled as std defines them: `iter` has left the positions front..back *)
(* of the slice, Rev yields them from the back, and `next_back` of Take first  *)
(* drops what lies beyond its n elements.                                      *)
EXTENDS CellPacking, Sequences

CONSTANT MaxSize    \* longest chain tried

ASSUME ProofChainAssumption == MaxSize \in Nat

VARIABLES
  size,     \* shard_blocks.len()
  stage,
  head,     \* shard proofs of the head cell
  front,    \* `iter`: first and last position not yet yielded
  back,
  left,     \* elements Take has still to yield
  groups,   \* iterations the loop has still to make
  leaf,     \* the innermost cell while it is filled
  child     \* the finished cells

chainVars == <<size, stage, head, front, back, left, groups, leaf, child>>

MaxRefs == 4        \* references a cell can have

Cells == Seq(Seq(1..MaxSize))

TypeOK ==
  /\ size \in 0..MaxSize
  /\ stage \in {"head", "leaf", "group", "done", "panic"}
  /\ head \in Seq(1..MaxSize)
  /\ front \in 1..size + 1
  /\ back \in front - 1..size
  /\ left \in 0..PerCell - 1
  /\ groups \in 0..MaxSize
  /\ leaf \in Seq(1..MaxSize)
  /\ child \in Cells

ChainInit ==
  /\ size \in 0..MaxSize
  /\ stage = "head"
  /\ head = <<>>
  /\ front = 1
  /\ back = size
  /\ left = 0
  /\ groups = 0
  /\ leaf = <<>>
  /\ child = <<>>

-------------------------------------------------------------------------------
Remaining == back - front + 1   \* iter.len()

\* Mutation: a cell that is not full counts too.
GroupsRoundedUp == (size + 1) \div PerCell

\* `remaining / 3`
Groups == (size - 1) \div PerCell

\* The head cell takes the first shard proof; a masterchain transaction has none.
HeadCell ==
  /\ stage = "head"
  /\ IF size = 0
     THEN stage' = "done" /\ UNCHANGED <<head, front, left, groups>>
     ELSE /\ stage' = "leaf"
          /\ head' = <<1>>
          /\ front' = 2
          /\ left' = (size - 1) % PerCell
          /\ groups' = Groups
  /\ UNCHANGED <<size, back, leaf, child>>

\* `iter.by_ref().take(remaining % 3).rev()` over an already reversed iter: Take
\* asks for nth_back(len - n), which drops the proofs before its last n.
Pull ==
  LET at == front + (Remaining - left) IN
  /\ stage = "leaf"
  /\ left > 0
  /\ leaf' = Append(leaf, at)
  /\ front' = at + 1
  /\ left' = left - 1
  /\ UNCHANGED <<size, stage, head, back, groups, child>>

LeafCell ==
  /\ stage = "leaf"
  /\ left = 0
  /\ stage' = "group"
  /\ child' = IF leaf = <<>> THEN <<>> ELSE <<leaf>>
  /\ UNCHANGED <<size, head, front, back, left, groups, leaf>>

\* Mutation: the cell's proofs back to front.
Backwards == [i \in 1..PerCell |-> back + 1 - i]

\* sc3, sc2, sc1: the last proofs left, in the order of the chain.
LastProofs == [i \in 1..PerCell |-> back - PerCell + i]

\* The three unwraps of `iter.next()`.
Available == Remaining >= PerCell

GroupCell ==
  /\ stage = "group"
  /\ groups > 0
  /\ Available
  /\ child' = <<LastProofs>> \o child
  /\ back' = back - PerCell
  /\ groups' = groups - 1
  /\ UNCHANGED <<size, stage, head, front, left, leaf>>

Panic ==
  /\ stage = "group"
  /\ groups > 0
  /\ ~Available
  /\ stage' = "panic"
  /\ UNCHANGED <<size, head, front, back, left, groups, leaf, child>>

Finish ==
  /\ stage = "group"
  /\ groups = 0
  /\ stage' = "done"
  /\ UNCHANGED <<size, head, front, back, left, groups, leaf, child>>

ChainNext == HeadCell \/ Pull \/ LeafCell \/ GroupCell \/ Panic \/ Finish

ChainSpec == ChainInit /\ [][ChainNext]_chainVars

-------------------------------------------------------------------------------
(* Properties. *)

\* A cell's proofs are consecutive, and the next cell goes on where it ends.
Contiguous(cells) ==
  /\ \A k \in DOMAIN cells : \A i \in DOMAIN cells[k] : cells[k][i] = cells[k][1] + i - 1
  /\ \A k \in DOMAIN cells : k > 1 => cells[k][1] = cells[k - 1][1] + Len(cells[k - 1])

\* A finished chain, read cell by cell from the head, is shard_blocks: no proof
\* is missing, repeated or out of place (make_proof_chain).
ReadsBack ==
  stage = "done" /\ size > 0 =>
    /\ head = <<1>>
    /\ Contiguous(child)
    /\ IF child = <<>> THEN size = 1
       ELSE /\ child[1][1] = 2
            /\ child[Len(child)][1] + Len(child[Len(child)]) - 1 = size

\* No cell needs more references than it has, the one to its child included:
\* store_reference never fails.
CellsFit ==
  \A k \in DOMAIN child :
    /\ Len(child[k]) > 0
    /\ Len(child[k]) + (IF k < Len(child) THEN 1 ELSE 0) <= MaxRefs

\* Up to four shard blocks, or any whole number of cells after the first block,
\* are packed; every other chain ends in a panic (make_proof_chain's unwraps).
PacksWholeCells ==
  /\ stage = "done" => Packs(size)
  /\ stage = "panic" => ~Packs(size)

\* "Build merkle proof cell which contains a proof chain in its root": a chain
\* is built of whatever shard blocks it is given.
NeverPanics == stage # "panic"
===============================================================================
