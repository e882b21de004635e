----------------------------- MODULE PrunedBlocks -----------------------------
(* util::block: what is kept of a block when it is stored (make_pruned_block,  *)
(* make_pivot_block_proof), and what is made of the kept parts later           *)
(* (make_tx_proof, make_mc_proof, parse_latest_shard_blocks).                  *)
(*                                                                             *)
(* A block is a tree of cells, here a set of named parts.  A function reads    *)
(* parts under a UsageTree; those it has read make its Merkle proof, the rest  *)
(* is pruned (small cells, which are kept as well, are left out).  Parsing a   *)
(* pruned cell is an error, asking only for its data is not.                   *)
(*                                                                             *)
(* External: tycho-types and the networks' blocks.  A shard is the sequence of *)
(* its workchain and the bits of its prefix; `tops` gives the last block of    *)
(* each shard that a masterchain block knows, so the shards of a workchain are *)
(* the leaves of a binary tree.                                                *)
EXTENDS Integers, FiniteSets, SequencesExt

CONSTANTS
  Blocks,       \* blocks of the networks
  Shards,       \* shards asked for, leaves or not
  Accounts, Lts,
  Width         \* bits of a shard prefix, 64 in the code

VARIABLES
  block,        \* the block that is stored
  pruned,       \* parts kept for transaction proofs
  pivot,        \* parts kept for chains and for deletion
  index,        \* the transactions on_tx was called with
  pc,
  shard,        \* shard asked for
  root,         \* find_shard_descr: the cell it has come to
  prefix,       \* and the bits left, highest first
  visited,      \* parts make_mc_proof has read
  answer        \* the last answer

stored == <<pruned, pivot, index>>
walk == <<shard, root, prefix, visited>>
vars == <<block, pruned, pivot, index, pc, shard, root, prefix, visited, answer>>

-------------------------------------------------------------------------------
(* Blocks.  The version of each cell is the last digit of its tag. *)

InMasterchain(b) == b.custom.there
Txs == Accounts \X Lts

\* The references of the header, in order.
InfoRefs(b) ==
  (IF InMasterchain(b) THEN <<>> ELSE <<"master_ref">>) \o <<"prev_ref">>
    \o (IF b.info.after_fork THEN <<"prev_vert_ref">> ELSE <<>>)

Info == {<<"info">>}
InfoAll(b) == Info \cup {<<"info", r>> : r \in Range(InfoRefs(b))}
Account(a) == <<"account", a>>
Tx(t) == <<"tx", t[1], t[2]>>
Node(s) == <<"shards", s>>

\* The cells of the shard trees.
Nodes(b) == UNION {{SubSeq(s, 1, n) : n \in 1..Len(s)} : s \in DOMAIN b.custom.tops}

AllParts(b) ==
  {<<"block">>, <<"extra">>, <<"accounts">>} \cup InfoAll(b)
    \cup {Account(t[1]) : t \in b.txs} \cup {Tx(t) : t \in b.txs}
    \cup {<<"extra", "wrapper">> : x \in {y \in {b} : b.extra.wrapped}}
    \cup (IF InMasterchain(b)
          THEN {<<"custom">>} \cup {Node(s) : s \in Nodes(b)} ELSE {})

-------------------------------------------------------------------------------
(* The three formats: which versions are read, and through which cells. *)

TonBlock(b) == b.version = 1
TychoBlock(b) == b.version = 2
LegacyBlock(b) == b.version \in {1, 2}

\* The header names its references by its flags.
ReadInfo(b) ==
  [ok |-> b.seqno # 0 /\ (b.info.after_fork => b.info.vert_seqno > 0),
   prev_ref |-> InfoRefs(b)[IF InMasterchain(b) THEN 1 ELSE 2]]

TonInfo(b) == [ReadInfo(b) EXCEPT !.ok = @ /\ b.info.version = 7]
TychoInfo(b) == [ReadInfo(b) EXCEPT !.ok = @ /\ b.info.version = 8]
LegacyInfo(b) == [ReadInfo(b) EXCEPT !.ok = @ /\ b.info.version \in {7, 8}]

\* `custom` is a reference of the extra cell; the newer legacy blocks have a cell
\* of its own in between.
TonExtra(b) == [ok |-> b.extra.version = 1, reads |-> {<<"extra">>}]
TychoExtra(b) == [ok |-> b.extra.version = 2, reads |-> {<<"extra">>}]
LegacyExtra(b) ==
  [ok |-> b.extra.version \in {1, 2},
   reads |-> {<<"extra">>} \cup
             (IF b.extra.version = 2 THEN {<<"extra", "wrapper">>} ELSE {})]

TonMcExtra(b) == b.custom.version = 1
TychoMcExtra(b) == b.custom.version = 1
LegacyMcExtra(b) == b.custom.version \in {1, 2}

\* The tags a shard description may have.
TonDescr(tag) == tag \in {10, 11}
TychoDescr(tag) == tag \in {10, 11}
LegacyDescr(tag) == tag \in 10..14

\* Block::load_from, load_info, load_extra, load_custom of the models.
LoadBlock(b) == CASE b.format = "ton" -> TonBlock(b)
                  [] b.format = "tycho" -> TychoBlock(b)
                  [] b.format = "legacy" -> LegacyBlock(b)
LoadInfo(b) == CASE b.format = "ton" -> TonInfo(b)
                 [] b.format = "tycho" -> TychoInfo(b)
                 [] b.format = "legacy" -> LegacyInfo(b)
LoadExtra(b) == CASE b.format = "ton" -> TonExtra(b)
                  [] b.format = "tycho" -> TychoExtra(b)
                  [] b.format = "legacy" -> LegacyExtra(b)
LoadCustom(b) == CASE b.format = "ton" -> TonMcExtra(b)
                   [] b.format = "tycho" -> TychoMcExtra(b)
                   [] b.format = "legacy" -> LegacyMcExtra(b)
LoadDescr(b) == CASE b.format = "ton" -> TonDescr(b.custom.descr)
                  [] b.format = "tycho" -> TychoDescr(b.custom.descr)
                  [] b.format = "legacy" -> LegacyDescr(b.custom.descr)

-------------------------------------------------------------------------------
(* Pruning. *)

\* Mutation: of the header only the root cell is kept.
PrunedPartsInfoRoot(b) ==
  {<<"block">>, <<"accounts">>} \cup LoadExtra(b).reads
    \cup (IF InMasterchain(b) THEN Info ELSE {})
    \cup {Account(t[1]) : t \in b.txs} \cup {Tx(t) : t \in b.txs}

\* make_pruned_block: the paths to the transactions, for the masterchain the
\* whole header.
PrunedParts(b) ==
  {<<"block">>, <<"accounts">>} \cup LoadExtra(b).reads
    \cup (IF InMasterchain(b) THEN InfoAll(b) ELSE {})
    \cup {Account(t[1]) : t \in b.txs} \cup {Tx(t) : t \in b.txs}

\* make_pivot_block_proof: the header and the shard trees, or how to go back.
PivotParts(b) ==
  IF InMasterchain(b)
  THEN {<<"block">>, <<"custom">>} \cup InfoAll(b) \cup LoadExtra(b).reads
         \cup {Node(s) : s \in Nodes(b)}
  ELSE {<<"block">>, <<"info", LoadInfo(b).prev_ref>>} \cup Info

\* The errors of the two on a full block.
Storable(b) ==
  /\ LoadBlock(b) /\ LoadExtra(b).ok
  /\ IF InMasterchain(b) THEN LoadCustom(b) ELSE LoadInfo(b).ok

-------------------------------------------------------------------------------
(* Answers, from the parts that are there. *)

Failed == [status |-> "error", parts |-> {}]
Absent == [status |-> "absent", parts |-> {}]
Proof(parts) == [status |-> "ok", parts |-> parts]

\* make_tx_proof: a dictionary that cannot be read has no such entry.
TxProof(b, there, t, include_info) ==
  LET header == IF include_info THEN Info ELSE {}
      data == IF include_info THEN {<<"info", LoadInfo(b).prev_ref>>} ELSE {}
      parsed == {<<"block">>, <<"accounts">>} \cup LoadExtra(b).reads \cup header
      path == {Account(t[1]), Tx(t)}
  IN
  IF ~(parsed \subseteq there /\ LoadBlock(b) /\ LoadExtra(b).ok
         /\ (include_info => LoadInfo(b).ok))
  THEN Failed
  ELSE IF ~(path \subseteq there) THEN Absent
  ELSE Proof((parsed \cup data \cup path) \cap there)

\* What make_mc_proof and parse_latest_shard_blocks read before the shard trees.
McParts(b) == {<<"block">>, <<"custom">>} \cup Info \cup LoadExtra(b).reads
McReadable(b, there) ==
  /\ McParts(b) \subseteq there
  /\ LoadBlock(b) /\ LoadInfo(b).ok /\ LoadExtra(b).ok /\ LoadCustom(b)

\* parse_latest_shard_blocks
TopShardBlocks(b, there) ==
  IF McReadable(b, there) /\ \A s \in Nodes(b) : Node(s) \in there
  THEN [status |-> "ok", tops |-> b.custom.tops]
  ELSE [status |-> "error", tops |-> <<>>]

-------------------------------------------------------------------------------
(* The prefix of a shard, a word of Width bits. *)

Bits == 1..Width

Zero == [i \in Bits |-> 0]
HighBit == [i \in Bits |-> IF i = 1 THEN 1 ELSE 0]

\* prefix <<= 1
Shifted(p) == [i \in Bits |-> IF i < Width THEN p[i + 1] ELSE 0]

\* ShardIdent::prefix: the shard's bits, a one, zeros.
PrefixOf(s) ==
  [i \in Bits |-> IF i < Len(s) THEN s[i + 1] ELSE IF i = Len(s) THEN 1 ELSE 0]

\* A network's blocks: a header can be read, a newer legacy block has the cell in
\* between, and no shard known to the masterchain lies inside another.
IsShard(s) == s \in Seq(Int) /\ Len(s) \in Bits

ASSUME PrunedAssumption ==
  /\ Width \in Nat \ {0}
  /\ \A s \in Shards : IsShard(s)
  /\ \A b \in Blocks :
       /\ b.format \in {"ton", "tycho", "legacy"} /\ b.txs \subseteq Txs
       /\ b.format = "legacy" /\ b.extra.version = 2 => b.extra.wrapped
       /\ InMasterchain(b) =>
            /\ LoadInfo(b).ok /\ LoadDescr(b)
            /\ \A s, t \in DOMAIN b.custom.tops : IsShard(s) /\ ~IsStrictPrefix(s, t)

-------------------------------------------------------------------------------
NoAnswer == [to |-> "nobody"]

Init ==
  /\ block \in Blocks
  /\ pruned = {}
  /\ pivot = {}
  /\ index = {}
  /\ pc = "full"
  /\ shard = <<>>
  /\ root = <<>>
  /\ prefix = Zero
  /\ visited = {}
  /\ answer = NoAnswer

\* ProofStorage::store_block, as far as it is about the block's cells.
StoreBlock ==
  /\ pc = "full"
  /\ Storable(block)
  /\ pc' = "stored"
  /\ pruned' = PrunedParts(block)
  /\ pivot' = PivotParts(block)
  /\ index' = block.txs
  /\ UNCHANGED <<block, walk, answer>>

\* build_proof for a transaction, known or not.
ProveTx(t) ==
  /\ pc = "stored"
  /\ answer' = [to |-> "tx", about |-> t,
                is |-> TxProof(block, pruned, t, InMasterchain(block))]
  /\ UNCHANGED <<block, stored, pc, walk>>

\* find_outdated_bound
FindBound ==
  /\ pc = "stored"
  /\ InMasterchain(block)
  /\ answer' = [to |-> "bound", is |-> TopShardBlocks(block, pivot)]
  /\ UNCHANGED <<block, stored, pc, walk>>

-------------------------------------------------------------------------------
(* make_mc_proof: find_shard_seqno goes down the tree by the shard's prefix. *)

IsFork(s) == \E below \in DOMAIN block.custom.tops : IsStrictPrefix(s, below)

FinishMc(is, seqno) ==
  /\ pc' = "stored"
  /\ answer' = [to |-> "mc", about |-> shard, is |-> is, seqno |-> seqno]
  /\ root' = <<>>
  /\ prefix' = Zero
  /\ visited' = {}

\* load_custom, get_workchain_shards
MakeMcProof(s) ==
  /\ pc = "stored"
  /\ InMasterchain(block)
  /\ shard' = s
  /\ IF McReadable(block, pivot) /\ SubSeq(s, 1, 1) \in Nodes(block)
     THEN /\ pc' = "descr"
          /\ root' = SubSeq(s, 1, 1)
          /\ prefix' = PrefixOf(s)
          /\ visited' = McParts(block)
          /\ answer' = NoAnswer
     ELSE /\ answer' = [to |-> "mc", about |-> s, is |-> Failed, seqno |-> 0]
          /\ UNCHANGED <<pc, root, prefix, visited>>
  /\ UNCHANGED <<block, stored>>

\* Mutation: the search ends at the leaf it meets, be it another shard's.
DescendToAnyLeaf ==
  /\ pc = "descr"
  /\ prefix # HighBit
  /\ IF Node(root) \in pivot /\ IsFork(root)
     THEN /\ root' = Append(root, prefix[1])
          /\ prefix' = Shifted(prefix)
          /\ visited' = visited \cup {Node(root)}
          /\ UNCHANGED <<pc, answer>>
     ELSE FinishMc(Proof(visited \cup {Node(root)}), block.custom.tops[root])
  /\ UNCHANGED <<block, stored, shard>>

\* One turn of find_shard_descr's loop: `bt_fork$1` is expected.
Descend ==
  /\ pc = "descr"
  /\ prefix # HighBit
  /\ IF Node(root) \in pivot /\ IsFork(root)
     THEN /\ root' = Append(root, prefix[1])
          /\ prefix' = Shifted(prefix)
          /\ visited' = visited \cup {Node(root)}
          /\ UNCHANGED <<pc, answer>>
     ELSE FinishMc(Failed, 0)
  /\ UNCHANGED <<block, stored, shard>>

\* `bt_leaf$0`, the description's tag, its seq_no.
ReadDescr ==
  /\ pc = "descr"
  /\ prefix = HighBit
  /\ IF Node(root) \in pivot /\ ~IsFork(root) /\ LoadDescr(block)
     THEN FinishMc(Proof(visited \cup {Node(root)}), block.custom.tops[root])
     ELSE FinishMc(Failed, 0)
  /\ UNCHANGED <<block, stored, shard>>

-------------------------------------------------------------------------------
Next ==
  \/ StoreBlock
  \/ \E t \in Txs : ProveTx(t)
  \/ FindBound
  \/ \E s \in Shards : MakeMcProof(s)
  \/ Descend
  \/ ReadDescr

Spec == Init /\ [][Next]_vars

-------------------------------------------------------------------------------
(* Properties. *)

\* Pruning changes no answer: the proof of a transaction, found by the index or
\* not, and the bound of a deletion are what the full block would give (the parts
\* make_pruned_block and make_pivot_block_proof keep against those their readers
\* need, in every format).
PruningIsTransparent ==
  /\ pc # "full" => index = block.txs
  /\ answer.to = "tx" =>
       LET full == TxProof(block, AllParts(block), answer.about, InMasterchain(block)) IN
       /\ answer.is = full
       /\ full.status = (IF answer.about \in index THEN "ok" ELSE "absent")
  /\ answer.to = "bound" => answer.is = [status |-> "ok", tops |-> block.custom.tops]

\* The masterchain proof for a shard is of that very shard: there is one if and
\* only if the block knows it, with its last seqno and the cells that lead to it,
\* never that of a shard it has split into or been split from.
ExactShard ==
  answer.to = "mc" =>
    LET s == answer.about
        path == {Node(SubSeq(s, 1, n)) : n \in 1..Len(s)}
    IN
    IF s \in DOMAIN block.custom.tops
    THEN /\ answer.is = Proof(McParts(block) \cup path)
         /\ answer.seqno = block.custom.tops[s]
    ELSE answer.is = Failed

===============================================================================
