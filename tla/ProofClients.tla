---------------------------- MODULE ProofClients ----------------------------
(* build_proof of proof-api-ton and of proof-api-legacy: the masterchain block *)
(* that commits a transaction's block, the validator set that signed it, and   *)
(* the shard blocks between the two are collected by one request after another *)
(* to nodes of the network.                                                    *)
(*                                                                             *)
(* External: the network.  Its blocks do not change; nodes may lag, answer     *)
(* with an error and hold different signatures of a block, but do not lie.     *)
(* One shard that never splits.  A block number stands for the block and its   *)
(* (pruned) proof; how the proofs are packed is ProofChain, and CellPacking    *)
(* says for which chains that is a panic of the request's task.                *)
EXTENDS CellPacking, Sequences

CONSTANTS
  McCount,      \* masterchain blocks
  KeyBlocks,
  PrevKey,      \* prev_key_block_seqno of each masterchain block but the first
  Vset,         \* the current validator set of each key block's config
  Validators,
  Weight,       \* the weight of each set of validators
  ShardBlocks,
  Ref,          \* the masterchain block each shard block was made on
  CommittedBy,  \* the masterchain block that brought it in
  Top           \* the last shard block each masterchain block knows

\* Numbered from a key block on: the one whose validators sign block 2.
McBlocks == 2..McCount

ASSUME ChainAssumption ==
  /\ McCount \in Nat \ {0}
  /\ KeyBlocks \subseteq 1..McCount
  /\ 1 \in KeyBlocks
  /\ PrevKey \in [McBlocks -> KeyBlocks]
  /\ \A m \in McBlocks : /\ PrevKey[m] < m
                         /\ \A k \in KeyBlocks : k < m => k <= PrevKey[m]
  /\ ShardBlocks \subseteq Nat \ {0}
  /\ CommittedBy \in [ShardBlocks -> McBlocks]
  /\ Ref \in [ShardBlocks -> 1..McCount]
  /\ \A b \in ShardBlocks : Ref[b] < CommittedBy[b]
  /\ Top \in [McBlocks -> Nat]
  /\ \A b \in ShardBlocks : /\ b <= Top[CommittedBy[b]]
                              /\ b..Top[CommittedBy[b]] \subseteq ShardBlocks

\* utime_since names a validator set; the first `main` of its list sign.
ASSUME VsetAssumption ==
  /\ Vset \in [KeyBlocks -> [since : Nat, list : Seq(Validators), main : Nat \ {0}]]
  /\ \A k \in KeyBlocks :
       /\ Vset[k].main <= Len(Vset[k].list)
       /\ \A i, j \in 1..Len(Vset[k].list) : Vset[k].list[i] = Vset[k].list[j] => i = j
  /\ Weight \in [SUBSET Validators -> Nat]
  /\ Weight[{}] = 0

VARIABLES
  head,         \* last masterchain block of the network
  client,       \* whose build_proof it is
  target,       \* the transaction's block
  pc,           \* the request under way, or how it all ended
  mc,           \* mc_block_id, or master_seq_no
  prev,         \* prev_block_id
  key,          \* the key block whose validator set is used
  signed,       \* the signatures a node has answered with
  cursor,       \* the shard block to fetch next
  sigs,         \* the signatures dict: index and signer
  chain,        \* shard_proofs
  missed        \* a node did not answer (history)

request == <<client, target>>
found == <<mc, prev, key, signed>>
proof == <<cursor, sigs, chain>>
vars == <<head, client, target, pc, mc, prev, key, signed, cursor, sigs, chain, missed>>

Targets == [kind : {"mc"}, block : McBlocks] \cup [kind : {"shard"}, block : ShardBlocks]
InMasterchain == target.kind = "mc"

\* The masterchain block that makes a block final.
Commits(t) == IF t.kind = "mc" THEN t.block ELSE CommittedBy[t.block]

Awaits == {"find", "block", "links", "prev", "proof", "config", "key", "mc_block", "shards"}
Indices == UNION {0..Len(Vset[k].list) - 1 : k \in KeyBlocks}

TypeOK ==
  /\ head \in 1..McCount
  /\ client \in {"ton", "legacy"}
  /\ target \in Targets
  /\ pc \in Awaits \cup {"idle", "done", "error", "panic"}
  /\ mc \in {0} \cup McBlocks
  /\ prev \in 0..McCount
  /\ key \in {0} \cup KeyBlocks
  /\ signed \subseteq Validators
  /\ cursor \in {0} \cup ShardBlocks
  /\ sigs \subseteq [index : Indices, by : Validators]
  /\ chain \in Seq(ShardBlocks)
  /\ missed \in BOOLEAN

Init ==
  /\ head = 1
  /\ client \in {"ton", "legacy"}
  /\ target \in Targets
  /\ pc = "idle"
  /\ mc = 0
  /\ prev = 0
  /\ key = 0
  /\ signed = {}
  /\ cursor = 0
  /\ sigs = {}
  /\ chain = <<>>
  /\ missed = FALSE

-------------------------------------------------------------------------------
(* The network. *)

KeyAtOrBefore(m) == IF m \in KeyBlocks THEN m ELSE PrevKey[m]

Main(k) == {Vset[k].list[i] : i \in 1..Vset[k].main}

\* Signatures a node may hold for block m: more than two thirds of the weight of
\* the set that was current before it.
Signatures(m) ==
  LET main == Main(PrevKey[m]) IN
  {S \in SUBSET main : 3 * Weight[S] > 2 * Weight[main]}

\* liteServer.getBlockProof: back to the last key block, then forward to m.
BlockProof(p, m) ==
  LET forward == [forward |-> TRUE, from |-> KeyAtOrBefore(p), to |-> m] IN
  IF p \in KeyBlocks
  THEN <<forward>>
  ELSE <<[forward |-> FALSE, from |-> p, to |-> KeyAtOrBefore(p)], forward>>

\* liteServer.getShardBlockProof: from m to its top shard block, then down to b.
\* A link is a proof of `of` that holds the id of the block `to`.
Links(m, b) ==
  [i \in 1..Top[m] - b + 1 |->
     [of |-> IF i = 1 THEN 0 ELSE Top[m] - i + 2, to |-> Top[m] - i + 1]]

NewBlock ==
  /\ head < McCount
  /\ head' = head + 1
  /\ UNCHANGED <<request, pc, found, proof, missed>>

-------------------------------------------------------------------------------
(* Both clients. *)

Request(c, t) ==
  /\ pc \in {"idle", "done", "error", "panic"}
  /\ client' = c
  /\ target' = t
  /\ pc' = "find"
  /\ mc' = 0 /\ prev' = 0 /\ key' = 0 /\ signed' = {}
  /\ cursor' = 0 /\ sigs' = {} /\ chain' = <<>>
  /\ missed' = FALSE
  /\ UNCHANGED head

\* A node lags, has no such block or fails, or the request times out.
NodeFails ==
  /\ pc \in Awaits
  /\ pc' = "error"
  /\ missed' = TRUE
  /\ UNCHANGED <<head, request, found, proof>>

\* find_transaction_block_id, get_tx_info
FindTx ==
  /\ pc = "find"
  /\ Commits(target) <= head
  /\ pc' = "block"
  /\ mc' = IF client = "legacy" THEN Commits(target) ELSE mc
  /\ UNCHANGED <<head, request, prev, key, signed, proof, missed>>

\* Mutation: indices from one.
PreparedFromOne(S, k) ==
  {[index |-> i, by |-> Vset[k].list[i]] :
     i \in {j \in 1..Len(Vset[k].list) : Vset[k].list[j] \in S}}

\* prepare_signatures' dict
Prepared(S, k) ==
  {[index |-> i - 1, by |-> Vset[k].list[i]] :
     i \in {j \in 1..Len(Vset[k].list) : Vset[k].list[j] \in S}}

\* Its errors: no signature, or one of no validator of the set.
Unprepared(S, k) ==
  S = {} \/ \E v \in S : \A i \in 1..Len(Vset[k].list) : Vset[k].list[i] # v

\* The signatures are prepared under k's set; `next` comes after it.
Prepare(S, k, next) ==
  /\ pc' = IF Unprepared(S, k) THEN "error" ELSE next
  /\ sigs' = IF Unprepared(S, k) THEN {} ELSE Prepared(S, k)

\* make_proof_chain comes last.
Ending(proofs) == IF Packs(Len(proofs)) THEN "done" ELSE "panic"

-------------------------------------------------------------------------------
(* TonClient::build_proof. *)

\* make_tx_proof; a masterchain block names its predecessor itself.
TonBlock ==
  /\ client = "ton" /\ pc = "block"
  /\ pc' = IF InMasterchain THEN "proof" ELSE "links"
  /\ mc' = IF InMasterchain THEN target.block ELSE 0
  /\ prev' = IF InMasterchain THEN target.block - 1 ELSE 0
  /\ UNCHANGED <<head, request, key, signed, proof, missed>>

\* get_shard_block_proof
TonLinks ==
  /\ pc = "links"
  /\ pc' = "prev"
  /\ mc' = CommittedBy[target.block]
  /\ UNCHANGED <<head, request, prev, key, signed, proof, missed>>

\* lookup_block(saturating_prev)
TonPrev ==
  /\ pc = "prev"
  /\ pc' = "proof"
  /\ prev' = mc - 1
  /\ UNCHANGED <<head, request, mc, key, signed, proof, missed>>

\* Mutation: the first step, whatever it is.
FirstStep(steps) == steps[1]

\* parse_mc_block_proof: the first forward step.
ForwardStep(steps) == IF steps[1].forward THEN steps[1] ELSE steps[2]

\* The first link proves the masterchain block, the others a shard block each.
Linked(links) == [i \in 1..Len(links) - 1 |-> links[i + 1].of]

TonChain ==
  IF InMasterchain THEN <<>> ELSE Append(Linked(Links(mc, target.block)), target.block)

\* get_block_proof: the step must lead to the block; its config proof may lack
\* the validator set.
TonProof(S, pruned) ==
  LET step == ForwardStep(BlockProof(prev, mc)) IN
  /\ pc = "proof"
  /\ signed' = S
  /\ key' = step.from
  /\ IF step.to = mc /\ ~pruned
     THEN Prepare(S, step.from, Ending(TonChain)) /\ chain' = TonChain
     ELSE /\ pc' = IF step.to = mc THEN "config" ELSE "error"
          /\ UNCHANGED <<sigs, chain>>
  /\ UNCHANGED <<head, request, mc, prev, cursor, missed>>

\* "fallback to downloading a full key block"
TonConfig ==
  /\ pc = "config"
  /\ Prepare(signed, key, Ending(TonChain))
  /\ chain' = TonChain
  /\ UNCHANGED <<head, request, found, cursor, missed>>

-------------------------------------------------------------------------------
(* LegacyClient::build_proof. *)

\* Mutation: a key block's own set.
OwnKey == KeyAtOrBefore(IF InMasterchain THEN target.block ELSE Ref[target.block])

\* prev_key_block_seqno in the header of the transaction's block
HeaderKey == IF InMasterchain THEN PrevKey[target.block] ELSE KeyAtOrBefore(Ref[target.block])

LegacyBlock(S) ==
  /\ client = "legacy" /\ pc = "block"
  /\ pc' = "key"
  /\ key' = HeaderKey
  /\ signed' = IF InMasterchain THEN S ELSE {}
  /\ UNCHANGED <<head, request, mc, prev, proof, missed>>

LegacyKey ==
  /\ pc = "key"
  /\ IF InMasterchain
     THEN Prepare(signed, key, Ending(chain))
     ELSE pc' = "mc_block" /\ sigs' = sigs
  /\ UNCHANGED <<head, request, found, cursor, chain, missed>>

\* make_mc_proof gives latest_shard_seqno.
LegacyMcBlock(S) ==
  /\ pc = "mc_block"
  /\ signed' = S
  /\ Prepare(S, key, "shards")
  /\ cursor' = Top[mc]
  /\ UNCHANGED <<head, request, mc, prev, key, chain, missed>>

\* loaded.block_id.seqno + 1
LastPivot == target.block + 1

LegacyShardBlock ==
  /\ pc = "shards"
  /\ cursor >= LastPivot
  /\ chain' = Append(chain, cursor)
  /\ cursor' = cursor - 1
  /\ UNCHANGED <<head, request, pc, found, sigs, missed>>

LegacyFinish ==
  /\ pc = "shards"
  /\ cursor < LastPivot
  /\ chain' = Append(chain, target.block)
  /\ pc' = Ending(chain')
  /\ UNCHANGED <<head, request, found, cursor, sigs, missed>>

-------------------------------------------------------------------------------
Ton ==
  \/ TonBlock \/ TonLinks \/ TonPrev \/ TonConfig
  \/ pc = "proof" /\ \E S \in Signatures(mc), pruned \in BOOLEAN : TonProof(S, pruned)

Legacy ==
  \/ \E S \in Signatures(Commits(target)) : LegacyBlock(S)
  \/ LegacyKey
  \/ pc = "mc_block" /\ \E S \in Signatures(mc) : LegacyMcBlock(S)
  \/ LegacyShardBlock \/ LegacyFinish

Next ==
  \/ NewBlock
  \/ \E c \in {"ton", "legacy"}, t \in Targets : Request(c, t)
  \/ FindTx \/ NodeFails
  \/ Ton \/ Legacy

Spec == Init /\ [][Next]_vars

-------------------------------------------------------------------------------
(* What the bridge makes of a proof: it knows each validator set by its        *)
(* utime_since as make_epoch_data has stored it.                               *)

EpochValidators(v) == {[index |-> i - 1, by |-> v.list[i]] : i \in 1..v.main}
CutoffWeight(k) == (Weight[Main(k)] * 2) \div 3 + 1
Signers == {e.by : e \in sigs}

\* Block by block from the top shard block down to the transaction's.
Downward == IF InMasterchain
            THEN <<>>
            ELSE [i \in 1..Top[mc] - target.block + 1 |-> Top[mc] - i + 1]

-------------------------------------------------------------------------------
(* Properties. *)

\* The legacy client takes the validator set from the header of the transaction's
\* own block, and the signatures from the block that commits it.  The two agree
\* unless a key block comes between; networks start new shard sessions after a key
\* block, so that it does not.
Grounded ==
  client = "legacy" /\ ~InMasterchain =>
    \A k \in KeyBlocks : ~(Ref[target.block] < k /\ k < CommittedBy[target.block])

\* A proof convinces the bridge: the block that commits the transaction, under the
\* set that signed it, each signature at its signer's index, their weight at the
\* bridge's cutoff, and an unbroken chain down to the transaction's block
\* (build_proof, prepare_signatures, make_epoch_data).
ProofVerifies ==
  pc = "done" /\ Grounded =>
    LET k == PrevKey[mc] IN
    /\ mc = Commits(target)
    /\ Vset[key].since = Vset[k].since
    /\ sigs \subseteq EpochValidators(Vset[k])
    /\ Weight[Signers] >= CutoffWeight(k)
    /\ chain = Downward

\* The shard blocks from the transaction's up to the last one committed with it.
ShardProofs == IF InMasterchain THEN 0 ELSE Top[Commits(target)] - target.block + 1

\* A request for a transaction ends with an error only because a node failed, and
\* in a panic just when the chain has a length that make_proof_chain cannot pack,
\* in either client: whatever signatures and steps honest nodes answer with, any
\* other proof can be built of them (build_proof).
FailsForCause ==
  /\ pc = "error" /\ Grounded => missed
  /\ pc = "done" => Packs(ShardProofs)
  /\ pc = "panic" => ~Packs(ShardProofs)
===============================================================================
