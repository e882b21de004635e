---------------------------- MODULE KeyBlockFetch -----------------------------
(* How an uploader finds the key block to send: find_next_key_block goes back  *)
(* from the latest key block to the bridge's epoch, and each key block it does *)
(* not remember is put together by the source's NetworkClient, request by      *)
(* request: TonClient, TychoClient or LegacyClient.  Uploader takes the whole  *)
(* walk as one step and goes on from where this module ends.                   *)
(*                                                                             *)
(* External: the source network.  Its blocks do not change; every request may  *)
(* be answered by another node, which may lag, fail or lack the signatures,    *)
(* but does not lie.  Block 0 is the zerostate: no node has it as a block.     *)
EXTENDS Integers, FiniteSets, Sequences, FiniteSetsExt

CONSTANTS
  Kinds,        \* clients: "ton", "tycho", "legacy"
  Chains,       \* histories of the masterchain: its key blocks, and the epoch
                \* each block leaves
  Vset,         \* the validator set of each epoch: its start and members
  Quorums       \* the sets of signatures a node may hold, by epoch

\* The epoch a block of a history leaves.
EpochOf(c, n) == IF n = 0 THEN 0 ELSE c.epoch[n]

\* Epochs never fall, and go on one at a time, each by a key block; a later set
\* starts later.  A node has some signatures, each of another member of the set.
ASSUME KeyBlockFetchAssumption ==
  \A c \in Chains :
    LET History == 0..Len(c.epoch)
        Epochs == {EpochOf(c, n) : n \in History}
    IN
    /\ c.epoch \in Seq(Nat) /\ c.epoch # <<>>
    /\ c.keys \subseteq History \ {0}
    /\ \A a, b \in History : a < b =>
         /\ EpochOf(c, a) <= EpochOf(c, b)
         /\ EpochOf(c, b) <= EpochOf(c, b - 1) + 1
         /\ EpochOf(c, a) = EpochOf(c, b) \/ \E k \in c.keys : a < k /\ k <= b
    /\ \A e \in Epochs : Vset[e].since \in Nat
    /\ \A d, e \in Epochs : d < e => Vset[d].since < Vset[e].since
    /\ \A e \in Epochs :
         LET list == Vset[e].list IN
         /\ \A i, j \in DOMAIN list : list[i] = list[j] => i = j
         /\ \A S \in Quorums[e] : S # {} /\ S \subseteq {list[i] : i \in DOMAIN list}

VARIABLES
  chain,
  head,         \* last masterchain block
  kind,         \* the source's client
  bridge,       \* current_vset_utime_since, as its epoch
  pc,           \* the request under way, or how the walk has ended
  latest,       \* where the walk begins
  cursor,       \* latest_seqno: the key block it has come to
  result,       \* the oldest key block newer than the bridge's epoch
  cache,        \* key_blocks_cache: the signatures of each key block loaded
  sigs,         \* what is sent: index and signer
  missed        \* a node has failed in this walk (history)

network == <<chain, kind>>
vars == <<chain, head, kind, bridge, pc, latest, cursor, result, cache, sigs, missed>>

-------------------------------------------------------------------------------
(* The network. *)

KeyBlocks == chain.keys
EpochAt(n) == EpochOf(chain, n)
PrevKey(n) == Max({k \in KeyBlocks : k < n} \cup {0})
LatestKey(n) == PrevKey(n + 1)

\* A masterchain block is signed by the set that was current before it.
Signatures(n) == Quorums[EpochAt(n - 1)]

Since(n) == Vset[EpochAt(n)].since

\* Config parameter 32: the set before the current one, if there was one.
HasPrevVset(n) == EpochAt(n) > 0
PrevVset(n) == Vset[EpochAt(n) - 1]

NewBlock ==
  /\ head < Len(chain.epoch)
  /\ head' = head + 1
  /\ UNCHANGED <<network, bridge, pc, latest, cursor, result, cache, sigs, missed>>

-------------------------------------------------------------------------------
(* Requests. *)

\* TonClient::get_latest_key_block_seqno, from the header of the last block.
LatestOf(n) == IF n \in KeyBlocks THEN n ELSE PrevKey(n)

\* No node of TON looks up the zerostate, as a block or as the one before.
Looked(n) == n # 0

Ends == {"idle", "none", "ready", "error"}
Requests == {"last", "last_block", "lookup", "block", "prev", "proof", "key_block"}

Goto(next) ==
  /\ pc' = next
  /\ UNCHANGED <<network, head, bridge, latest, cursor, result, cache, sigs, missed>>

\* A round begins, at whatever epoch its bridge account says.
Begin(e) ==
  /\ pc \in Ends
  /\ bridge' = e
  /\ pc' = "last"
  /\ latest' = 0 /\ cursor' = 0 /\ result' = 0
  /\ sigs' = {}
  /\ missed' = FALSE
  /\ UNCHANGED <<network, head, cache>>

\* An error, a timeout, no block, or no signatures.
NodeFails ==
  /\ pc \in Requests
  /\ pc' = "error"
  /\ missed' = TRUE
  /\ UNCHANGED <<network, head, bridge, latest, cursor, result, cache, sigs>>

StartAt(n) ==
  /\ pc' = "walk"
  /\ latest' = n
  /\ cursor' = n
  /\ UNCHANGED <<network, head, bridge, result, cache, sigs, missed>>

\* TychoClient: the latest config of a node that has got as far as n.
TychoLatest(n) ==
  /\ pc = "last"
  /\ kind = "tycho"
  /\ StartAt(LatestKey(n))

\* LegacyClient: the last of the node's key blocks.
LegacyLatest(n) ==
  /\ pc = "last"
  /\ kind = "legacy"
  /\ IF LatestKey(n) = 0 THEN Goto("error") ELSE StartAt(LatestKey(n))

\* TonClient: the last block of one node is asked for at another.
AnswerLast(n) ==
  /\ pc = "last"
  /\ kind = "ton"
  /\ pc' = "last_block"
  /\ cursor' = n
  /\ UNCHANGED <<network, head, bridge, latest, result, cache, sigs, missed>>

AnswerLastBlock ==
  /\ pc = "last_block"
  /\ StartAt(LatestOf(cursor))

-------------------------------------------------------------------------------
(* find_next_key_block *)

\* Mutation: the walk keeps the newest key block it has met.
CompareNewest(k, bridge_since) ==
  CASE Since(k) > bridge_since -> [to |-> "walk", result |-> IF result = 0 THEN k ELSE result]
    [] Since(k) < bridge_since -> [to |-> "none", result |-> 0]
    [] OTHER -> [to |-> IF result = 0 THEN "none" ELSE "found", result |-> result]

\* One turn of the loop, once it has the key block.
Compare(k, bridge_since) ==
  CASE Since(k) > bridge_since -> [to |-> "walk", result |-> k]
    [] Since(k) < bridge_since -> [to |-> "none", result |-> 0]
    [] OTHER -> [to |-> IF result = 0 THEN "none" ELSE "found", result |-> result]

Examine ==
  LET next == Compare(cursor, Vset[bridge].since) IN
  /\ pc' = next.to
  /\ result' = next.result
  /\ cursor' = IF next.to = "walk" THEN PrevKey(cursor) ELSE cursor
  /\ UNCHANGED <<network, head, bridge, latest, sigs, missed>>

\* get_key_block of the uploader: remembered, or asked for.
GetKeyBlock ==
  /\ pc = "walk"
  /\ IF cursor \in DOMAIN cache
     THEN Examine /\ UNCHANGED cache
     ELSE Goto(IF kind = "ton" THEN "lookup" ELSE "key_block")

Remember(S) ==
  /\ cache' = [k \in DOMAIN cache \cup {cursor} |-> IF k = cursor THEN S ELSE cache[k]]
  /\ Examine

\* TonClient::get_key_block: lookup_block, get_block (a key block has a config),
\* lookup_block of the one before, get_block_proof (one forward link, whose
\* signatures are the block's).
AnswerLookup ==
  /\ pc = "lookup"
  /\ Goto(IF Looked(cursor) THEN "block" ELSE "error")

AnswerBlock ==
  /\ pc = "block"
  /\ Goto(IF cursor \in KeyBlocks THEN "prev" ELSE "error")

AnswerPrev ==
  /\ pc = "prev"
  /\ Goto(IF Looked(PrevKey(cursor)) THEN "proof" ELSE "error")

AnswerProof ==
  /\ pc = "proof"
  /\ \E S \in Signatures(cursor) : Remember(S)

\* TychoClient::get_key_block: a node has proofs of key blocks only.
TychoKeyBlock ==
  /\ pc = "key_block"
  /\ kind = "tycho"
  /\ IF cursor \in KeyBlocks
     THEN \E S \in Signatures(cursor) : Remember(S)
     ELSE Goto("error")

\* LegacyClient::get_key_block: any block with its signatures; a config shows
\* that it is a key block.
LegacyKeyBlock ==
  /\ pc = "key_block"
  /\ kind = "legacy"
  /\ IF cursor \in KeyBlocks
     THEN \E S \in Signatures(cursor) : Remember(S)
     ELSE Goto("error")

-------------------------------------------------------------------------------
(* send_key_block, up to the library. *)

\* Mutation: the signatures are looked up in the block's current set.
VsetOfCurrent(n) == [there |-> TRUE, list |-> Vset[EpochAt(n)].list]

VsetOf(n) == [there |-> HasPrevVset(n), list |-> IF HasPrevVset(n) THEN PrevVset(n).list ELSE <<>>]

\* prepare_signatures: by index; every signer must be in the list.
Prepared(S, list) == {s \in [index : DOMAIN list, by : S] : list[s.index] = s.by}

Prepare ==
  LET vset == VsetOf(result)
      prepared == Prepared(cache[result], vset.list)
  IN
  /\ pc = "found"
  /\ IF /\ vset.there
        /\ prepared # {}
        /\ \A v \in cache[result] : \E s \in prepared : s.by = v
     THEN /\ pc' = "ready"
          /\ sigs' = prepared
     ELSE /\ pc' = "error"
          /\ UNCHANGED sigs
  /\ UNCHANGED <<network, head, bridge, latest, cursor, result, cache, missed>>

\* The key block is accepted: split_off(prev_key_block_seqno).
Sent ==
  /\ pc = "ready"
  /\ pc' = "idle"
  /\ cache' = [k \in {j \in DOMAIN cache : j >= PrevKey(result)} |-> cache[k]]
  /\ UNCHANGED <<network, head, bridge, latest, cursor, result, sigs, missed>>

-------------------------------------------------------------------------------
Init ==
  /\ chain \in Chains
  /\ head = 1
  /\ kind \in Kinds
  /\ bridge = 0
  /\ pc = "idle"
  /\ latest = 0 /\ cursor = 0 /\ result = 0
  /\ cache = <<>>
  /\ sigs = {}
  /\ missed = FALSE

Next ==
  \/ NewBlock
  \/ \E n \in 0..head : Begin(EpochAt(n))
  \/ NodeFails
  \/ \E n \in 1..head : TychoLatest(n) \/ LegacyLatest(n) \/ AnswerLast(n)
  \/ AnswerLastBlock
  \/ GetKeyBlock
  \/ AnswerLookup
  \/ AnswerBlock
  \/ AnswerPrev
  \/ AnswerProof
  \/ TychoKeyBlock
  \/ LegacyKeyBlock
  \/ Prepare
  \/ Sent

Spec == Init /\ [][Next]_vars

-------------------------------------------------------------------------------
(* Properties. *)

NewerThan(e) == {k \in KeyBlocks : EpochAt(k) > e}

\* Whatever nodes the walk meets and whatever it remembers, the key block made
\* ready is the first of the epoch after the bridge's, and its signatures are
\* those of the bridge's own validators, each under its own index
\* (find_next_key_block, the clients' get_key_block, prepare_signatures).
NextForBridge ==
  pc = "ready" =>
    /\ result = Min(NewerThan(bridge))
    /\ EpochAt(result) = bridge + 1
    /\ {s.by : s \in sigs} \in Quorums[bridge]
    /\ \A s \in sigs : Vset[bridge].list[s.index] = s.by

\* Key blocks no client of this kind can load: the zerostate, and with TonClient,
\* which looks up the key block before, the first key block.
Unreadable ==
  {0} \cup (IF kind = "ton" /\ KeyBlocks # {} THEN {Min(KeyBlocks)} ELSE {})

\* The last key block of an epoch, where the walk ends.
LastOf(e) == Max({k \in KeyBlocks : EpochAt(k) = e} \cup {0})

\* A walk fails by a node, or at the first key block of the chain, where it
\* cannot help failing: a bridge whose epoch ends with such a block is never
\* served (get_key_block, the zerostate to do of TonClient).
WalkFailsByNodes ==
  /\ pc = "error" => missed \/ latest \in Unreadable \/ LastOf(bridge) \in Unreadable
  /\ pc = "ready" => LastOf(bridge) \notin Unreadable

===============================================================================
