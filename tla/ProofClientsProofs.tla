-------------------------- MODULE ProofClientsProofs --------------------------
(* Proofs about ProofClients for every chain, validator set and weights.       *)
EXTENDS ProofClients, TLAPS

\* The signatures kept are those of the block that commits the transaction,
\* prepared under the set that signed it.
Good == key = PrevKey[mc] /\ \E S \in Signatures(mc) : sigs = Prepared(S, key)

\* What TonClient::build_proof knows at each of its requests.
TonInv ==
  client = "ton" =>
    /\ pc \notin {"key", "mc_block", "shards"}
    /\ pc \in {"links", "prev"} => ~InMasterchain
    /\ pc \in {"prev", "proof", "config"} => mc = Commits(target)
    /\ pc \in {"proof", "config"} => prev = Commits(target) - 1
    /\ pc = "config" => key = PrevKey[mc] /\ signed \in Signatures(mc)

\* What LegacyClient::build_proof knows at each of its requests.
LegacyInv ==
  client = "legacy" =>
    /\ pc \notin {"links", "prev", "proof", "config"}
    /\ pc \in {"mc_block", "shards"} => ~InMasterchain
    /\ pc \in {"block", "key", "mc_block", "shards"} => mc = Commits(target)
    /\ pc \in {"key", "mc_block", "shards"} => key = HeaderKey
    /\ pc = "key" /\ InMasterchain => signed \in Signatures(mc)
    /\ pc = "shards" =>
         /\ cursor \in target.block..Top[mc]
         /\ chain = [i \in 1..Top[mc] - cursor |-> Top[mc] - i + 1]

\* The chain is empty until the shard blocks are fetched.
EmptyInv == pc \in Awaits \ {"shards"} => chain = <<>>

SignedInv == pc \in {"shards", "done"} /\ Grounded => Good

\* A finished chain is that of the target, however make_proof_chain has ended.
DoneInv ==
  pc \in {"done", "panic"} =>
    mc = Commits(target) /\ chain = Downward /\ pc = Ending(chain)

ErrorInv == pc = "error" /\ Grounded => missed

IInv ==
  TypeOK /\ TonInv /\ LegacyInv /\ EmptyInv /\ SignedInv /\ DoneInv /\ ErrorInv

-------------------------------------------------------------------------------
LEMMA Consts ==
  /\ McCount \in Nat \ {0}
  /\ KeyBlocks \subseteq 1..McCount /\ 1 \in KeyBlocks
  /\ \A m \in McBlocks : /\ m \in Nat /\ m >= 2 /\ m <= McCount
                         /\ PrevKey[m] \in KeyBlocks /\ PrevKey[m] < m
  /\ \A b \in ShardBlocks : /\ b \in Nat /\ b > 0
                            /\ CommittedBy[b] \in McBlocks
                            /\ Ref[b] \in 1..McCount /\ Ref[b] < CommittedBy[b]
                            /\ b <= Top[CommittedBy[b]]
                            /\ b..Top[CommittedBy[b]] \subseteq ShardBlocks
  /\ \A m \in McBlocks : Top[m] \in Nat
BY ChainAssumption DEF McBlocks

LEMMA Target ==
  ASSUME target \in Targets
  PROVE  /\ Commits(target) \in McBlocks
         /\ InMasterchain => target.block \in McBlocks /\ Commits(target) = target.block
         /\ ~InMasterchain => /\ target.block \in ShardBlocks
                              /\ Commits(target) = CommittedBy[target.block]
BY Consts DEF Targets, InMasterchain, Commits

\* With no key block between r and m, the one at or before r signs for m.
LEMMA KeyBefore ==
  ASSUME NEW m \in McBlocks, NEW r \in 1..McCount, r < m,
         \A k \in KeyBlocks : ~(r < k /\ k < m)
  PROVE  KeyAtOrBefore(r) = PrevKey[m]
<1>1. /\ m \in Nat /\ r \in Nat /\ r >= 1 /\ r <= McCount /\ McCount \in Nat
      /\ PrevKey[m] \in KeyBlocks /\ PrevKey[m] < m
  BY Consts
<1>2. \A k \in KeyBlocks : k \in Nat
  BY Consts
<1>3. \A k \in KeyBlocks : k < m => k <= PrevKey[m]
  BY ChainAssumption
<1>4. PrevKey[m] <= r
  BY <1>1, <1>2
<1>5. CASE r \in KeyBlocks
  <2>1. r <= PrevKey[m]
    BY <1>3, <1>5
  <2>2. r = PrevKey[m]
    BY <1>1, <1>2, <1>4, <2>1
  <2> QED
    BY <1>5, <2>2 DEF KeyAtOrBefore
<1>6. CASE r \notin KeyBlocks
  <2>1. r # 1
    BY <1>6, Consts
  <2>2. r \in McBlocks
    BY <1>1, <2>1 DEF McBlocks
  <2>3. PrevKey[r] \in KeyBlocks /\ PrevKey[r] < r
    BY <2>2, Consts
  <2>4. \A k \in KeyBlocks : k < r => k <= PrevKey[r]
    BY <2>2, ChainAssumption
  <2>5. PrevKey[r] <= PrevKey[m]
    BY <1>1, <1>2, <1>3, <2>3
  <2>6. PrevKey[m] # r
    BY <1>1, <1>6
  <2>7. PrevKey[m] <= PrevKey[r]
    BY <1>1, <1>2, <1>4, <2>4, <2>6
  <2> QED
    BY <1>1, <1>2, <1>6, <2>3, <2>5, <2>7 DEF KeyAtOrBefore
<1> QED
  BY <1>5, <1>6

\* The legacy client finds the set that signs for the committing block.
LEMMA HeaderKeyLeads ==
  ASSUME target \in Targets, client = "legacy"
  PROVE  /\ HeaderKey \in KeyBlocks
         /\ Grounded => HeaderKey = PrevKey[Commits(target)]
<1>1. CASE InMasterchain
  BY <1>1, Target, Consts DEF HeaderKey
<1>2. CASE ~InMasterchain
  <2> DEFINE b == target.block
  <2>1. /\ b \in ShardBlocks /\ Commits(target) = CommittedBy[b]
        /\ CommittedBy[b] \in McBlocks /\ Ref[b] \in 1..McCount /\ Ref[b] < CommittedBy[b]
    BY <1>2, Target, Consts
  <2>2. HeaderKey = KeyAtOrBefore(Ref[b])
    BY <1>2 DEF HeaderKey
  <2>3. KeyAtOrBefore(Ref[b]) \in KeyBlocks
    <3>1. CASE Ref[b] \in KeyBlocks
      BY <3>1 DEF KeyAtOrBefore
    <3>2. CASE Ref[b] \notin KeyBlocks
      <4>1. Ref[b] \in McBlocks
        BY <2>1, <3>2, Consts DEF McBlocks
      <4> QED
        BY <3>2, <4>1, Consts DEF KeyAtOrBefore
    <3> QED
      BY <3>1, <3>2
  <2>4. ASSUME Grounded PROVE KeyAtOrBefore(Ref[b]) = PrevKey[CommittedBy[b]]
    <3>1. \A k \in KeyBlocks : ~(Ref[b] < k /\ k < CommittedBy[b])
      BY <1>2, <2>4 DEF Grounded
    <3> QED
      BY <2>1, <3>1, KeyBefore
  <2> QED
    BY <2>1, <2>2, <2>3, <2>4
<1> QED
  BY <1>1, <1>2

\* The first forward step leads from the set that signs m to m.
LEMMA ForwardLeads ==
  ASSUME NEW m \in McBlocks
  PROVE  /\ ForwardStep(BlockProof(m - 1, m)).from = PrevKey[m]
         /\ ForwardStep(BlockProof(m - 1, m)).to = m
<1>1. m - 1 \in 1..McCount /\ m - 1 < m
  BY Consts
<1>2. \A k \in KeyBlocks : ~(m - 1 < k /\ k < m)
  BY Consts
<1>3. KeyAtOrBefore(m - 1) = PrevKey[m]
  BY <1>1, <1>2, KeyBefore
<1> QED
  BY <1>3 DEF ForwardStep, BlockProof

-------------------------------------------------------------------------------
LEMMA VsetFacts ==
  ASSUME NEW k \in KeyBlocks
  PROVE  /\ Vset[k].main \in Nat /\ Vset[k].main <= Len(Vset[k].list)
         /\ Len(Vset[k].list) \in Nat
         /\ \A i \in 1..Len(Vset[k].list) : Vset[k].list[i] \in Validators
         /\ \A i, j \in 1..Len(Vset[k].list) :
              Vset[k].list[i] = Vset[k].list[j] => i = j
         /\ Main(k) \subseteq Validators
<1>1. Vset[k] \in [since : Nat, list : Seq(Validators), main : Nat \ {0}]
  BY VsetAssumption
<1>2. Vset[k].list \in Seq(Validators) /\ Vset[k].main \in Nat
  BY <1>1
<1>3. Vset[k].main <= Len(Vset[k].list) /\ Len(Vset[k].list) \in Nat
  BY <1>2, VsetAssumption
<1>4. \A i \in 1..Len(Vset[k].list) : Vset[k].list[i] \in Validators
  BY <1>2
<1>5. Main(k) \subseteq Validators
  BY <1>2, <1>3, <1>4 DEF Main
<1> QED
  BY <1>2, <1>3, <1>4, <1>5, VsetAssumption

\* Entries of the dict of any set of signatures.
LEMMA PreparedType ==
  ASSUME NEW k \in KeyBlocks, NEW S
  PROVE  Prepared(S, k) \subseteq [index : Indices, by : Validators]
<1> SUFFICES ASSUME NEW i \in 1..Len(Vset[k].list)
             PROVE  /\ i - 1 \in Indices
                    /\ Vset[k].list[i] \in Validators
  BY DEF Prepared
<1>1. Len(Vset[k].list) \in Nat
  BY VsetFacts
<1>2. i - 1 \in 0..Len(Vset[k].list) - 1
  BY <1>1
<1> QED
  BY <1>2, VsetFacts DEF Indices

\* Signatures of the set that signs can be prepared; they reach the bridge's
\* cutoff, and every one of them is found at its signer's index.
LEMMA PreparedGood ==
  ASSUME NEW m \in McBlocks, NEW S \in Signatures(m)
  PROVE  LET k == PrevKey[m] IN
         /\ ~Unprepared(S, k)
         /\ Prepared(S, k) \subseteq EpochValidators(Vset[k])
         /\ {e.by : e \in Prepared(S, k)} = S
         /\ Weight[S] >= CutoffWeight(k)
<1> DEFINE k == PrevKey[m]
           list == Vset[k].list
<1>1. k \in KeyBlocks
  BY Consts
<1> HIDE DEF k
<1>2. /\ Len(list) \in Nat /\ Vset[k].main \in Nat /\ Vset[k].main <= Len(list)
      /\ \A i, j \in 1..Len(list) : list[i] = list[j] => i = j
      /\ Main(k) \subseteq Validators
  BY <1>1, VsetFacts
<1>3. S \subseteq Main(k) /\ 3 * Weight[S] > 2 * Weight[Main(k)]
  BY DEF Signatures, k
<1>4. Weight[S] \in Nat /\ Weight[Main(k)] \in Nat
  BY <1>2, <1>3, VsetAssumption
<1>5. Weight[S] >= CutoffWeight(k)
  <2>1. (Weight[Main(k)] * 2) \div 3 \in Nat
    BY <1>4
  <2>2. 3 * ((Weight[Main(k)] * 2) \div 3) <= 2 * Weight[Main(k)]
    BY <1>4
  <2> QED
    BY <1>3, <1>4, <2>1, <2>2 DEF CutoffWeight
<1>6. S # {}
  <2>1. Weight[S] # 0
    BY <1>3, <1>4
  <2> QED
    BY <2>1, VsetAssumption
<1>7. \A v \in S : \E i \in 1..Len(list) : i <= Vset[k].main /\ list[i] = v
  BY <1>2, <1>3 DEF Main
<1>8. ~Unprepared(S, k)
  BY <1>6, <1>7 DEF Unprepared
<1>9. \A j \in 1..Len(list) : list[j] \in S => j \in 1..Vset[k].main
  BY <1>2, <1>7
<1>10. Prepared(S, k) \subseteq EpochValidators(Vset[k])
  BY <1>9 DEF Prepared, EpochValidators
<1>11. {e.by : e \in Prepared(S, k)} = S
  <2>1. \A e \in Prepared(S, k) : e.by \in S
    BY DEF Prepared
  <2>2. ASSUME NEW v \in S PROVE \E e \in Prepared(S, k) : e.by = v
    <3>1. PICK i \in 1..Len(list) : list[i] = v
      BY <1>7
    <3>2. [index |-> i - 1, by |-> list[i]] \in Prepared(S, k)
      BY <3>1 DEF Prepared
    <3> QED
      BY <3>1, <3>2
  <2> QED
    BY <2>1, <2>2
<1> QED
  BY <1>5, <1>8, <1>10, <1>11 DEF k

-------------------------------------------------------------------------------
\* The n blocks from t down.
Descending(t, n) == [i \in 1..n |-> t - i + 1]

LEMMA DescendingAppend ==
  ASSUME NEW t \in Nat, NEW n \in Nat
  PROVE  Append(Descending(t, n), t - n) = Descending(t, n + 1)
<1> DEFINE s == Descending(t, n)
           u == Descending(t, n + 1)
<1>1. s \in Seq(Int) /\ Len(s) = n /\ \A i \in 1..n : s[i] = t - i + 1
  BY DEF Descending
<1>2. u \in Seq(Int) /\ Len(u) = n + 1 /\ \A i \in 1..n + 1 : u[i] = t - i + 1
  BY DEF Descending
<1> HIDE DEF s, u
<1>3. /\ Append(s, t - n) \in Seq(Int) /\ Len(Append(s, t - n)) = n + 1
      /\ \A i \in 1..n : Append(s, t - n)[i] = s[i]
      /\ Append(s, t - n)[n + 1] = t - n
  BY <1>1
<1>4. \A i \in 1..n + 1 : Append(s, t - n)[i] = u[i]
  <2> SUFFICES ASSUME NEW i \in 1..n + 1 PROVE Append(s, t - n)[i] = u[i]
    OBVIOUS
  <2>1. i \in 1..n \/ i = n + 1
    OBVIOUS
  <2> QED
    BY <1>1, <1>2, <1>3, <2>1
<1>5. Append(s, t - n) = u
  BY <1>2, <1>3, <1>4
<1> QED
  BY <1>5 DEF s, u

LEMMA DescendingType ==
  ASSUME NEW t \in Nat, NEW n \in Nat, \A i \in 1..n : t - i + 1 \in ShardBlocks
  PROVE  Descending(t, n) \in Seq(ShardBlocks)
BY DEF Descending

\* The shard blocks below the commit that bring in a target.
LEMMA TopDown ==
  ASSUME target \in Targets, ~InMasterchain, NEW m, m = Commits(target)
  PROVE  /\ m \in McBlocks /\ target.block \in ShardBlocks /\ target.block \in Nat
         /\ Top[m] \in Nat /\ target.block <= Top[m]
         /\ target.block..Top[m] \subseteq ShardBlocks
BY Target, Consts

LEMMA DownwardType ==
  ASSUME target \in Targets, mc = Commits(target)
  PROVE  /\ Downward \in Seq(ShardBlocks)
         /\ InMasterchain => Downward = <<>>
         /\ ~InMasterchain => Downward = Descending(Top[mc], Top[mc] - target.block + 1)
<1>1. CASE InMasterchain
  BY <1>1 DEF Downward
<1>2. CASE ~InMasterchain
  <2> DEFINE n == Top[mc] - target.block + 1
  <2>1. /\ target.block \in Nat /\ Top[mc] \in Nat /\ target.block <= Top[mc]
        /\ target.block..Top[mc] \subseteq ShardBlocks
    BY <1>2, TopDown
  <2>2. n \in Nat /\ \A i \in 1..n : Top[mc] - i + 1 \in target.block..Top[mc]
    BY <2>1
  <2>3. Descending(Top[mc], n) \in Seq(ShardBlocks)
    BY <2>1, <2>2, DescendingType
  <2>4. Downward = Descending(Top[mc], n)
    BY <1>2 DEF Downward, Descending
  <2> QED
    BY <1>2, <2>3, <2>4
<1> QED
  BY <1>1, <1>2

\* The links of a shard block proof make the same chain.
LEMMA TonChainLeads ==
  ASSUME target \in Targets, mc = Commits(target)
  PROVE  TonChain = Downward
<1>1. CASE InMasterchain
  BY <1>1, DownwardType DEF TonChain
<1>2. CASE ~InMasterchain
  <2> DEFINE t == Top[mc]
             n == t - target.block
             links == Links(mc, target.block)
  <2>1. t \in Nat /\ n \in Nat /\ target.block \in Nat /\ target.block = t - n
    BY <1>2, TopDown
  <2>2. links = [i \in 1..n + 1 |-> [of |-> IF i = 1 THEN 0 ELSE t - i + 2, to |-> t - i + 1]]
    BY DEF Links
  <2> HIDE DEF links, n, t
  <2>3. Len(links) = n + 1
    BY <2>1, <2>2
  <2>4. Linked(links) = Descending(t, n)
    <3>1. \A i \in 1..n : links[i + 1].of = t - i + 1
      <4> SUFFICES ASSUME NEW i \in 1..n PROVE links[i + 1].of = t - i + 1
        OBVIOUS
      <4>1. i + 1 \in 1..n + 1 /\ i + 1 # 1 /\ t - (i + 1) + 2 = t - i + 1
        BY <2>1
      <4> QED
        BY <2>2, <4>1
    <3>2. 1..Len(links) - 1 = 1..n
      BY <2>1, <2>3
    <3> QED
      BY <3>1, <3>2 DEF Linked, Descending
  <2>5. TonChain = Append(Descending(t, n), t - n)
    BY <1>2, <2>1, <2>4 DEF TonChain, links
  <2>6. TonChain = Descending(t, n + 1)
    BY <2>1, <2>5, DescendingAppend
  <2> QED
    BY <1>2, <2>6, DownwardType DEF n, t
<1> QED
  BY <1>1, <1>2

-------------------------------------------------------------------------------
\* A chain has one proof for each shard block from the top down to the target.
LEMMA DownwardLength ==
  ASSUME target \in Targets, mc = Commits(target)
  PROVE  Len(Downward) = ShardProofs
<1>1. CASE InMasterchain
  BY <1>1 DEF Downward, ShardProofs
<1>2. CASE ~InMasterchain
  <2>1. Top[mc] - target.block + 1 \in Nat
    BY <1>2, TopDown
  <2> QED
    BY <1>2, <2>1 DEF Downward, ShardProofs
<1> QED
  BY <1>1, <1>2

LEMMA Ends == \A c : Ending(c) \in {"done", "panic"}
BY DEF Ending

LEMMA EndingKept == \A c : Ending(c)' = Ending(c)
BY DEF Ending

LEMMA Prepares ==
  ASSUME NEW m \in McBlocks, NEW S \in Signatures(m), NEW k \in KeyBlocks, NEW next,
         Prepare(S, k, next)
  PROVE  /\ sigs' \subseteq [index : Indices, by : Validators]
         /\ pc' \in {next, "error"}
         /\ k = PrevKey[m] => pc' = next /\ sigs' = Prepared(S, k)
<1>1. Prepared(S, k) \subseteq [index : Indices, by : Validators]
  BY PreparedType
<1>2. k = PrevKey[m] => ~Unprepared(S, k)
  BY PreparedGood
<1> QED
  BY <1>1, <1>2 DEF Prepare

\* A step of a request under way is about the same transaction.
LEMMA Kept ==
  ASSUME UNCHANGED request
  PROVE  /\ client' = client /\ target' = target
         /\ InMasterchain' = InMasterchain /\ Commits(target)' = Commits(target)
         /\ Grounded' = Grounded /\ HeaderKey' = HeaderKey
         /\ mc' = mc => Downward' = Downward
BY DEF request, InMasterchain, Commits, Grounded, HeaderKey, KeyAtOrBefore, Downward

LEMMA GoodKept ==
  ASSUME UNCHANGED <<mc, key, sigs>>, Good
  PROVE  Good'
<1>1. key' = PrevKey[mc'] /\ Signatures(mc)' = Signatures(mc)
  BY DEF Good
<1>2. PICK S \in Signatures(mc) : sigs = Prepared(S, key)
  BY DEF Good
<1>3. sigs' = Prepared(S, key)
  BY <1>2
<1> QED
  BY <1>1, <1>2, <1>3 DEF Good, Prepared

LEMMA SignaturesType ==
  ASSUME NEW m \in McBlocks, NEW S \in Signatures(m)
  PROVE  S \subseteq Validators
BY Consts, VsetFacts DEF Signatures

LEMMA InitHolds == Init => IInv
<1> SUFFICES ASSUME Init PROVE IInv
  OBVIOUS
<1>1. TypeOK
  <2>1. /\ head \in 1..McCount /\ prev \in 0..McCount
    BY Consts DEF Init
  <2>2. chain \in Seq(ShardBlocks)
    BY DEF Init
  <2> QED
    BY <2>1, <2>2 DEF Init, TypeOK
<1>2. TonInv /\ LegacyInv /\ EmptyInv
  BY DEF Init, TonInv, LegacyInv, EmptyInv, Awaits
<1>3. SignedInv /\ DoneInv /\ ErrorInv
  BY DEF Init, SignedInv, DoneInv, ErrorInv
<1> QED
  BY <1>1, <1>2, <1>3 DEF IInv

-------------------------------------------------------------------------------
LEMMA NewBlockStep == IInv /\ NewBlock => IInv'
<1> SUFFICES ASSUME IInv, NewBlock PROVE IInv'
  OBVIOUS
<1>1. /\ UNCHANGED <<client, target, pc, mc, prev, key, signed, cursor, sigs, chain, missed>>
      /\ head' = head + 1 /\ head < McCount
  BY DEF NewBlock, request, found, proof
<1>2. TypeOK'
  BY <1>1, Consts DEF IInv, TypeOK
<1>3. TonInv' /\ LegacyInv' /\ EmptyInv'
  BY <1>1 DEF IInv, TonInv, LegacyInv, EmptyInv, InMasterchain, Commits, HeaderKey, KeyAtOrBefore
<1>4. SignedInv' /\ DoneInv' /\ ErrorInv'
  BY <1>1 DEF IInv, SignedInv, Good, DoneInv, ErrorInv, Grounded, InMasterchain,
              Commits, Downward
<1> QED
  BY <1>2, <1>3, <1>4 DEF IInv

LEMMA RequestStep ==
  ASSUME IInv, NEW c \in {"ton", "legacy"}, NEW t \in Targets, Request(c, t)
  PROVE  IInv'
<1>1. TypeOK'
  <2>1. /\ head' \in 1..McCount /\ prev' \in 0..McCount
    BY Consts DEF Request, IInv, TypeOK
  <2>2. chain' \in Seq(ShardBlocks)
    BY DEF Request
  <2> QED
    BY <2>1, <2>2 DEF Request, TypeOK, Awaits
<1>2. TonInv' /\ LegacyInv' /\ EmptyInv'
  BY DEF Request, TonInv, LegacyInv, EmptyInv, Awaits
<1>3. SignedInv' /\ DoneInv' /\ ErrorInv'
  BY DEF Request, SignedInv, DoneInv, ErrorInv
<1> QED
  BY <1>1, <1>2, <1>3 DEF IInv

LEMMA FindTxStep == IInv /\ FindTx => IInv'
<1> SUFFICES ASSUME IInv, FindTx PROVE IInv'
  OBVIOUS
<1>1. /\ pc = "find" /\ pc' = "block"
      /\ UNCHANGED <<head, client, target, prev, key, signed, cursor, sigs, chain, missed>>
      /\ mc' = IF client = "legacy" THEN Commits(target) ELSE mc
  BY DEF FindTx, request, proof
<1>2. Commits(target) \in McBlocks
  BY Target DEF IInv, TypeOK
<1>3. TypeOK'
  BY <1>1, <1>2 DEF IInv, TypeOK, Awaits
<1>4. TonInv' /\ LegacyInv' /\ EmptyInv'
  BY <1>1 DEF IInv, TonInv, LegacyInv, EmptyInv, InMasterchain, Commits, Awaits
<1>5. SignedInv' /\ DoneInv' /\ ErrorInv'
  BY <1>1 DEF SignedInv, DoneInv, ErrorInv
<1> QED
  BY <1>3, <1>4, <1>5 DEF IInv

LEMMA NodeFailsStep == IInv /\ NodeFails => IInv'
<1> SUFFICES ASSUME IInv, NodeFails PROVE IInv'
  OBVIOUS
<1>1. /\ pc' = "error" /\ missed'
      /\ UNCHANGED <<head, client, target, mc, prev, key, signed, cursor, sigs, chain>>
  BY DEF NodeFails, request, found, proof
<1>2. TypeOK'
  BY <1>1 DEF IInv, TypeOK, NodeFails
<1>3. TonInv' /\ LegacyInv' /\ EmptyInv'
  BY <1>1 DEF TonInv, LegacyInv, EmptyInv, Awaits
<1>4. SignedInv' /\ DoneInv' /\ ErrorInv'
  BY <1>1 DEF SignedInv, DoneInv, ErrorInv
<1> QED
  BY <1>2, <1>3, <1>4 DEF IInv

-------------------------------------------------------------------------------
LEMMA TonBlockStep == IInv /\ TonBlock => IInv'
<1> SUFFICES ASSUME IInv, TonBlock PROVE IInv'
  OBVIOUS
<1>1. /\ client = "ton" /\ pc = "block"
      /\ UNCHANGED <<head, request, client, target, key, signed, cursor, sigs, chain, missed>>
      /\ pc' = IF InMasterchain THEN "proof" ELSE "links"
      /\ mc' = IF InMasterchain THEN target.block ELSE 0
      /\ prev' = IF InMasterchain THEN target.block - 1 ELSE 0
  BY DEF TonBlock, request, proof
<1>2. InMasterchain => target.block \in McBlocks /\ Commits(target) = target.block
  BY Target DEF IInv, TypeOK
<1>3. prev' \in 0..McCount
  <2>1. CASE InMasterchain
    BY <1>1, <1>2, <2>1, Consts
  <2>2. CASE ~InMasterchain
    BY <1>1, <2>2, Consts
  <2> QED
    BY <2>1, <2>2
<1>4. TypeOK'
  BY <1>1, <1>2, <1>3 DEF IInv, TypeOK, Awaits
<1>5. TonInv' /\ LegacyInv'
  BY <1>1, <1>2, Kept DEF TonInv, LegacyInv
<1>6. EmptyInv' /\ SignedInv' /\ DoneInv' /\ ErrorInv'
  BY <1>1 DEF IInv, EmptyInv, SignedInv, DoneInv, ErrorInv, Awaits
<1> QED
  BY <1>4, <1>5, <1>6 DEF IInv

LEMMA TonLinksStep == IInv /\ TonLinks => IInv'
<1> SUFFICES ASSUME IInv, TonLinks PROVE IInv'
  OBVIOUS
<1>1. /\ pc = "links" /\ pc' = "prev" /\ mc' = CommittedBy[target.block]
      /\ UNCHANGED <<head, request, client, target, prev, key, signed, cursor, sigs, chain, missed>>
  BY DEF TonLinks, request, proof
<1>2. client = "ton" /\ ~InMasterchain
  BY <1>1 DEF IInv, TypeOK, TonInv, LegacyInv
<1>3. mc' = Commits(target) /\ mc' \in McBlocks
  BY <1>1, <1>2, Target DEF IInv, TypeOK
<1>4. TypeOK'
  BY <1>1, <1>3 DEF IInv, TypeOK, Awaits
<1>5. TonInv' /\ LegacyInv'
  BY <1>1, <1>2, <1>3, Kept DEF TonInv, LegacyInv
<1>6. EmptyInv' /\ SignedInv' /\ DoneInv' /\ ErrorInv'
  BY <1>1 DEF IInv, EmptyInv, SignedInv, DoneInv, ErrorInv, Awaits
<1> QED
  BY <1>4, <1>5, <1>6 DEF IInv

LEMMA TonPrevStep == IInv /\ TonPrev => IInv'
<1> SUFFICES ASSUME IInv, TonPrev PROVE IInv'
  OBVIOUS
<1>1. /\ pc = "prev" /\ pc' = "proof" /\ prev' = mc - 1
      /\ UNCHANGED <<head, request, client, target, mc, key, signed, cursor, sigs, chain, missed>>
  BY DEF TonPrev, request, proof
<1>2. client = "ton" /\ mc = Commits(target)
  BY <1>1 DEF IInv, TypeOK, TonInv, LegacyInv
<1>3. mc \in McBlocks
  BY <1>2, Target DEF IInv, TypeOK
<1>4. prev' \in 0..McCount
  BY <1>1, <1>3, Consts
<1>5. TypeOK'
  BY <1>1, <1>4 DEF IInv, TypeOK, Awaits
<1>6. TonInv' /\ LegacyInv'
  BY <1>1, <1>2, Kept DEF TonInv, LegacyInv
<1>7. EmptyInv' /\ SignedInv' /\ DoneInv' /\ ErrorInv'
  BY <1>1 DEF IInv, EmptyInv, SignedInv, DoneInv, ErrorInv, Awaits
<1> QED
  BY <1>5, <1>6, <1>7 DEF IInv

LEMMA TonProofStep ==
  ASSUME IInv, NEW S \in Signatures(mc), NEW pruned \in BOOLEAN, TonProof(S, pruned)
  PROVE  IInv'
<1>1. /\ pc = "proof"
      /\ UNCHANGED <<head, request, client, target, mc, prev, cursor, missed>>
      /\ signed' = S
  BY DEF TonProof, request
<1>2. client = "ton" /\ mc = Commits(target) /\ prev = mc - 1
  BY <1>1 DEF IInv, TypeOK, TonInv, LegacyInv
<1>3. mc \in McBlocks /\ target \in Targets
  BY <1>2, Target DEF IInv, TypeOK
<1>4. /\ ForwardStep(BlockProof(prev, mc)).from = PrevKey[mc]
      /\ ForwardStep(BlockProof(prev, mc)).to = mc
      /\ PrevKey[mc] \in KeyBlocks
  BY <1>2, <1>3, ForwardLeads, Consts
<1>5. /\ key' = PrevKey[mc]
      /\ IF ~pruned
         THEN Prepare(S, PrevKey[mc], Ending(TonChain)) /\ chain' = TonChain
         ELSE pc' = "config" /\ UNCHANGED <<sigs, chain>>
  BY <1>4 DEF TonProof
<1>6. chain = <<>> /\ S \subseteq Validators
  BY <1>1, <1>3, SignaturesType DEF IInv, EmptyInv, Awaits
<1>7. CASE pruned
  <2>1. pc' = "config" /\ sigs' = sigs /\ chain' = chain
    BY <1>5, <1>7
  <2>2. TypeOK'
    BY <1>1, <1>4, <1>5, <1>6, <2>1 DEF IInv, TypeOK, Awaits
  <2>3. TonInv' /\ LegacyInv'
    <3>1. Signatures(mc)' = Signatures(mc)
      BY <1>1
    <3> QED
      BY <1>1, <1>2, <1>5, <2>1, <3>1, Kept DEF TonInv, LegacyInv
  <2>4. EmptyInv' /\ SignedInv' /\ DoneInv' /\ ErrorInv'
    BY <1>6, <2>1 DEF EmptyInv, SignedInv, DoneInv, ErrorInv
  <2> QED
    BY <2>2, <2>3, <2>4 DEF IInv
<1>8. CASE ~pruned
  <2>1. Prepare(S, PrevKey[mc], Ending(TonChain)) /\ chain' = TonChain
    BY <1>5, <1>8
  <2>2. /\ pc' = Ending(chain') /\ pc' \in {"done", "panic"}
        /\ sigs' = Prepared(S, PrevKey[mc])
        /\ sigs' \subseteq [index : Indices, by : Validators]
    BY <1>3, <1>4, <2>1, Prepares, Ends
  <2>3. chain' = Downward /\ Downward \in Seq(ShardBlocks)
    BY <1>2, <1>3, <2>1, TonChainLeads, DownwardType
  <2>4. TypeOK'
    BY <1>1, <1>4, <1>5, <1>6, <2>2, <2>3 DEF IInv, TypeOK
  <2>5. TonInv' /\ LegacyInv' /\ EmptyInv' /\ ErrorInv'
    BY <1>1, <1>2, <2>2 DEF TonInv, LegacyInv, EmptyInv, ErrorInv, Awaits
  <2>6. SignedInv'
    <3>1. Signatures(mc)' = Signatures(mc) /\ mc' = mc
      BY <1>1
    <3>2. Good'
      BY <1>5, <2>2, <3>1 DEF Good, Prepared
    <3> QED
      BY <3>2 DEF SignedInv
  <2>7. DoneInv'
    BY <1>1, <1>2, <2>2, <2>3, Kept, EndingKept DEF DoneInv
  <2> QED
    BY <2>4, <2>5, <2>6, <2>7 DEF IInv
<1> QED
  BY <1>7, <1>8

LEMMA TonConfigStep == IInv /\ TonConfig => IInv'
<1> SUFFICES ASSUME IInv, TonConfig PROVE IInv'
  OBVIOUS
<1>1. /\ pc = "config" /\ Prepare(signed, key, Ending(TonChain)) /\ chain' = TonChain
      /\ UNCHANGED <<head, request, client, target, mc, prev, key, signed, cursor, missed>>
  BY DEF TonConfig, request, found
<1>2. /\ client = "ton" /\ mc = Commits(target)
      /\ key = PrevKey[mc] /\ signed \in Signatures(mc)
  BY <1>1 DEF IInv, TypeOK, TonInv, LegacyInv
<1>3. mc \in McBlocks /\ target \in Targets /\ key \in KeyBlocks
  BY <1>2, Target, Consts DEF IInv, TypeOK
<1>4. /\ pc' = Ending(chain') /\ pc' \in {"done", "panic"}
      /\ sigs' = Prepared(signed, key)
      /\ sigs' \subseteq [index : Indices, by : Validators]
  BY <1>1, <1>2, <1>3, Prepares, Ends
<1>5. chain' = Downward /\ Downward \in Seq(ShardBlocks)
  BY <1>1, <1>2, <1>3, TonChainLeads, DownwardType
<1>6. TypeOK'
  BY <1>1, <1>4, <1>5 DEF IInv, TypeOK
<1>7. TonInv' /\ LegacyInv' /\ EmptyInv' /\ ErrorInv'
  BY <1>1, <1>2, <1>4 DEF TonInv, LegacyInv, EmptyInv, ErrorInv, Awaits
<1>8. SignedInv'
  <2>1. Good'
    <3>1. Signatures(mc)' = Signatures(mc)
      BY <1>1
    <3> QED
      BY <1>1, <1>2, <1>4, <3>1 DEF Good, Prepared
  <2> QED
    BY <2>1 DEF SignedInv
<1>9. DoneInv'
  BY <1>1, <1>2, <1>4, <1>5, Kept, EndingKept DEF DoneInv
<1> QED
  BY <1>6, <1>7, <1>8, <1>9 DEF IInv

-------------------------------------------------------------------------------
LEMMA LegacyBlockStep ==
  ASSUME IInv, NEW S \in Signatures(Commits(target)), LegacyBlock(S)
  PROVE  IInv'
<1>1. /\ client = "legacy" /\ pc = "block" /\ pc' = "key" /\ key' = HeaderKey
      /\ signed' = IF InMasterchain THEN S ELSE {}
      /\ UNCHANGED <<head, request, client, target, mc, prev, cursor, sigs, chain, missed>>
  BY DEF LegacyBlock, request, proof
<1>2. mc = Commits(target) /\ target \in Targets
  BY <1>1 DEF IInv, LegacyInv, TypeOK
<1>3. mc \in McBlocks /\ HeaderKey \in KeyBlocks
  BY <1>1, <1>2, Target, HeaderKeyLeads
<1>4. S \subseteq Validators
  BY <1>2, <1>3, SignaturesType
<1>5. TypeOK'
  BY <1>1, <1>3, <1>4 DEF IInv, TypeOK, Awaits
<1>6. TonInv' /\ LegacyInv'
  <2>1. Signatures(mc)' = Signatures(mc)
    BY <1>1
  <2> QED
    BY <1>1, <1>2, <2>1, Kept DEF TonInv, LegacyInv
<1>7. EmptyInv' /\ SignedInv' /\ DoneInv' /\ ErrorInv'
  BY <1>1 DEF IInv, EmptyInv, SignedInv, DoneInv, ErrorInv, Awaits
<1> QED
  BY <1>5, <1>6, <1>7 DEF IInv

LEMMA LegacyKeyStep == IInv /\ LegacyKey => IInv'
<1> SUFFICES ASSUME IInv, LegacyKey PROVE IInv'
  OBVIOUS
<1>1. /\ pc = "key"
      /\ UNCHANGED <<head, request, client, target, mc, prev, key, signed, cursor, chain, missed>>
      /\ IF InMasterchain THEN Prepare(signed, key, Ending(chain))
         ELSE pc' = "mc_block" /\ sigs' = sigs
  BY DEF LegacyKey, request, found
<1>2. client = "legacy" /\ mc = Commits(target) /\ key = HeaderKey /\ chain = <<>>
  BY <1>1 DEF IInv, TypeOK, TonInv, LegacyInv, EmptyInv, Awaits
<1>3. mc \in McBlocks /\ key \in KeyBlocks /\ target \in Targets
  BY <1>2, Target, HeaderKeyLeads DEF IInv, TypeOK
<1>4. CASE InMasterchain
  <2>1. key = PrevKey[mc] /\ signed \in Signatures(mc)
    BY <1>1, <1>2, <1>3, <1>4, HeaderKeyLeads DEF IInv, LegacyInv, Grounded
  <2>2. /\ pc' = Ending(chain') /\ pc' \in {"done", "panic"}
        /\ sigs' = Prepared(signed, key)
        /\ sigs' \subseteq [index : Indices, by : Validators]
    BY <1>1, <1>3, <1>4, <2>1, Prepares, Ends
  <2>3. TypeOK'
    BY <1>1, <2>2 DEF IInv, TypeOK
  <2>4. TonInv' /\ LegacyInv' /\ EmptyInv' /\ ErrorInv'
    BY <1>1, <1>2, <2>2 DEF TonInv, LegacyInv, EmptyInv, ErrorInv, Awaits
  <2>5. SignedInv'
    <3>1. Signatures(mc)' = Signatures(mc)
      BY <1>1
    <3>2. Good'
      BY <1>1, <2>1, <2>2, <3>1 DEF Good, Prepared
    <3> QED
      BY <3>2 DEF SignedInv
  <2>6. DoneInv'
    <3>1. Downward = <<>>
      BY <1>4 DEF Downward
    <3> QED
      BY <1>1, <1>2, <2>2, <3>1, Kept, EndingKept DEF DoneInv
  <2> QED
    BY <2>3, <2>4, <2>5, <2>6 DEF IInv
<1>5. CASE ~InMasterchain
  <2>1. pc' = "mc_block" /\ sigs' = sigs
    BY <1>1, <1>5
  <2>2. TypeOK'
    BY <1>1, <2>1 DEF IInv, TypeOK, Awaits
  <2>3. TonInv' /\ LegacyInv' /\ EmptyInv'
    BY <1>1, <1>2, <1>5, <2>1, Kept DEF TonInv, LegacyInv, EmptyInv
  <2>4. SignedInv' /\ DoneInv' /\ ErrorInv'
    BY <2>1 DEF SignedInv, DoneInv, ErrorInv
  <2> QED
    BY <2>2, <2>3, <2>4 DEF IInv
<1> QED
  BY <1>4, <1>5

LEMMA LegacyMcBlockStep ==
  ASSUME IInv, pc = "mc_block", NEW S \in Signatures(mc), LegacyMcBlock(S)
  PROVE  IInv'
<1>1. /\ UNCHANGED <<head, request, client, target, mc, prev, key, chain, missed>>
      /\ signed' = S /\ cursor' = Top[mc] /\ Prepare(S, key, "shards")
  BY DEF LegacyMcBlock, request
<1>2. /\ client = "legacy" /\ ~InMasterchain
      /\ mc = Commits(target) /\ key = HeaderKey /\ chain = <<>>
  BY DEF IInv, TypeOK, TonInv, LegacyInv, EmptyInv, Awaits
<1>3. mc \in McBlocks /\ key \in KeyBlocks /\ target \in Targets /\ S \subseteq Validators
  BY <1>2, Target, HeaderKeyLeads, SignaturesType DEF IInv, TypeOK
<1>4. /\ sigs' \subseteq [index : Indices, by : Validators]
      /\ pc' \in {"shards", "error"}
      /\ key = PrevKey[mc] => pc' = "shards" /\ sigs' = Prepared(S, key)
  BY <1>1, <1>3, Prepares
<1>5. /\ Top[mc] \in Nat /\ target.block \in Nat /\ target.block <= Top[mc]
      /\ target.block..Top[mc] \subseteq ShardBlocks
  BY <1>2, <1>3, TopDown
<1>6. cursor' \in target.block..Top[mc] /\ cursor' \in ShardBlocks
  BY <1>1, <1>5
<1>7. TypeOK'
  BY <1>1, <1>3, <1>4, <1>6 DEF IInv, TypeOK, Awaits
<1>8. chain' = [i \in 1..Top[mc] - cursor' |-> Top[mc] - i + 1]
  <2>1. 1..Top[mc] - cursor' = {}
    BY <1>1, <1>5
  <2> QED
    BY <1>1, <1>2, <2>1
<1>9. TonInv' /\ LegacyInv' /\ EmptyInv'
  BY <1>1, <1>2, <1>4, <1>6, <1>8, Kept DEF TonInv, LegacyInv, EmptyInv, Awaits
<1>10. SignedInv' /\ DoneInv' /\ ErrorInv'
  <2>1. Grounded => key = PrevKey[mc]
    BY <1>2, <1>3, HeaderKeyLeads
  <2>2. Signatures(mc)' = Signatures(mc)
    BY <1>1
  <2>3. ASSUME Grounded' PROVE Good'
    <3>1. key = PrevKey[mc] /\ sigs' = Prepared(S, key)
      BY <1>1, <1>4, <2>1, <2>3, Kept
    <3>2. key' = key /\ mc' = mc
      BY <1>1
    <3> QED
      BY <2>2, <3>1, <3>2 DEF Good, Prepared
  <2>4. Grounded' => pc' = "shards"
    BY <1>1, <1>4, <2>1, Kept
  <2> QED
    BY <1>4, <2>3, <2>4 DEF SignedInv, DoneInv, ErrorInv
<1> QED
  BY <1>7, <1>9, <1>10 DEF IInv

LEMMA ShardsFacts ==
  ASSUME IInv, pc = "shards"
  PROVE  /\ client = "legacy" /\ ~InMasterchain /\ target \in Targets
         /\ mc = Commits(target) /\ mc \in McBlocks /\ key = HeaderKey
         /\ target.block \in Nat /\ Top[mc] \in Nat
         /\ target.block..Top[mc] \subseteq ShardBlocks
         /\ cursor \in target.block..Top[mc]
         /\ chain = Descending(Top[mc], Top[mc] - cursor)
<1>1. client = "legacy" /\ ~InMasterchain /\ target \in Targets
  BY DEF IInv, TypeOK, TonInv, LegacyInv
<1>2. /\ mc = Commits(target) /\ key = HeaderKey /\ cursor \in target.block..Top[mc]
      /\ chain = Descending(Top[mc], Top[mc] - cursor)
  BY <1>1 DEF IInv, LegacyInv, Descending
<1> QED
  BY <1>1, <1>2, TopDown

LEMMA LegacyShardBlockStep == IInv /\ LegacyShardBlock => IInv'
<1> SUFFICES ASSUME IInv, LegacyShardBlock PROVE IInv'
  OBVIOUS
<1>1. /\ pc = "shards" /\ cursor >= target.block + 1
      /\ chain' = Append(chain, cursor) /\ cursor' = cursor - 1
      /\ UNCHANGED <<head, request, client, target, pc, mc, prev, key, signed, sigs, missed>>
  BY DEF LegacyShardBlock, LastPivot, request, found
<1> DEFINE t == Top[mc]
<1>2. /\ t \in Nat /\ target.block \in Nat /\ cursor \in target.block..t
      /\ target.block..t \subseteq ShardBlocks
      /\ chain = Descending(t, t - cursor)
  BY <1>1, ShardsFacts
<1>3. cursor' \in target.block..t /\ cursor' \in ShardBlocks
  <2> HIDE DEF t
  <2>1. cursor' = cursor - 1 /\ cursor >= target.block + 1
    BY <1>1
  <2>2. cursor' \in target.block..t
    BY <1>2, <2>1
  <2> QED
    BY <1>2, <2>2
<1>4. chain' = Descending(t, t - cursor')
  <2>1. t - cursor \in Nat /\ t - (t - cursor) = cursor /\ (t - cursor) + 1 = t - cursor'
    BY <1>1, <1>2
  <2> QED
    BY <1>1, <1>2, <2>1, DescendingAppend
<1>5. chain' \in Seq(ShardBlocks)
  <2>1. t - cursor' \in Nat /\ \A i \in 1..t - cursor' : t - i + 1 \in target.block..t
    BY <1>2, <1>3
  <2> QED
    BY <1>2, <1>4, <2>1, DescendingType
<1>6. TypeOK'
  BY <1>1, <1>3, <1>5 DEF IInv, TypeOK
<1>7. TonInv' /\ LegacyInv'
  BY <1>1, <1>3, <1>4, ShardsFacts, Kept DEF TonInv, LegacyInv, Descending
<1>8. EmptyInv' /\ DoneInv' /\ ErrorInv'
  BY <1>1 DEF EmptyInv, DoneInv, ErrorInv
<1>9. SignedInv'
  BY <1>1, Kept, GoodKept DEF IInv, SignedInv
<1> QED
  BY <1>6, <1>7, <1>8, <1>9 DEF IInv

LEMMA LegacyFinishStep == IInv /\ LegacyFinish => IInv'
<1> SUFFICES ASSUME IInv, LegacyFinish PROVE IInv'
  OBVIOUS
<1>1. /\ pc = "shards" /\ pc' = Ending(chain') /\ ~(cursor >= target.block + 1)
      /\ chain' = Append(chain, target.block)
      /\ UNCHANGED <<head, request, client, target, mc, prev, key, signed, cursor, sigs, missed>>
  <2>1. cursor \in Nat /\ target.block \in Nat
    BY ShardsFacts DEF LegacyFinish
  <2> QED
    BY <2>1 DEF LegacyFinish, LastPivot, request, found
<1> DEFINE t == Top[mc]
           n == t - target.block
<1>2. /\ t \in Nat /\ target.block \in Nat /\ cursor \in target.block..t
      /\ chain = Descending(t, t - cursor) /\ target \in Targets
      /\ ~InMasterchain /\ mc = Commits(target) /\ client = "legacy"
  BY <1>1, ShardsFacts
<1>3. cursor = target.block /\ n \in Nat /\ target.block = t - n
  BY <1>1, <1>2
<1>4. chain' = Descending(t, n + 1)
  BY <1>1, <1>2, <1>3, DescendingAppend
<1>5. /\ chain' = Downward /\ Downward \in Seq(ShardBlocks)
      /\ pc' \in {"done", "panic"}
  BY <1>1, <1>2, <1>4, DownwardType, Ends
<1>6. TypeOK'
  BY <1>1, <1>5 DEF IInv, TypeOK
<1>7. TonInv' /\ LegacyInv' /\ EmptyInv' /\ ErrorInv'
  BY <1>1, <1>2, <1>5 DEF TonInv, LegacyInv, EmptyInv, ErrorInv, Awaits
<1>8. SignedInv'
  BY <1>1, Kept, GoodKept DEF IInv, SignedInv
<1>9. DoneInv'
  BY <1>1, <1>2, <1>5, Kept, EndingKept DEF DoneInv
<1> QED
  BY <1>6, <1>7, <1>8, <1>9 DEF IInv

LEMMA StutterStep == IInv /\ UNCHANGED vars => IInv'
<1> SUFFICES ASSUME IInv, UNCHANGED vars PROVE IInv'
  OBVIOUS
<1>1. UNCHANGED <<head, request, client, target, pc, mc, prev, key, signed, cursor, sigs,
                  chain, missed>>
  BY DEF vars, request
<1>2. TypeOK'
  BY <1>1 DEF IInv, TypeOK
<1>3. TonInv' /\ LegacyInv' /\ EmptyInv'
  BY <1>1, Kept DEF IInv, TonInv, LegacyInv, EmptyInv
<1>4. SignedInv' /\ DoneInv' /\ ErrorInv'
  BY <1>1, Kept, GoodKept DEF IInv, SignedInv, DoneInv, ErrorInv
<1> QED
  BY <1>2, <1>3, <1>4 DEF IInv

-------------------------------------------------------------------------------
LEMMA NextStep == IInv /\ [Next]_vars => IInv'
<1> SUFFICES ASSUME IInv, [Next]_vars PROVE IInv'
  OBVIOUS
<1>1. CASE NewBlock
  BY <1>1, NewBlockStep
<1>2. CASE \E c \in {"ton", "legacy"}, t \in Targets : Request(c, t)
  BY <1>2, RequestStep
<1>3. CASE FindTx \/ NodeFails
  BY <1>3, FindTxStep, NodeFailsStep
<1>4. CASE Ton
  <2>1. CASE \E S \in Signatures(mc), pruned \in BOOLEAN : TonProof(S, pruned)
    BY <2>1, TonProofStep
  <2> QED
    BY <1>4, <2>1, TonBlockStep, TonLinksStep, TonPrevStep, TonConfigStep DEF Ton
<1>5. CASE Legacy
  <2>1. CASE \E S \in Signatures(Commits(target)) : LegacyBlock(S)
    BY <2>1, LegacyBlockStep
  <2>2. CASE pc = "mc_block" /\ \E S \in Signatures(mc) : LegacyMcBlock(S)
    BY <2>2, LegacyMcBlockStep
  <2> QED
    BY <1>5, <2>1, <2>2, LegacyKeyStep, LegacyShardBlockStep, LegacyFinishStep DEF Legacy
<1>6. CASE UNCHANGED vars
  BY <1>6, StutterStep
<1> QED
  BY <1>1, <1>2, <1>3, <1>4, <1>5, <1>6 DEF Next

LEMMA Inductive == Spec => []IInv
<1>1. Init => IInv
  BY InitHolds
<1>2. IInv /\ [Next]_vars => IInv'
  BY NextStep
<1> QED
  BY <1>1, <1>2, PTL DEF Spec

\* What the clients keep at each request is of its type: build_proof of both
\* clients for every chain.
THEOREM ProofClientsTypeCorrect == Spec => []TypeOK
<1>1. IInv => TypeOK
  BY DEF IInv
<1> QED
  BY <1>1, Inductive, PTL

\* Whatever signatures honest nodes answer with, a finished proof names the block
\* that commits the transaction and the set that signed it, its signatures are at
\* their indices and reach the cutoff, and its chain is unbroken (build_proof,
\* prepare_signatures, make_epoch_data).
THEOREM ProofVerifiesHolds == Spec => []ProofVerifies
<1>1. ASSUME IInv, pc = "done", Grounded
      PROVE  LET k == PrevKey[mc] IN
             /\ mc = Commits(target)
             /\ Vset[key].since = Vset[k].since
             /\ sigs \subseteq EpochValidators(Vset[k])
             /\ Weight[Signers] >= CutoffWeight(k)
             /\ chain = Downward
  <2>1. mc = Commits(target) /\ chain = Downward /\ Good
    BY <1>1 DEF IInv, DoneInv, SignedInv
  <2>2. mc \in McBlocks
    BY <1>1, <2>1, Target DEF IInv, TypeOK
  <2>3. key = PrevKey[mc]
    BY <2>1 DEF Good
  <2>4. PICK S \in Signatures(mc) : sigs = Prepared(S, PrevKey[mc])
    BY <2>1, <2>3 DEF Good
  <2>5. /\ sigs \subseteq EpochValidators(Vset[PrevKey[mc]])
        /\ Signers = S /\ Weight[S] >= CutoffWeight(PrevKey[mc])
    BY <2>2, <2>4, PreparedGood DEF Signers
  <2> QED
    BY <2>1, <2>3, <2>5
<1>2. IInv => ProofVerifies
  BY <1>1 DEF ProofVerifies
<1> QED
  BY <1>2, Inductive, PTL

\* Honest answers never make build_proof fail: the forward step leads to the
\* block, and its signatures are all of the set found for it.  What is left is
\* make_proof_chain, which panics for just the chains that it cannot pack.
THEOREM FailsForCauseHolds == Spec => []FailsForCause
<1>1. ASSUME IInv, pc \in {"done", "panic"}
      PROVE  pc = IF Packs(ShardProofs) THEN "done" ELSE "panic"
  <2>1. target \in Targets /\ mc = Commits(target) /\ chain = Downward /\ pc = Ending(chain)
    BY <1>1 DEF IInv, TypeOK, DoneInv
  <2>2. Len(chain) = ShardProofs
    BY <2>1, DownwardLength
  <2> QED
    BY <2>1, <2>2 DEF Ending
<1>2. IInv => FailsForCause
  BY <1>1 DEF IInv, ErrorInv, FailsForCause
<1> QED
  BY <1>2, Inductive, PTL
===============================================================================
