-------------------------- MODULE ProofStorageProofs --------------------------
(* Proofs about ProofStorage for every chain and every way its shards split    *)
(* and merge, every time to live and every number of restarts.                 *)
EXTENDS ProofStorage, FiniteSetTheorems, TLAPS

-------------------------------------------------------------------------------
\* The strider and the validator set: the next masterchain block is not worked
\* on before this one's set is in force.
StriderInv ==
  /\ handled => mc <= MaxMc /\ todo = {}
  /\ todo \subseteq Committed(mc)
  /\ vset = Signer(IF handled THEN mc + 1 ELSE mc)

\* A timing is that of its masterchain block, which has been worked on.
TimingInv == \A t \in db.timings : t.utime = McTime[t.mc] /\ t.mc <= mc

IInv == TypeOK /\ StriderInv /\ TimingInv /\ SignedByCurrent /\ OrphansOfGoneShards /\ TimingsLead

-------------------------------------------------------------------------------
(* Numbers.  The strict subsets of a finite set are well-founded, and so are   *)
(* the numbers above, or below, an element of a finite set.                    *)

LEMMA Greatest == ASSUME NEW N \in Nat, NEW T, T \subseteq 0..N, T # {}
                  PROVE  \E x \in T : \A y \in T : y <= x
<1> DEFINE Above(x) == {y \in T : y > x}
           F == {Above(x) : x \in T}
<1>1. IsFiniteSet(T)
  <2>1. IsFiniteSet(0..N)
    BY FS_Interval
  <2> QED
    BY <2>1, FS_Subset
<1>2. F \subseteq FiniteSubsetsOf(T)
  BY <1>1, FS_FiniteSubsetsOfFinite
<1>3. F # {}
  OBVIOUS
<1>4. PICK U \in F : \A V \in F : ~(<<V, U>> \in StrictSubsetOrdering(T))
  <2> HIDE DEF F
  <2> QED
    BY <1>2, <1>3, FS_StrictSubsetOrderingWellFounded, WFMin
<1>5. PICK x \in T : U = Above(x)
  BY <1>4
<1>6. ASSUME NEW y \in T, y > x PROVE FALSE
  <2>1. \A z \in T : z > y => z > x
    BY <1>6
  <2>2. y \in U /\ y \notin Above(y)
    BY <1>5, <1>6
  <2>3. Above(y) \in F
    BY <1>6
  <2>4. <<Above(y), U>> \in StrictSubsetOrdering(T)
    <3>1. Above(y) \subseteq U
      BY <1>5, <2>1
    <3> QED
      BY <2>2, <3>1, <1>5 DEF StrictSubsetOrdering
  <2> QED
    BY <2>3, <2>4, <1>4
<1> QED
  BY <1>6

LEMMA LatestOf == ASSUME NEW T, T \subseteq 0..MaxMc, T # {}
                  PROVE  Latest(T) \in T /\ \A y \in T : y <= Latest(T)
<1>1. \E x \in T : \A y \in T : y <= x
  BY Greatest, ProofStorageAssumption
<1> QED
  BY <1>1 DEF Latest

LEMMA LatestIs == ASSUME NEW T, T \subseteq 0..MaxMc, NEW x \in T, \A y \in T : y <= x
                  PROVE  Latest(T) = x
<1>1. Latest(T) \in T /\ x <= Latest(T)
  BY LatestOf
<1>2. Latest(T) <= x
  BY <1>1
<1>3. T \subseteq Int
  BY ProofStorageAssumption
<1>4. Latest(T) \in Int /\ x \in Int
  BY <1>1, <1>3
<1> QED
  BY <1>1, <1>2, <1>4

LEMMA LatestType == ASSUME NEW T, T \subseteq 0..MaxMc PROVE Latest(T) \in 0..MaxMc
<1>1. CASE T = {}
  BY <1>1, ProofStorageAssumption DEF Latest
<1>2. CASE T # {}
  BY <1>2, LatestOf
<1> QED
  BY <1>1, <1>2

-------------------------------------------------------------------------------
(* The chain. *)

LEMMA ConstTypes ==
  /\ MaxMc \in Nat \ {0}
  /\ Ref \in [ScBlocks -> McSeqnos]
  /\ Top \in [McSeqnos -> [Shards -> Nat]]
  /\ McTime \in [McSeqnos -> Nat \ {0}]
  /\ ScTime \in [ScBlocks -> Nat]
  /\ KeyBlocks \subseteq McSeqnos
  /\ TimingsStep \in Nat \ {0}
  /\ MinProofTtl \in Nat /\ MaxTime \in Nat /\ MaxCrashes \in Nat
BY ProofStorageAssumption

LEMMA BlockParts ==
  \A b \in Blocks :
    \/ b.chain = "mc" /\ b.seqno \in McSeqnos /\ b = Mc(b.seqno)
    \/ /\ b.chain # "mc" /\ b.chain \in Shards /\ b.seqno \in Nat
       /\ b \in ScBlocks /\ b = Sc(b.chain, b.seqno)
<1> SUFFICES ASSUME NEW b \in Blocks
             PROVE  \/ b.chain = "mc" /\ b.seqno \in McSeqnos /\ b = Mc(b.seqno)
                    \/ /\ b.chain # "mc" /\ b.chain \in Shards /\ b.seqno \in Nat
                       /\ b \in ScBlocks /\ b = Sc(b.chain, b.seqno)
  OBVIOUS
<1>1. CASE b \in {Mc(m) : m \in McSeqnos}
  BY <1>1 DEF Mc
<1>2. CASE b \in ScBlocks
  <2>1. b \in [chain : Shards, seqno : Nat] /\ "mc" \notin Shards
    BY <1>2, ProofStorageAssumption
  <2>2. b.chain \in Shards /\ b.seqno \in Nat /\ b = [chain |-> b.chain, seqno |-> b.seqno]
    BY <2>1
  <2> QED
    BY <1>2, <2>1, <2>2 DEF Sc
<1> QED
  BY <1>1, <1>2 DEF Blocks

LEMMA TimeType == \A b \in Blocks : GenUtime(b) \in Nat
BY BlockParts, ConstTypes DEF GenUtime

LEMMA FirstBlock == Mc(1) \in Blocks
<1>1. 1 \in McSeqnos
  BY ConstTypes DEF McSeqnos
<1> QED
  BY <1>1 DEF Blocks

LEMMA RefByType == \A c \in Blocks : RefBy(c) \in McSeqnos
BY BlockParts, ConstTypes DEF RefBy

\* A block is no younger than a masterchain block at or after its own.
LEMMA OlderThan == ASSUME NEW c \in Blocks, NEW m \in McSeqnos, RefBy(c) <= m
                   PROVE  GenUtime(c) <= McTime[m]
<1>1. RefBy(c) \in McSeqnos /\ McTime[RefBy(c)] <= McTime[m]
  BY RefByType, ProofStorageAssumption
<1>2. GenUtime(c) <= McTime[RefBy(c)]
  <2>1. CASE c.chain = "mc"
    <3>1. GenUtime(c) = McTime[RefBy(c)] /\ McTime[RefBy(c)] \in Nat
      BY <1>1, <2>1, ConstTypes DEF GenUtime, RefBy
    <3> QED
      BY <3>1
  <2>2. CASE c.chain # "mc"
    BY <2>2, BlockParts, ProofStorageAssumption DEF GenUtime, RefBy
  <2> QED
    BY <2>1, <2>2
<1>3. McTime[RefBy(c)] \in Nat /\ McTime[m] \in Nat /\ GenUtime(c) \in Nat
  BY <1>1, ConstTypes, TimeType
<1> QED
  BY <1>1, <1>2, <1>3

\* The logical time of a bound takes what was committed up to it from the index,
\* and its seqnos the same from the blocks of the shards it lists.
LEMMA TxsBound == ASSUME NEW m \in McSeqnos, NEW c \in RemovedTxs(m)
                  PROVE  c \in Blocks /\ RefBy(c) <= m
<1>1. c \in Blocks /\ Lt(c) < EndLt(m) + 1
  BY DEF RemovedTxs
<1>2. RefBy(c) \in Int /\ m \in Int
  BY <1>1, RefByType DEF McSeqnos
<1> QED
  BY <1>1, <1>2 DEF Lt, EndLt

LEMMA BlocksBound == ASSUME NEW m \in McSeqnos, NEW c \in Blocks
                     PROVE  /\ c \in Removed(m) => RefBy(c) <= m
                            /\ RefBy(c) <= m /\ c \notin Removed(m) =>
                                 c.chain # "mc" /\ c.chain \notin Leaves[m]
<1>1. CASE c.chain = "mc"
  BY <1>1 DEF Removed, RefBy
<1>2. CASE c.chain # "mc"
  <2>1. c \in ScBlocks /\ RefBy(c) = Ref[c]
    BY <1>2, BlockParts DEF RefBy
  <2>2. c.chain \in Leaves[m] => (c.seqno <= Top[m][c.chain] <=> Ref[c] <= m)
    BY <2>1, ShardAssumption
  <2> QED
    BY <1>2, <2>1, <2>2 DEF Removed
<1> QED
  BY <1>1, <1>2

-------------------------------------------------------------------------------
(* Types. *)

LEMMA BoundType == ASSUME NEW timings, timings \subseteq db.timings, TypeOK
                   PROVE  BoundOf(timings) \in 0..MaxMc
<1> DEFINE old == {t \in timings : t.utime <= RemoveUntil}
           T == {t.mc : t \in old}
<1>1. db.timings \subseteq [utime : Nat, mc : McSeqnos]
  BY DEF TypeOK, Db
<1>2. T \subseteq 0..MaxMc
  BY <1>1 DEF McSeqnos
<1>3. Latest(T) \in 0..MaxMc
  <2> HIDE DEF T
  <2> QED
    BY <1>2, LatestType
<1> QED
  BY <1>3, ConstTypes DEF BoundOf

LEMMA WrittenType == ASSUME TypeOK, NEW b \in Blocks PROVE Written(b) \in Db
<1>1. db.txs \subseteq Blocks /\ db.blocks \subseteq Blocks
  BY DEF TypeOK, Db
<1>2. db.signatures \subseteq [mc : McSeqnos, vset : 0..MaxMc]
  BY DEF TypeOK, Db
<1>3. db.timings \subseteq [utime : Nat, mc : McSeqnos]
  BY DEF TypeOK, Db
<1>4. b.chain = "mc" => b.seqno \in McSeqnos
  BY BlockParts
<1>5. b.chain = "mc" => [mc |-> b.seqno, vset |-> vset] \in [mc : McSeqnos, vset : 0..MaxMc]
  BY <1>4 DEF TypeOK
<1>6. HasTiming(b) => Timing(b) \in [utime : Nat, mc : McSeqnos]
  BY <1>4, TimeType DEF HasTiming, Timing
<1>7. Written(b).txs \subseteq Blocks /\ Written(b).blocks \subseteq Blocks
  BY <1>1 DEF Written
<1>8. Written(b).signatures \subseteq [mc : McSeqnos, vset : 0..MaxMc]
  BY <1>2, <1>5 DEF Written
<1>9. Written(b).timings \subseteq [utime : Nat, mc : McSeqnos]
  BY <1>3, <1>6 DEF Written, PutTiming, KeptTimings
<1>10. Written(b) = [txs |-> Written(b).txs, blocks |-> Written(b).blocks,
                     signatures |-> Written(b).signatures, timings |-> Written(b).timings]
  BY DEF Written
<1> HIDE DEF Written
<1> QED
  BY <1>7, <1>8, <1>9, <1>10 DEF Db

LEMMA SignerType == \A m \in Int : Signer(m) \in 0..MaxMc
<1> SUFFICES ASSUME NEW m \in Int PROVE Signer(m) \in 0..MaxMc
  OBVIOUS
<1> DEFINE T == {k \in KeyBlocks : k < m}
<1>1. KeyBlocks \subseteq 0..MaxMc
  BY ConstTypes DEF McSeqnos
<1>2. T \subseteq 0..MaxMc
  BY <1>1
<1>3. Latest(T) \in 0..MaxMc
  <2> HIDE DEF T
  <2> QED
    BY <1>2, LatestType
<1> QED
  BY <1>3 DEF Signer

LEMMA CommittedType == \A m : Committed(m) \subseteq Blocks
BY DEF Committed

LEMMA InitType == Init => TypeOK
<1> SUFFICES ASSUME Init PROVE TypeOK
  OBVIOUS
<1>1. db \in Db
  BY DEF Init, Db
<1>2. Mc(1) \in Blocks
  BY FirstBlock
<1>3. request \in Requests
  BY <1>2 DEF Init, NoRequest, Requests
<1>4. todo \subseteq Blocks
  BY CommittedType DEF Init
<1>5. now \in 0..MaxTime /\ vset \in 0..MaxMc /\ mc \in 1..MaxMc + 1 /\ crashes \in 0..MaxCrashes
  <2>1. now = 0 /\ vset = 0 /\ mc = 1 /\ crashes = 0
    BY DEF Init
  <2> QED
    BY <2>1, ConstTypes
<1>6. snapshot = db /\ handled \in BOOLEAN
  BY DEF Init
<1> QED
  BY <1>1, <1>3, <1>4, <1>5, <1>6 DEF TypeOK

LEMMA TypeStep == ASSUME TypeOK, StriderInv, [Next]_vars PROVE TypeOK'
<1>1. ASSUME Tick PROVE TypeOK'
  BY <1>1, ConstTypes DEF TypeOK, Tick
<1>2. ASSUME NEW b \in Blocks, StoreBlock(b) PROVE TypeOK'
  <2>1. db' \in Db
    BY <1>2, WrittenType DEF StoreBlock, TypeOK
  <2> QED
    BY <1>2, <2>1 DEF TypeOK, StoreBlock
<1>3. ASSUME HandleBlock PROVE TypeOK'
  BY <1>3, ConstTypes DEF TypeOK, HandleBlock, McSeqnos
<1>4. ASSUME Commit PROVE TypeOK'
  <2>1. todo' \subseteq Blocks
    BY <1>4, CommittedType DEF Commit
  <2>2. mc' \in 1..MaxMc + 1
    BY <1>4, ConstTypes DEF TypeOK, StriderInv, Commit
  <2> QED
    BY <1>4, <2>1, <2>2 DEF TypeOK, Commit
<1>5. ASSUME Restart PROVE TypeOK'
  <2>1. InitVset \in 0..MaxMc
    BY SignerType, ConstTypes DEF Signer, InitVset, TypeOK
  <2>2. Mc(1) \in Blocks
    BY FirstBlock
  <2>3. NoRequest \in Requests
    BY <2>2 DEF NoRequest, Requests
  <2>4. todo' \subseteq Blocks
    BY <1>5, CommittedType DEF Restart
  <2>5. crashes' \in 0..MaxCrashes
    BY <1>5, ConstTypes DEF TypeOK, Restart
  <2> QED
    BY <1>5, <2>1, <2>3, <2>4, <2>5 DEF TypeOK, Restart, RestartSnapshot
<1>6. ASSUME NEW b \in Blocks, ReadIndex(b) PROVE TypeOK'
  <2>1. Due(b) \in BOOLEAN
    BY DEF Due, TypeOK
  <2>2. request' \in Requests
    BY <1>6, <2>1 DEF ReadIndex, Requests
  <2> QED
    BY <1>6, <2>2 DEF TypeOK, ReadIndex
<1>7. ASSUME BuildProof \/ Answer PROVE TypeOK'
  <2>1. Mc(1) \in Blocks
    BY FirstBlock
  <2>2. CASE Answer
    <3>1. request' \in Requests
      BY <2>1, <2>2 DEF Answer, NoRequest, Requests
    <3> QED
      BY <2>2, <3>1 DEF TypeOK, Answer
  <2>3. CASE BuildProof
    <3> DEFINE built == IF Complete(snapshot, request.tx) /\ Packable(request.tx)
                        THEN "proof" ELSE "error"
    <3>1. request \in Requests /\ request' = [request EXCEPT !.pc = built]
      BY <2>3 DEF BuildProof, TypeOK
    <3>2. built \in {"proof", "error"}
      OBVIOUS
    <3> HIDE DEF built
    <3>3. request' \in Requests
      BY <3>1, <3>2 DEF Requests
    <3> QED
      BY <2>3, <3>3 DEF TypeOK, BuildProof
  <2> QED
    BY <1>7, <2>2, <2>3
<1>8. ASSUME UNCHANGED vars PROVE TypeOK'
  BY <1>8 DEF TypeOK, vars
<1> QED
  BY <1>1, <1>2, <1>3, <1>4, <1>5, <1>6, <1>7, <1>8 DEF Next

-------------------------------------------------------------------------------
(* The validator set. *)

LEMMA StriderStep == ASSUME TypeOK, StriderInv, [Next]_vars PROVE StriderInv'
<1>1. ASSUME NEW b \in Blocks, StoreBlock(b) PROVE StriderInv'
  BY <1>1 DEF StriderInv, StoreBlock
<1>2. ASSUME HandleBlock PROVE StriderInv'
  <2>1. mc \in McSeqnos /\ mc \in Int
    BY <1>2, ConstTypes DEF HandleBlock, TypeOK, McSeqnos
  <2>2. vset' = Signer(mc + 1)
    <3> DEFINE T == {k \in KeyBlocks : k < mc + 1}
    <3>1. CASE mc \in KeyBlocks
      <4>1. KeyBlocks \subseteq Int /\ KeyBlocks \subseteq 0..MaxMc
        BY ConstTypes DEF McSeqnos
      <4>2. T \subseteq 0..MaxMc
        BY <4>1
      <4>3. mc \in T
        BY <2>1, <3>1
      <4>4. \A y \in T : y <= mc
        <5>1. \A y \in Int : y < mc + 1 => y <= mc
          BY <2>1
        <5> QED
          BY <4>1, <5>1
      <4>5. Latest(T) = mc
        <5> HIDE DEF T
        <5> QED
          BY <4>2, <4>3, <4>4, LatestIs
      <4> QED
        BY <1>2, <3>1, <4>5 DEF HandleBlock, Signer
    <3>2. CASE mc \notin KeyBlocks
      <4>1. \A k \in KeyBlocks : k < mc + 1 <=> k < mc
        <5>1. \A k \in KeyBlocks : k \in Int /\ k # mc
          BY <3>2, ConstTypes DEF McSeqnos
        <5> QED
          BY <2>1, <5>1
      <4>2. Signer(mc + 1) = Signer(mc)
        BY <4>1 DEF Signer
      <4> QED
        BY <1>2, <3>2, <4>2 DEF HandleBlock, StriderInv
    <3> QED
      BY <3>1, <3>2
  <2>3. handled' /\ mc' = mc /\ todo' = {}
    BY <1>2 DEF HandleBlock
  <2> QED
    BY <1>2, <2>2, <2>3 DEF StriderInv, HandleBlock
<1>3. ASSUME Commit PROVE StriderInv'
  BY <1>3 DEF StriderInv, Commit
<1>4. ASSUME Restart PROVE StriderInv'
  BY <1>4 DEF StriderInv, Restart, InitVset, Signer
<1>5. CASE Tick \/ (\E b \in Blocks : ReadIndex(b)) \/ BuildProof \/ Answer \/ UNCHANGED vars
  BY <1>5 DEF StriderInv, Tick, ReadIndex, BuildProof, Answer, vars
<1> QED
  BY <1>1, <1>2, <1>3, <1>4, <1>5 DEF Next

\* A stored masterchain block is the one being worked on.
LEMMA InHand == ASSUME StriderInv, NEW b \in Blocks, b \in todo
                PROVE  ~handled /\ RefBy(b) = mc
BY DEF StriderInv, Committed

LEMMA SignedStep == ASSUME TypeOK, StriderInv, SignedByCurrent, [Next]_vars
                    PROVE  SignedByCurrent'
<1>1. ASSUME NEW b \in Blocks, StoreBlock(b) PROVE SignedByCurrent'
  <2>1. db' = db \/ db' = Written(b)
    BY <1>1 DEF StoreBlock
  <2>2. b.chain = "mc" => vset = Signer(b.seqno)
    BY <1>1, InHand DEF StoreBlock, StriderInv, RefBy
  <2>3. \A g \in Written(b).signatures : g.vset = Signer(g.mc)
    BY <2>2 DEF Written, SignedByCurrent
  <2> QED
    BY <2>1, <2>3 DEF SignedByCurrent
<1>2. CASE db' = db
  BY <1>2 DEF SignedByCurrent
<1>3. CASE ~(\E b \in Blocks : StoreBlock(b))
  <2>1. db' = db
    BY <1>3 DEF Next, Tick, HandleBlock, Commit, Restart, ReadIndex, BuildProof, Answer, vars
  <2> QED
    BY <2>1, <1>2
<1> QED
  BY <1>1, <1>3

-------------------------------------------------------------------------------
(* Deletion. *)

\* The bound's masterchain block is old enough, and no timing in reach is later.
LEMMA BoundIs ==
  ASSUME TypeOK, TimingInv, BoundOf(db.timings) # 0
  PROVE  /\ BoundOf(db.timings) \in McSeqnos
         /\ McTime[BoundOf(db.timings)] <= RemoveUntil
         /\ BoundOf(db.timings) <= mc
<1> DEFINE old == {t \in db.timings : t.utime <= RemoveUntil}
           T == {t.mc : t \in old}
<1>1. db.timings \subseteq [utime : Nat, mc : McSeqnos]
  BY DEF TypeOK, Db
<1>2. old # {} /\ BoundOf(db.timings) = Latest(T)
  BY DEF BoundOf
<1>3. T \subseteq 0..MaxMc /\ T # {}
  BY <1>1, <1>2 DEF McSeqnos
<1>4. Latest(T) \in T
  <2> HIDE DEF T
  <2> QED
    BY <1>3, LatestOf
<1>5. PICK t \in old : Latest(T) = t.mc
  BY <1>4
<1>6. t.mc \in McSeqnos /\ t.utime = McTime[t.mc] /\ t.utime <= RemoveUntil /\ t.mc <= mc
  BY <1>1, <1>5 DEF TimingInv
<1> QED
  BY <1>2, <1>5, <1>6

LEMMA TimingStep ==
  ASSUME TypeOK, TimingInv, TimingsLead, NEW b \in Blocks, RefBy(b) = mc
  PROVE  /\ \A t \in Written(b).timings : t.utime = McTime[t.mc] /\ t.mc <= mc
         /\ \A t \in Written(b).timings : Mc(t.mc) \in Written(b).blocks
<1> DEFINE bound == BoundOf(db.timings)
           put == PutTiming(db.timings, Timing(b))
<1>1. CASE ~HasTiming(b)
  BY <1>1 DEF Written, TimingInv, TimingsLead
<1>2. CASE HasTiming(b)
  <2>1. b.seqno \in McSeqnos /\ b = Mc(b.seqno) /\ b.chain = "mc"
    BY <1>2, BlockParts DEF HasTiming
  <2>2. Timing(b).mc = b.seqno /\ Timing(b).utime = McTime[b.seqno] /\ b.seqno <= mc
    <3>1. b.seqno = mc /\ mc \in Int
      BY <2>1 DEF RefBy, TypeOK
    <3> QED
      BY <2>1, <3>1 DEF Timing, GenUtime
  <2>3. \A t \in put : /\ t.utime = McTime[t.mc] /\ t.mc <= mc
                      /\ t.mc \in McSeqnos /\ Mc(t.mc) \in db.blocks \cup {b}
    <3>1. \A t \in db.timings : t.mc \in McSeqnos
      BY DEF TypeOK, Db
    <3> QED
      BY <2>1, <2>2, <3>1 DEF PutTiming, TimingInv, TimingsLead
  <2>4. CASE bound = 0
    <3>1. Written(b).timings = put /\ Written(b).blocks = db.blocks \cup {b}
      BY <1>2, <2>4 DEF Written
    <3> QED
      BY <2>3, <3>1
  <2>5. CASE bound # 0
    <3>1. /\ Written(b).timings = KeptTimings(put)
          /\ Written(b).blocks = (db.blocks \cup {b}) \ Removed(bound)
      BY <1>2, <2>5 DEF Written
    <3>2. bound \in McSeqnos /\ McTime[bound] <= RemoveUntil
      BY <2>5, BoundIs
    <3>3. RemoveUntil \in Int
      BY ConstTypes DEF RemoveUntil, TypeOK
    <3>4. ASSUME NEW t \in KeptTimings(put) PROVE t.mc > bound
      <4>1. t \in put /\ t.utime > RemoveUntil
        BY DEF KeptTimings
      <4>2. t.mc \in McSeqnos /\ McTime[t.mc] > RemoveUntil
        BY <2>3, <4>1
      <4>3. McTime[t.mc] \in Int /\ McTime[bound] \in Int
        BY <3>2, <4>2, ConstTypes
      <4>4. ~(McTime[t.mc] <= McTime[bound])
        BY <3>2, <3>3, <4>2, <4>3
      <4>5. ~(t.mc <= bound)
        BY <3>2, <4>2, <4>4, ProofStorageAssumption
      <4> QED
        BY <3>2, <4>2, <4>5 DEF McSeqnos
    <3>5. \A t \in KeptTimings(put) : Mc(t.mc) \notin Removed(bound)
      <4>1. \A n \in McSeqnos : n > bound => ~(n <= bound)
        BY <3>2 DEF McSeqnos
      <4>2. \A t \in KeptTimings(put) : t.mc \in McSeqnos
        BY <2>3 DEF KeptTimings
      <4>3. \A n : Mc(n).seqno = n /\ Mc(n).chain = "mc"
        BY DEF Mc
      <4> QED
        BY <3>4, <4>1, <4>2, <4>3 DEF Removed
    <3>6. KeptTimings(put) \subseteq put
      BY DEF KeptTimings
    <3> QED
      BY <2>3, <3>1, <3>5, <3>6
  <2> QED
    BY <2>4, <2>5
<1> QED
  BY <1>1, <1>2

LEMMA OrphanStep ==
  ASSUME TypeOK, TimingInv, OrphansOfGoneShards, NEW b \in Blocks,
         NEW c \in Written(b).blocks \ Written(b).txs
  PROVE  \E m \in RefBy(c)..mc : c.chain # "mc" /\ c.chain \notin Leaves[m]
<1> DEFINE bound == IF HasTiming(b) THEN BoundOf(db.timings) ELSE 0
<1>1. /\ Written(b).blocks = (db.blocks \cup {b}) \ (IF bound = 0 THEN {} ELSE Removed(bound))
      /\ Written(b).txs = (db.txs \cup {b}) \ (IF bound = 0 THEN {} ELSE RemovedTxs(bound))
  BY DEF Written
<1>2. bound # 0 => bound \in McSeqnos /\ bound <= mc
  BY BoundIs
<1> HIDE DEF bound
<1>3. CASE c \in db.blocks \ db.txs
  BY <1>3 DEF OrphansOfGoneShards
<1>4. CASE c \notin db.blocks \ db.txs
  <2>1. bound # 0 /\ c \in RemovedTxs(bound) /\ c \notin Removed(bound)
    BY <1>1, <1>4
  <2>2. bound \in McSeqnos /\ bound <= mc
    BY <1>2, <2>1
  <2>3. c \in Blocks /\ RefBy(c) <= bound
    BY <2>1, <2>2, TxsBound
  <2>4. c.chain # "mc" /\ c.chain \notin Leaves[bound]
    BY <2>1, <2>2, <2>3, BlocksBound
  <2>5. bound \in RefBy(c)..mc
    <3>1. RefBy(c) \in Int /\ bound \in Int /\ mc \in Int
      BY <2>2, <2>3, RefByType DEF McSeqnos, TypeOK
    <3> QED
      BY <2>2, <2>3, <3>1
  <2> QED
    BY <2>4, <2>5
<1> QED
  BY <1>3, <1>4

\* A step that stores nothing and does not go back.
LEMMA DbIdle ==
  ASSUME TypeOK, TypeOK', TimingInv, OrphansOfGoneShards, TimingsLead, db' = db, mc <= mc'
  PROVE  TimingInv' /\ OrphansOfGoneShards' /\ TimingsLead'
<1>1. mc \in Int /\ mc' \in Int
  BY DEF TypeOK
<1>2. db.timings \subseteq [utime : Nat, mc : McSeqnos] /\ db.blocks \subseteq Blocks
  BY DEF TypeOK, Db
<1>3. \A t \in db.timings : t.mc <= mc'
  <2> SUFFICES ASSUME NEW t \in db.timings PROVE t.mc <= mc'
    OBVIOUS
  <2>1. t.mc \in Int /\ t.mc <= mc
    BY <1>2 DEF TimingInv, McSeqnos
  <2> QED
    BY <1>1, <2>1
<1>4. \A c \in db.blocks : RefBy(c)..mc \subseteq RefBy(c)..mc'
  <2> SUFFICES ASSUME NEW c \in db.blocks PROVE RefBy(c)..mc \subseteq RefBy(c)..mc'
    OBVIOUS
  <2>1. RefBy(c) \in Int
    BY <1>2, RefByType DEF McSeqnos
  <2> QED
    BY <1>1, <2>1
<1>5. \A c : RefBy(c)' = RefBy(c)
  BY DEF RefBy
<1>6. TimingInv' /\ TimingsLead'
  BY <1>3 DEF TimingInv, TimingsLead
<1>7. OrphansOfGoneShards'
  <2> SUFFICES ASSUME NEW c \in db.blocks \ db.txs
               PROVE  \E m \in RefBy(c)..mc' : c.chain # "mc" /\ c.chain \notin Leaves[m]
    BY <1>5 DEF OrphansOfGoneShards
  <2> QED
    BY <1>4 DEF OrphansOfGoneShards
<1> QED
  BY <1>6, <1>7

-------------------------------------------------------------------------------
(* Theorems. *)

LEMMA Initially == Init => IInv
<1> SUFFICES ASSUME Init PROVE IInv
  OBVIOUS
<1>1. db = [txs |-> {}, blocks |-> {}, signatures |-> {}, timings |-> {}]
  BY DEF Init
<1>2. Signer(1) = 0
  <2>1. \A k \in McSeqnos : ~(k < 1)
    BY ConstTypes DEF McSeqnos
  <2>2. {k \in KeyBlocks : k < 1} = {}
    BY <2>1, ConstTypes
  <2> QED
    BY <2>2 DEF Signer, Latest
<1>3. StriderInv
  BY <1>2 DEF Init, StriderInv
<1>4. TimingInv /\ SignedByCurrent /\ OrphansOfGoneShards /\ TimingsLead
  BY <1>1 DEF TimingInv, SignedByCurrent, OrphansOfGoneShards, TimingsLead
<1> QED
  BY <1>3, <1>4, InitType DEF IInv

LEMMA EveryStep == IInv /\ [Next]_vars => IInv'
<1> SUFFICES ASSUME IInv, [Next]_vars PROVE IInv'
  OBVIOUS
<1>1. TypeOK' /\ StriderInv' /\ SignedByCurrent'
  BY TypeStep, StriderStep, SignedStep DEF IInv
<1>2. TimingInv' /\ OrphansOfGoneShards' /\ TimingsLead'
  <2>1. ASSUME NEW b \in Blocks, StoreBlock(b), db' = Written(b)
        PROVE TimingInv' /\ OrphansOfGoneShards' /\ TimingsLead'
    <3>1. mc' = mc /\ RefBy(b) = mc
      BY <2>1, InHand DEF StoreBlock, IInv
    <3>2. /\ \A t \in db'.timings : t.utime = McTime[t.mc] /\ t.mc <= mc
          /\ \A t \in db'.timings : Mc(t.mc) \in db'.blocks
      BY <2>1, <3>1, TimingStep DEF IInv
    <3>3. \A c \in db'.blocks \ db'.txs :
            \E m \in RefBy(c)..mc : c.chain # "mc" /\ c.chain \notin Leaves[m]
      BY <2>1, OrphanStep DEF IInv
    <3>4. \A c : RefBy(c)' = RefBy(c)
      BY DEF RefBy
    <3> QED
      BY <3>1, <3>2, <3>3, <3>4 DEF TimingInv, OrphansOfGoneShards, TimingsLead
  <2>2. CASE db' = db
    <3>1. mc \in Int
      BY DEF IInv, TypeOK
    <3>2. mc' = mc \/ mc' = mc + 1
      BY DEF Next, Tick, StoreBlock, HandleBlock, Commit, Restart, ReadIndex, BuildProof, Answer, vars
    <3>3. mc <= mc'
      BY <3>1, <3>2
    <3> QED
      BY <1>1, <2>2, <3>3, DbIdle DEF IInv
  <2>3. db' = db \/ \E b \in Blocks : StoreBlock(b) /\ db' = Written(b)
    BY DEF Next, Tick, StoreBlock, HandleBlock, Commit, Restart, ReadIndex, BuildProof, Answer, vars
  <2> QED
    BY <2>1, <2>2, <2>3
<1> QED
  BY <1>1, <1>2 DEF IInv

LEMMA Inductive == Spec => []IInv
BY Initially, EveryStep, PTL DEF Spec

\* The type invariant of the storage, the strider and a proof request.
THEOREM StorageTypeCorrect == Spec => []TypeOK
<1>1. IInv => TypeOK
  BY DEF IInv
<1> QED
  BY <1>1, Inductive, PTL

\* Signatures are stored under the set that made them, whatever key blocks come
\* and however often the node restarts (LightSubscriber, ProofStorage::init).
THEOREM SignedByCurrentHolds == Spec => []SignedByCurrent
<1>1. IInv => SignedByCurrent
  BY DEF IInv
<1> QED
  BY <1>1, Inductive, PTL

\* A deletion leaves behind none of the blocks it takes from the index but those
\* of shards its masterchain block does not list: the logical time and the seqnos
\* of its bound agree (OutdatedBound).
THEOREM OrphansOfGoneShardsHolds == Spec => []OrphansOfGoneShards
<1>1. IInv => OrphansOfGoneShards
  BY DEF IInv
<1> QED
  BY <1>1, Inductive, PTL

\* A timing's pivot block is never deleted before the timing: the next bound can
\* be read (find_outdated_bound).
THEOREM TimingsLeadHolds == Spec => []TimingsLead
<1>1. IInv => TimingsLead
  BY DEF IInv
<1> QED
  BY <1>1, Inductive, PTL

-------------------------------------------------------------------------------
(* What is kept, and who is served. *)

Old(c) == now - GenUtime(c) >= MinProofTtl

\* Stored, or skipped, since mc was begun; or a block of an earlier one.
Done(c) == RefBy(c) < mc \/ (RefBy(c) = mc /\ c \notin todo)

SignaturesIn(s) == \A m \in McSeqnos : Mc(m) \in s.blocks => \E g \in s.signatures : g.mc = m

\* No block is missing before its time, in the database or in the snapshot.
KeptInv ==
  /\ SignaturesIn(db) /\ SignaturesIn(snapshot)
  /\ \A c \in Blocks : Done(c) => (c \in db.blocks /\ c \in db.txs) \/ Old(c)
  /\ \A c \in Blocks : Due(c) => c \in snapshot.blocks \/ Old(c)

RequestInv == request.due => Due(request.tx)

ServiceInv == IInv /\ KeptInv /\ RequestInv /\ ServedWithinTtl

\* A deletion takes nothing that is younger than the time to live.
LEMMA RemovedOld ==
  ASSUME TypeOK, NEW m \in McSeqnos, McTime[m] <= RemoveUntil,
         NEW c \in Blocks, c \in Removed(m) \/ c \in RemovedTxs(m)
  PROVE  Old(c)
<1>1. RefBy(c) <= m
  BY TxsBound, BlocksBound
<1>2. GenUtime(c) <= McTime[m]
  BY <1>1, OlderThan
<1>3. McTime[m] \in Nat /\ McTime[m] > 0 /\ GenUtime(c) \in Nat
  BY ConstTypes, TimeType
<1>4. now \in Nat /\ MinProofTtl \in Nat
  BY ConstTypes DEF TypeOK
<1>5. RemoveUntil = now - MinProofTtl
  BY <1>3, <1>4 DEF RemoveUntil
<1> QED
  BY <1>2, <1>3, <1>4, <1>5 DEF Old

\* The blocks in the proof of a shard block are no older than it is.
LEMMA ChainYounger ==
  ASSUME NEW b \in Blocks, b.chain # "mc"
  PROVE  /\ Mc(RefBy(b)) \in Blocks /\ GenUtime(b) <= GenUtime(Mc(RefBy(b)))
         /\ \A n \in b.seqno + 1..Top[RefBy(b)][b.chain] :
              Sc(b.chain, n) \in Blocks /\ GenUtime(b) <= GenUtime(Sc(b.chain, n))
<1>1. b \in ScBlocks /\ b.seqno \in Nat /\ b.chain \in Shards /\ RefBy(b) = Ref[b]
  BY BlockParts DEF RefBy
<1>2. RefBy(b) \in McSeqnos
  BY RefByType
<1>3. Mc(RefBy(b)) \in Blocks
  BY <1>2 DEF Blocks
<1>4. GenUtime(b) <= GenUtime(Mc(RefBy(b)))
  BY <1>1, ProofStorageAssumption DEF GenUtime, Mc
<1>5. ASSUME NEW n \in b.seqno + 1..Top[RefBy(b)][b.chain]
      PROVE  Sc(b.chain, n) \in Blocks /\ GenUtime(b) <= GenUtime(Sc(b.chain, n))
  <2>1. n \in b.seqno..Top[RefBy(b)][b.chain]
    <3>1. Top[RefBy(b)] \in [Shards -> Nat]
      BY <1>2, ConstTypes
    <3>2. Top[RefBy(b)][b.chain] \in Nat
      BY <1>1, <3>1
    <3> QED
      BY <1>1, <3>2
  <2>2. Sc(b.chain, n) \in ScBlocks /\ ScTime[b] <= ScTime[Sc(b.chain, n)]
    BY <1>1, <2>1, ShardAssumption
  <2>3. Sc(b.chain, n).chain # "mc"
    BY DEF Sc
  <2> QED
    BY <2>2, <2>3 DEF Blocks, GenUtime
<1> QED
  BY <1>3, <1>4, <1>5

LEMMA YoungWith ==
  ASSUME TypeOK, NEW b \in Blocks, NEW c \in Blocks, GenUtime(b) <= GenUtime(c), Old(c)
  PROVE  Old(b)
<1>1. now \in Int /\ MinProofTtl \in Int /\ GenUtime(b) \in Int /\ GenUtime(c) \in Int
  BY TimeType, ConstTypes DEF TypeOK
<1>2. now - GenUtime(c) >= MinProofTtl
  BY DEF Old
<1>3. now - GenUtime(b) >= MinProofTtl
  BY <1>1, <1>2
<1> QED
  BY <1>3 DEF Old

\* What has been kept is enough to prove what is young enough.
LEMMA Enough ==
  ASSUME TypeOK, NEW s \in Db, SignaturesIn(s),
         \A c \in Blocks : Due(c) => c \in s.blocks \/ Old(c),
         NEW b \in Blocks, Due(b), ~Old(b)
  PROVE  Complete(s, b)
<1>1. b \in s.blocks
  OBVIOUS
<1>2. RefBy(b) \in McSeqnos /\ now \in Nat /\ MinProofTtl \in Nat /\ mc \in Nat
  BY RefByType, ConstTypes DEF TypeOK
<1>3. CASE b.chain = "mc"
  <2>1. b = Mc(RefBy(b))
    BY <1>3, BlockParts DEF RefBy
  <2> QED
    BY <1>1, <1>2, <1>3, <2>1 DEF Complete, SignaturesIn
<1>4. CASE b.chain # "mc"
  <2>1. b \in ScBlocks /\ b.seqno \in Nat /\ b.chain \in Shards /\ RefBy(b) = Ref[b]
    BY <1>4, BlockParts DEF RefBy
  <2>2. Mc(RefBy(b)) \in s.blocks
    <3>1. Due(Mc(RefBy(b)))
      BY DEF Due, Mc, RefBy
    <3> QED
      BY <1>4, <3>1, ChainYounger, YoungWith
  <2>3. b.chain \in Leaves[RefBy(b)] /\ b.seqno <= Top[RefBy(b)][b.chain]
    <3>1. b.chain \in Leaves[RefBy(b)]
      BY <2>1, ShardAssumption
    <3>2. Ref[b] <= RefBy(b)
      BY <1>2, <2>1 DEF McSeqnos
    <3> QED
      BY <1>2, <2>1, <3>1, <3>2, ShardAssumption
  <2>4. ASSUME NEW n \in b.seqno + 1..Top[RefBy(b)][b.chain] PROVE Sc(b.chain, n) \in s.blocks
    <3>1. n \in b.seqno..Top[RefBy(b)][b.chain]
      <4>1. Top[RefBy(b)] \in [Shards -> Nat]
        BY <1>2, ConstTypes
      <4>2. Top[RefBy(b)][b.chain] \in Nat
        BY <2>1, <4>1
      <4> QED
        BY <2>1, <4>2
    <3>2. Ref[Sc(b.chain, n)] = Ref[b]
      BY <2>1, <3>1, ShardAssumption
    <3>3. Due(Sc(b.chain, n))
      BY <1>4, <2>1, <3>2 DEF Due, RefBy, Sc
    <3>4. Sc(b.chain, n) \in Blocks /\ ~Old(Sc(b.chain, n))
      BY <1>4, ChainYounger, YoungWith
    <3> QED
      BY <3>3, <3>4
  <2> QED
    BY <1>1, <1>2, <2>2, <2>3, <2>4 DEF Complete, SignaturesIn
<1> QED
  BY <1>3, <1>4, BlockParts

\* A step that only lets time pass, or only moves the request.
LEMMA KeptIdle ==
  ASSUME TypeOK, TypeOK', KeptInv, UNCHANGED <<db, snapshot, mc, todo, handled>>, now <= now'
  PROVE  KeptInv'
<1>1. ASSUME NEW c \in Blocks, Old(c) PROVE Old(c)'
  <2>1. now \in Int /\ now' \in Int /\ MinProofTtl \in Int /\ GenUtime(c) \in Int
    BY ConstTypes, TimeType DEF TypeOK
  <2>2. now - GenUtime(c) >= MinProofTtl
    BY <1>1 DEF Old
  <2>3. now' - GenUtime(c) >= MinProofTtl
    BY <2>1, <2>2
  <2>4. GenUtime(c)' = GenUtime(c)
    BY DEF GenUtime
  <2> QED
    BY <2>3, <2>4 DEF Old
<1>2. \A c \in Blocks : (Done(c)' => Done(c)) /\ (Due(c)' => Due(c))
  BY DEF Done, Due, RefBy
<1> QED
  BY <1>1, <1>2 DEF KeptInv, SignaturesIn

\* Storing b takes away what is old only, and no signatures.
LEMMA WrittenKeeps ==
  ASSUME TypeOK, TimingInv, SignaturesIn(db), NEW b \in Blocks
  PROVE  /\ SignaturesIn(Written(b))
         /\ \A c \in db.blocks \cup {b} : c \in Written(b).blocks \/ Old(c)
         /\ \A c \in db.txs \cup {b} : c \in Written(b).txs \/ Old(c)
<1> DEFINE bound == IF HasTiming(b) THEN BoundOf(db.timings) ELSE 0
           signed == [mc |-> b.seqno, vset |-> vset]
<1>1. /\ Written(b).blocks = (db.blocks \cup {b}) \ (IF bound = 0 THEN {} ELSE Removed(bound))
      /\ Written(b).txs = (db.txs \cup {b}) \ (IF bound = 0 THEN {} ELSE RemovedTxs(bound))
  BY DEF Written
<1>2. bound # 0 => bound \in McSeqnos /\ McTime[bound] <= RemoveUntil
  BY BoundIs
<1>3. bound # 0 => /\ \A c \in Removed(bound) : Old(c)
                   /\ \A c \in RemovedTxs(bound) : Old(c)
  <2>1. \A c : c \in Removed(bound) \/ c \in RemovedTxs(bound) => c \in Blocks
    BY DEF Removed, RemovedTxs
  <2> HIDE DEF bound
  <2> QED
    BY <1>2, <2>1, RemovedOld
<1>4. /\ \A c \in db.blocks \cup {b} : c \in Written(b).blocks \/ Old(c)
      /\ \A c \in db.txs \cup {b} : c \in Written(b).txs \/ Old(c)
  <2> HIDE DEF bound
  <2> QED
    BY <1>1, <1>3
<1>5. ASSUME NEW m \in McSeqnos, Mc(m) \in Written(b).blocks
      PROVE  \E g \in Written(b).signatures : g.mc = m
  <2>1. Mc(m) \in db.blocks \/ Mc(m) = b
    BY <1>1, <1>5
  <2>2. CASE b = Mc(m)
    <3>1. signed \in Written(b).signatures /\ signed.mc = m
      BY <2>2 DEF Written, Mc
    <3> QED
      BY <3>1
  <2>3. CASE b # Mc(m)
    <3>1. PICK g \in db.signatures : g.mc = m
      BY <2>1, <2>3 DEF SignaturesIn
    <3>2. b.chain = "mc" => b.seqno # m
      BY <2>3, BlockParts
    <3>3. g \in Written(b).signatures
      BY <3>1, <3>2 DEF Written
    <3> QED
      BY <3>1, <3>3
  <2> QED
    BY <2>2, <2>3
<1> QED
  BY <1>4, <1>5 DEF SignaturesIn

LEMMA KeptStore ==
  ASSUME TypeOK, StriderInv, TimingInv, KeptInv, NEW b \in Blocks, StoreBlock(b)
  PROVE  KeptInv'
<1>1. \A c \in Blocks : (Old(c)' <=> Old(c)) /\ (Due(c)' <=> Due(c))
  BY DEF StoreBlock, Old, GenUtime, Due, RefBy
<1>2. \A c \in Blocks : Done(c)' => Done(c) \/ c = b
  BY DEF StoreBlock, Done, RefBy
<1>3. /\ SignaturesIn(db')
      /\ \A c \in db.blocks \cup {b} : c \in db'.blocks \/ Old(c)
      /\ \A c \in db.txs \cup {b} : c \in db'.txs \/ Old(c)
  <2>1. CASE Outdated(b)
    <3>1. db' = db
      BY <2>1 DEF StoreBlock
    <3>2. Old(b)
      <4>1. now \in Int /\ MinProofTtl \in Int /\ GenUtime(b) \in Int
        BY ConstTypes, TimeType DEF TypeOK
      <4> QED
        BY <2>1, <4>1 DEF Outdated, Old
    <3> QED
      BY <3>1, <3>2 DEF KeptInv
  <2>2. CASE ~Outdated(b)
    <3>1. db' = Written(b)
      BY <2>2 DEF StoreBlock
    <3>2. SignaturesIn(db)
      BY DEF KeptInv
    <3> QED
      BY <3>1, <3>2, WrittenKeeps
  <2> QED
    BY <2>1, <2>2
<1>4. SignaturesIn(snapshot)' /\ snapshot' = snapshot
  BY DEF StoreBlock, KeptInv, SignaturesIn
<1>5. SignaturesIn(db)'
  BY <1>3 DEF SignaturesIn
<1>6. \A c \in Blocks : Done(c)' => (c \in db'.blocks /\ c \in db'.txs) \/ Old(c)
  BY <1>2, <1>3 DEF KeptInv
<1> QED
  BY <1>1, <1>4, <1>5, <1>6 DEF KeptInv

\* The strider's steps: what becomes due is done.
LEMMA KeptStrider ==
  ASSUME TypeOK, StriderInv, KeptInv, HandleBlock \/ Commit \/ Restart
  PROVE  KeptInv'
<1>1. mc \in Int /\ \A c \in Blocks : RefBy(c) \in Int
  BY RefByType DEF TypeOK, McSeqnos
<1>2. db' = db /\ \A c \in Blocks : Old(c)' <=> Old(c)
  BY DEF HandleBlock, Commit, Restart, Old, GenUtime
<1>3. \A c \in Blocks : RefBy(c)' = RefBy(c)
  BY DEF RefBy
<1>4. SignaturesIn(db)' /\ SignaturesIn(snapshot)'
  BY DEF HandleBlock, Commit, Restart, RestartSnapshot, KeptInv, SignaturesIn
<1>5. \A c \in Blocks : Done(c)' => Done(c)
  <2>1. CASE HandleBlock
    BY <2>1, <1>3 DEF HandleBlock, Done
  <2>2. CASE Commit
    <3>1. todo = {} /\ mc' = mc + 1 /\ todo' = Committed(mc + 1)
      BY <2>2 DEF StriderInv, Commit
    <3>2. ASSUME NEW c \in Blocks, Done(c)' PROVE RefBy(c) <= mc
      <4>1. RefBy(c) < mc + 1 \/ (RefBy(c) = mc + 1 /\ c \notin Committed(mc + 1))
        BY <1>3, <3>1, <3>2 DEF Done
      <4>2. RefBy(c) # mc + 1 \/ c \in Committed(mc + 1)
        BY DEF Committed
      <4>3. RefBy(c) < mc + 1
        BY <4>1, <4>2
      <4> QED
        BY <1>1, <4>3
    <3> QED
      BY <1>1, <3>1, <3>2 DEF Done
  <2>3. CASE Restart
    <3>1. mc' = mc /\ todo' = Committed(mc)
      BY <2>3 DEF Restart
    <3>2. \A c \in Blocks : RefBy(c) = mc => c \in todo'
      BY <3>1 DEF Committed
    <3> QED
      BY <1>3, <3>1, <3>2 DEF Done
  <2> QED
    BY <2>1, <2>2, <2>3
<1>6. \A c \in Blocks : Due(c)' => c \in snapshot'.blocks \/ Old(c)
  <2>1. CASE HandleBlock
    <3>1. todo = {} /\ snapshot' = db /\ mc' = mc
      BY <2>1 DEF HandleBlock
    <3>2. \A c \in Blocks : Due(c)' => Done(c)
      BY <1>3, <3>1 DEF Due, Done
    <3> QED
      BY <3>1, <3>2 DEF KeptInv
  <2>2. CASE Commit
    <3>1. handled /\ ~handled' /\ mc' = mc + 1 /\ snapshot' = snapshot
      BY <2>2 DEF Commit
    <3>2. ASSUME NEW c \in Blocks, Due(c)' PROVE Due(c)
      <4>1. RefBy(c) < mc + 1
        BY <1>3, <3>1, <3>2 DEF Due
      <4>2. RefBy(c) \in Int
        BY <1>1
      <4> QED
        BY <1>1, <3>1, <4>1, <4>2 DEF Due
    <3> QED
      BY <3>1, <3>2 DEF KeptInv
  <2>3. CASE Restart
    <3>1. ~handled' /\ mc' = mc /\ snapshot' = db
      BY <2>3 DEF Restart, RestartSnapshot
    <3>2. \A c \in Blocks : Due(c)' => Done(c)
      BY <1>3, <3>1 DEF Due, Done
    <3> QED
      BY <3>1, <3>2 DEF KeptInv
  <2> QED
    BY <2>1, <2>2, <2>3
<1> QED
  BY <1>2, <1>4, <1>5, <1>6 DEF KeptInv

LEMMA KeptStep == ASSUME IInv, IInv', KeptInv, [Next]_vars PROVE KeptInv'
<1>1. TypeOK /\ TypeOK' /\ StriderInv /\ TimingInv
  BY DEF IInv
<1>2. now \in Int
  BY <1>1 DEF TypeOK
<1>3. CASE Tick
  BY <1>1, <1>2, <1>3, KeptIdle DEF Tick
<1>4. CASE \E b \in Blocks : StoreBlock(b)
  BY <1>1, <1>4, KeptStore
<1>5. CASE HandleBlock \/ Commit \/ Restart
  BY <1>1, <1>5, KeptStrider
<1>6. CASE (\E b \in Blocks : ReadIndex(b)) \/ BuildProof \/ Answer \/ UNCHANGED vars
  <2>1. UNCHANGED <<db, snapshot, mc, todo, handled>> /\ now' = now
    BY <1>6 DEF ReadIndex, BuildProof, Answer, vars
  <2>2. now <= now'
    BY <1>2, <2>1
  <2> QED
    BY <1>1, <2>1, <2>2, KeptIdle
<1> QED
  BY <1>3, <1>4, <1>5, <1>6 DEF Next

\* A due request stays due, and the answer to it is right when it is given.
LEMMA RequestStep ==
  ASSUME TypeOK, TypeOK', StriderInv, KeptInv, RequestInv, ServedWithinTtl, [Next]_vars
  PROVE  RequestInv' /\ ServedWithinTtl'
<1>1. /\ now \in Int /\ now' \in Int /\ MinProofTtl \in Int /\ mc \in Int
      /\ request.tx \in Blocks /\ \A c \in Blocks : GenUtime(c) \in Int /\ RefBy(c) \in Int
  BY ConstTypes, TimeType, RefByType DEF TypeOK, Requests, McSeqnos
<1>2. \A c : /\ RefBy(c)' = RefBy(c) /\ GenUtime(c)' = GenUtime(c)
            /\ Packable(c)' <=> Packable(c)
  BY DEF RefBy, GenUtime, Packable, ShardProofs
<1>3. CASE UNCHANGED <<mc, handled, request>> /\ now <= now'
  <2>1. request' = request /\ (request.due => Due(request.tx)')
    BY <1>2, <1>3 DEF Due, RequestInv
  <2>2. now' - GenUtime(request.tx) < MinProofTtl => now - GenUtime(request.tx) < MinProofTtl
    BY <1>1, <1>3
  <2> QED
    BY <1>2, <2>1, <2>2 DEF RequestInv, ServedWithinTtl
<1>4. CASE HandleBlock \/ Commit
  <2>1. request' = request /\ now' = now
    BY <1>4 DEF HandleBlock, Commit
  <2>2. ASSUME Due(request.tx) PROVE Due(request.tx)'
    <3>1. CASE HandleBlock
      BY <1>2, <2>2, <3>1 DEF HandleBlock, Due
    <3>2. CASE Commit
      <4>1. mc' = mc + 1 /\ (RefBy(request.tx) < mc \/ RefBy(request.tx) = mc)
        BY <2>2, <3>2 DEF Commit, Due
      <4>2. RefBy(request.tx) < mc'
        BY <1>1, <4>1
      <4> QED
        BY <1>2, <2>1, <4>2 DEF Due
    <3> QED
      BY <1>4, <3>1, <3>2
  <2> QED
    BY <1>2, <2>1, <2>2 DEF RequestInv, ServedWithinTtl
<1>5. CASE Restart \/ Answer
  <2>1. request'.pc = "none" /\ ~request'.due
    BY <1>5 DEF Restart, Answer, NoRequest
  <2> QED
    BY <2>1 DEF RequestInv, ServedWithinTtl
<1>6. ASSUME NEW b \in Blocks, ReadIndex(b) PROVE RequestInv' /\ ServedWithinTtl'
  <2>1. /\ UNCHANGED <<now, db, mc, handled>>
        /\ request' = [pc |-> IF b \in db.txs THEN "indexed" ELSE "not_found",
                       tx |-> b, due |-> Due(b)]
    BY <1>6 DEF ReadIndex
  <2>2. request'.tx = b /\ (request'.due <=> Due(b))
    BY <2>1
  <2>3. Due(b) => Due(b)'
    BY <1>2, <2>1 DEF Due
  <2>4. ASSUME request'.pc = "not_found", Due(b) PROVE Old(b)
    <3>1. b \notin db.txs
      BY <2>1, <2>4
    <3>2. Done(b)
      BY <2>4 DEF Due, Done, StriderInv
    <3> QED
      BY <3>1, <3>2 DEF KeptInv
  <2>5. Old(b) => ~(now - GenUtime(b) < MinProofTtl)
    BY <1>1, <1>6 DEF Old
  <2>6. request'.pc # "error"
    BY <2>1
  <2> QED
    BY <1>2, <2>1, <2>2, <2>3, <2>4, <2>5, <2>6 DEF RequestInv, ServedWithinTtl
<1>7. CASE BuildProof
  <2> DEFINE built == IF Complete(snapshot, request.tx) /\ Packable(request.tx)
                      THEN "proof" ELSE "error"
  <2>1. UNCHANGED <<now, mc, handled>> /\ request' = [request EXCEPT !.pc = built]
    BY <1>7 DEF BuildProof
  <2>2. request'.tx = request.tx /\ request'.due = request.due /\ request'.pc = built
    BY <2>1 DEF TypeOK, Requests
  <2>3. request.due => Due(request.tx)'
    BY <1>2, <2>1 DEF Due, RequestInv
  <2>4. ASSUME built # "proof", request.due, Packable(request.tx) PROVE Old(request.tx)
    <3>1. ~Complete(snapshot, request.tx) /\ Due(request.tx)
      BY <2>4 DEF RequestInv
    <3>2. snapshot \in Db
      BY DEF TypeOK
    <3>3. SignaturesIn(snapshot) /\ \A c \in Blocks : Due(c) => c \in snapshot.blocks \/ Old(c)
      BY DEF KeptInv
    <3> QED
      BY <1>1, <3>1, <3>2, <3>3, Enough
  <2>5. built \in {"proof", "error"}
    OBVIOUS
  <2> HIDE DEF built
  <2>6. request'.pc # "not_found" /\ (request'.pc = "error" => built # "proof")
    BY <2>2, <2>5
  <2>7. Old(request.tx) => ~(now - GenUtime(request.tx) < MinProofTtl)
    BY <1>1 DEF Old
  <2> QED
    BY <1>2, <2>1, <2>2, <2>3, <2>4, <2>6, <2>7 DEF RequestInv, ServedWithinTtl
<1>8. CASE Tick
  <2>1. now <= now'
    BY <1>1, <1>8 DEF Tick
  <2> QED
    BY <1>3, <1>8, <2>1 DEF Tick
<1>9. CASE (\E b \in Blocks : StoreBlock(b)) \/ UNCHANGED vars
  <2>1. now' = now /\ UNCHANGED <<mc, handled, request>>
    BY <1>9 DEF StoreBlock, vars
  <2>2. now <= now'
    BY <1>1, <2>1
  <2> QED
    BY <1>3, <2>1, <2>2
<1> QED
  BY <1>4, <1>5, <1>6, <1>7, <1>8, <1>9 DEF Next

LEMMA ServiceStarts == Init => ServiceInv
<1> SUFFICES ASSUME Init PROVE ServiceInv
  OBVIOUS
<1>1. IInv
  BY Initially
<1>2. db.blocks = {} /\ snapshot.blocks = {} /\ mc = 1 /\ ~handled /\ todo = Committed(1)
  BY DEF Init
<1>3. request.due = FALSE /\ request.pc = "none"
  BY DEF Init, NoRequest
<1>4. ASSUME NEW c \in Blocks PROVE ~Done(c) /\ ~Due(c)
  <2>1. RefBy(c) \in McSeqnos
    BY RefByType
  <2>2. ~(RefBy(c) < 1)
    BY <2>1 DEF McSeqnos
  <2>3. RefBy(c) = 1 => c \in todo
    BY <1>2 DEF Committed
  <2> QED
    BY <1>2, <2>2, <2>3 DEF Done, Due
<1>5. KeptInv
  BY <1>2, <1>4 DEF KeptInv, SignaturesIn
<1> QED
  BY <1>1, <1>3, <1>5 DEF ServiceInv, RequestInv, ServedWithinTtl

LEMMA Served == Spec => []ServiceInv
<1>1. ServiceInv /\ [Next]_vars => ServiceInv'
  <2> SUFFICES ASSUME ServiceInv, [Next]_vars PROVE ServiceInv'
    OBVIOUS
  <2>1. IInv /\ IInv'
    BY EveryStep DEF ServiceInv
  <2>2. KeptInv'
    BY <2>1, KeptStep DEF ServiceInv
  <2>3. RequestInv' /\ ServedWithinTtl'
    BY <2>1, RequestStep DEF ServiceInv, IInv
  <2> QED
    BY <2>1, <2>2, <2>3 DEF ServiceInv
<1> QED
  BY <1>1, ServiceStarts, PTL DEF Spec

\* A transaction that was handled before the request, and is within its time to
\* live, is found and gets its proof if make_proof_chain can pack it: build_proof's
\* live index and its snapshot never disagree about such a block, whatever
\* store_block deletes in between.
THEOREM ServedWithinTtlHolds == Spec => []ServedWithinTtl
<1>1. ServiceInv => ServedWithinTtl
  BY DEF ServiceInv
<1> QED
  BY <1>1, Served, PTL

\* What the database keeps of a handled transaction is enough for its proof until
\* its time to live is over (store_block's deletion and its skipped blocks).
THEOREM IndexIsBackedHolds == Spec => []IndexIsBacked
<1>1. ServiceInv => IndexIsBacked
  <2> SUFFICES ASSUME ServiceInv, NEW b \in db.txs, Due(b), ~Old(b) PROVE Complete(db, b)
    BY DEF IndexIsBacked, Old
  <2>1. TypeOK /\ StriderInv /\ KeptInv
    BY DEF ServiceInv, IInv
  <2>2. b \in Blocks /\ db \in Db
    BY <2>1 DEF TypeOK, Db
  <2>3. \A c \in Blocks : Due(c) => Done(c)
    BY <2>1 DEF Due, Done, StriderInv
  <2>4. SignaturesIn(db) /\ \A c \in Blocks : Due(c) => c \in db.blocks \/ Old(c)
    BY <2>1, <2>3 DEF KeptInv
  <2> QED
    BY <2>1, <2>2, <2>4, Enough
<1> QED
  BY <1>1, Served, PTL

-------------------------------------------------------------------------------
(* The promise of ProofService. *)

\* Nothing the snapshot has is gone from the database, nor anything in either
\* from the index, before its time.
StillInv ==
  /\ \A g \in snapshot.signatures : \E h \in db.signatures : h.mc = g.mc
  /\ \A c \in snapshot.blocks : c \in db.blocks \/ Old(c)
  /\ \A c \in db.blocks \cup snapshot.blocks : c \in db.txs \/ Old(c)

PromiseInv == ServiceInv /\ StillInv

\* A proof all in one state of the database is all in another, if that one has
\* lost old blocks only.
LEMMA StillComplete ==
  ASSUME TypeOK, NEW s, NEW t,
         \A g \in s.signatures : \E h \in t.signatures : h.mc = g.mc,
         \A c \in s.blocks : c \in t.blocks \/ Old(c),
         NEW b \in Blocks, Complete(s, b), ~Old(b)
  PROVE  Complete(t, b)
<1>1. b \in t.blocks /\ \E h \in t.signatures : h.mc = RefBy(b)
  BY DEF Complete
<1>2. CASE b.chain = "mc"
  BY <1>1, <1>2 DEF Complete
<1>3. CASE b.chain # "mc"
  <2>1. /\ Mc(RefBy(b)) \in s.blocks
        /\ b.chain \in Leaves[RefBy(b)]
        /\ b.seqno <= Top[RefBy(b)][b.chain]
        /\ \A n \in b.seqno + 1..Top[RefBy(b)][b.chain] : Sc(b.chain, n) \in s.blocks
    BY <1>3 DEF Complete
  <2>2. Mc(RefBy(b)) \in t.blocks
    BY <1>3, <2>1, ChainYounger, YoungWith
  <2>3. ASSUME NEW n \in b.seqno + 1..Top[RefBy(b)][b.chain] PROVE Sc(b.chain, n) \in t.blocks
    <3>1. Sc(b.chain, n) \in Blocks /\ GenUtime(b) <= GenUtime(Sc(b.chain, n))
      BY <1>3, ChainYounger
    <3>2. ~Old(Sc(b.chain, n))
      BY <3>1, YoungWith
    <3> QED
      BY <2>1, <3>2
  <2> QED
    BY <1>1, <2>1, <2>2, <2>3 DEF Complete
<1> QED
  BY <1>2, <1>3

\* Time does not make a block younger.
LEMMA StaysOld == ASSUME TypeOK, [Next]_vars, NEW c \in Blocks, Old(c)
                  PROVE  Old(c)' /\ now <= now'
<1>1. now \in Int /\ MinProofTtl \in Int /\ GenUtime(c) \in Int
  BY TimeType, ConstTypes DEF TypeOK
<1>2. now' = now \/ now' = now + 1
  BY DEF Next, Tick, StoreBlock, HandleBlock, Commit, Restart, ReadIndex, BuildProof, Answer, vars
<1>3. now - GenUtime(c) >= MinProofTtl
  BY DEF Old
<1>4. now' - GenUtime(c) >= MinProofTtl /\ now <= now'
  BY <1>1, <1>2, <1>3
<1>5. GenUtime(c)' = GenUtime(c)
  BY DEF GenUtime
<1> QED
  BY <1>4, <1>5 DEF Old

LEMMA StillStore ==
  ASSUME TypeOK, TimingInv, KeptInv, StillInv, NEW b \in Blocks, StoreBlock(b)
  PROVE  StillInv'
<1>1. snapshot' = snapshot /\ \A c : Old(c)' <=> Old(c)
  BY DEF StoreBlock, Old, GenUtime
<1>2. CASE db' = db
  BY <1>1, <1>2 DEF StillInv
<1>3. CASE db' = Written(b)
  <2>1. SignaturesIn(db)
    BY DEF KeptInv
  <2>2. /\ \A c \in db.blocks \cup {b} : c \in db'.blocks \/ Old(c)
        /\ \A c \in db.txs \cup {b} : c \in db'.txs \/ Old(c)
    BY <1>3, <2>1, WrittenKeeps
  <2>3. db'.blocks \subseteq db.blocks \cup {b}
    BY <1>3 DEF Written
  <2>4. \A g \in db.signatures : \E h \in db'.signatures : h.mc = g.mc
    <3> SUFFICES ASSUME NEW g \in db.signatures
                 PROVE  \E h \in Written(b).signatures : h.mc = g.mc
      BY <1>3
    <3> DEFINE signed == [mc |-> b.seqno, vset |-> vset]
    <3>1. CASE b.chain = "mc" /\ g.mc = b.seqno
      <4>1. signed \in Written(b).signatures /\ signed.mc = g.mc
        BY <3>1 DEF Written
      <4> QED
        BY <4>1
    <3>2. CASE ~(b.chain = "mc" /\ g.mc = b.seqno)
      BY <3>2 DEF Written
    <3> QED
      BY <3>1, <3>2
  <2>5. \A g \in snapshot.signatures : \E h \in db'.signatures : h.mc = g.mc
    <3> SUFFICES ASSUME NEW g \in snapshot.signatures
                 PROVE  \E h \in db'.signatures : h.mc = g.mc
      OBVIOUS
    <3>1. PICK h \in db.signatures : h.mc = g.mc
      BY DEF StillInv
    <3> QED
      BY <2>4, <3>1
  <2>6. \A c \in snapshot.blocks : c \in db'.blocks \/ Old(c)
    BY <2>2 DEF StillInv
  <2>7. \A c \in db'.blocks \cup snapshot.blocks : c \in db'.txs \/ Old(c)
    BY <2>2, <2>3 DEF StillInv
  <2> QED
    BY <1>1, <2>5, <2>6, <2>7 DEF StillInv
<1> QED
  BY <1>2, <1>3 DEF StoreBlock

LEMMA StillStep == ASSUME PromiseInv, [Next]_vars PROVE StillInv'
<1>1. TypeOK /\ TimingInv /\ KeptInv /\ StillInv
  BY DEF PromiseInv, ServiceInv, IInv
<1>2. CASE \E b \in Blocks : StoreBlock(b)
  BY <1>1, <1>2, StillStore
<1>3. CASE ~(\E b \in Blocks : StoreBlock(b))
  <2>1. db' = db /\ snapshot' \in {snapshot, db}
    BY <1>3 DEF Next, Tick, HandleBlock, Commit, Restart, RestartSnapshot, ReadIndex, BuildProof,
                Answer, vars
  <2>2. db.blocks \subseteq Blocks /\ snapshot.blocks \subseteq Blocks
    BY <1>1 DEF TypeOK, Db
  <2>3. \A c \in Blocks : Old(c) => Old(c)'
    BY <1>1, StaysOld
  <2>4. \A g \in snapshot'.signatures : \E h \in db.signatures : h.mc = g.mc
    BY <1>1, <2>1 DEF StillInv
  <2>5. \A c \in snapshot'.blocks : c \in db.blocks \/ Old(c)'
    BY <1>1, <2>1, <2>2, <2>3 DEF StillInv
  <2>6. \A c \in db.blocks \cup snapshot'.blocks : c \in db.txs \/ Old(c)'
    BY <1>1, <2>1, <2>2, <2>3 DEF StillInv
  <2> QED
    BY <2>1, <2>4, <2>5, <2>6 DEF StillInv
<1> QED
  BY <1>2, <1>3

\* What is promised and not stale is all there, wherever one looks.
LEMMA Backed ==
  ASSUME PromiseInv, NEW b \in Promised \ Stale
  PROVE  b \in db.txs /\ Complete(db, b) /\ Complete(snapshot, b)
<1>1. TypeOK /\ StriderInv /\ KeptInv /\ StillInv
  BY DEF PromiseInv, ServiceInv, IInv
<1>2. b \in Blocks /\ ~Old(b) /\ (Due(b) \/ Complete(snapshot, b))
  BY DEF Promised, Stale, Old
<1>3. Complete(snapshot, b)
  <2>1. CASE Due(b)
    <3>1. snapshot \in Db /\ SignaturesIn(snapshot)
      BY <1>1 DEF TypeOK, KeptInv
    <3>2. \A c \in Blocks : Due(c) => c \in snapshot.blocks \/ Old(c)
      BY <1>1 DEF KeptInv
    <3> QED
      BY <1>1, <1>2, <2>1, <3>1, <3>2, Enough
  <2> QED
    BY <1>2, <2>1
<1>4. Complete(db, b)
  <2>1. /\ \A g \in snapshot.signatures : \E h \in db.signatures : h.mc = g.mc
        /\ \A c \in snapshot.blocks : c \in db.blocks \/ Old(c)
    BY <1>1 DEF StillInv
  <2> QED
    BY <1>1, <1>2, <1>3, <2>1, StillComplete
<1>5. b \in db.txs
  BY <1>1, <1>2, <1>4 DEF Complete, StillInv
<1> QED
  BY <1>3, <1>4, <1>5

\* No promise is taken back but for a stale transaction.
LEMMA KeepsWhatItPromised ==
  ASSUME PromiseInv, [Next]_vars, NEW b \in Promised \ Stale'
  PROVE  b \in Promised'
<1>1. TypeOK /\ StriderInv /\ b \in Blocks /\ Packable(b)
  BY DEF PromiseInv, ServiceInv, IInv, Promised
<1>2. b \notin Stale
  <2>1. CASE Old(b)
    <3>1. Old(b)'
      BY <1>1, <2>1, StaysOld
    <3> QED
      BY <1>1, <3>1 DEF Old, Stale
  <2> QED
    BY <1>1, <2>1 DEF Old, Stale
<1>3. Complete(db, b) /\ Complete(snapshot, b)
  BY <1>2, Backed
<1>4. Complete(snapshot, b)'
  <2>1. snapshot' \in {snapshot, db}
    BY DEF Next, Tick, StoreBlock, HandleBlock, Commit, Restart, RestartSnapshot, ReadIndex,
           BuildProof, Answer, vars
  <2>2. Complete(snapshot', b)
    BY <1>3, <2>1
  <2> QED
    BY <2>2 DEF Complete, RefBy, Mc, Sc
<1>5. Packable(b)'
  BY <1>1 DEF Packable, ShardProofs, RefBy
<1> QED
  BY <1>1, <1>4, <1>5 DEF Promised

LEMMA PromiseStarts == Init => PromiseInv /\ Service!SInit
<1> SUFFICES ASSUME Init PROVE PromiseInv /\ Service!SInit
  OBVIOUS
<1>1. ServiceInv
  BY ServiceStarts
<1>2. /\ db.blocks = {} /\ snapshot.blocks = {} /\ snapshot.signatures = {}
      /\ mc = 1 /\ ~handled /\ request = NoRequest
  BY DEF Init
<1>3. StillInv
  BY <1>2 DEF StillInv
<1>4. Promised = {}
  <2> SUFFICES ASSUME NEW b \in Blocks PROVE ~Due(b) /\ ~Complete(snapshot, b)
    BY DEF Promised
  <2>1. ~(RefBy(b) < 1)
    BY RefByType DEF McSeqnos
  <2> QED
    BY <1>2, <2>1 DEF Due, Complete
<1>5. Stale \subseteq Blocks
  BY DEF Stale
<1>6. Asked \in Service!Idle
  BY <1>2, FirstBlock DEF Asked, NoRequest, Service!Idle
<1> QED
  BY <1>1, <1>3, <1>4, <1>5, <1>6 DEF PromiseInv, Service!SInit

\* The steps between which a request may fall, and those that end it.
LEMMA KeepStep ==
  ASSUME PromiseInv, [Next]_vars, Asked' = Asked \/ Asked' \in Service!Idle
  PROVE  Service!Keep
<1>1. Promised' \subseteq Blocks
  BY DEF Promised, Blocks
<1>2. Stale \subseteq Stale' /\ Stale' \subseteq Blocks
  <2>1. TypeOK
    BY DEF PromiseInv, ServiceInv, IInv
  <2>2. \A c \in Blocks : Old(c) => Old(c)'
    BY <2>1, StaysOld
  <2> QED
    BY <2>2 DEF Stale, Old, Blocks
<1>3. Promised \ Stale' \subseteq Promised'
  BY KeepsWhatItPromised
<1> QED
  BY <1>1, <1>2, <1>3 DEF Service!Keep

\* The index knows what is promised.
LEMMA AskStep ==
  ASSUME PromiseInv, NEW b \in Blocks, ReadIndex(b)
  PROVE  Service!Ask(b)
<1>1. request.pc = "none" /\ Asked.status = "none"
  BY DEF ReadIndex, Asked
<1>2. Promised' = Promised /\ Stale' = Stale
  BY DEF ReadIndex, Promised, Packable, ShardProofs, Stale, Due, Complete, RefBy, GenUtime, Mc,
         Sc, Blocks
<1>3. CASE b \in db.txs
  <2>1. request' = [pc |-> "indexed", tx |-> b, due |-> Due(b)]
    BY <1>3 DEF ReadIndex
  <2>2. Asked' = [status |-> "pending", tx |-> b]
    BY <2>1 DEF Asked
  <2> QED
    BY <1>1, <1>2, <2>2 DEF Service!Ask
<1>4. CASE b \notin db.txs
  <2>1. request' = [pc |-> "not_found", tx |-> b, due |-> Due(b)]
    BY <1>4 DEF ReadIndex
  <2>2. Asked' = [status |-> "refused", tx |-> b]
    BY <2>1 DEF Asked
  <2>3. b \notin Service!Owed
    BY <1>4, Backed DEF Service!Owed
  <2> QED
    BY <1>1, <1>2, <2>2, <2>3 DEF Service!Ask
<1> QED
  BY <1>3, <1>4

\* The snapshot has what is promised.
LEMMA AnswerStep ==
  ASSUME PromiseInv, BuildProof
  PROVE  Service!Prove \/ Service!Refuse
<1>1. request \in Requests
  BY DEF PromiseInv, ServiceInv, IInv, TypeOK
<1>2. Asked = [status |-> "pending", tx |-> request.tx] /\ request.tx \in Blocks
  BY <1>1 DEF BuildProof, Asked, Requests
<1>3. Promised' = Promised /\ Stale' = Stale
  BY DEF BuildProof, Promised, Packable, ShardProofs, Stale, Due, Complete, RefBy, GenUtime, Mc,
         Sc, Blocks
<1>4. CASE Complete(snapshot, request.tx) /\ Packable(request.tx)
  <2>1. request' = [request EXCEPT !.pc = "proof"]
    BY <1>4 DEF BuildProof
  <2>2. request'.pc = "proof" /\ request'.tx = request.tx
    BY <1>1, <2>1 DEF Requests
  <2>3. Asked' = [status |-> "proof", tx |-> request.tx]
    BY <2>2 DEF Asked
  <2>4. Asked.tx \in Promised
    BY <1>2, <1>4 DEF Promised
  <2> QED
    BY <1>2, <1>3, <2>3, <2>4 DEF Service!Prove
<1>5. CASE ~(Complete(snapshot, request.tx) /\ Packable(request.tx))
  <2>1. request' = [request EXCEPT !.pc = "error"]
    BY <1>5 DEF BuildProof
  <2>2. request'.pc = "error" /\ request'.tx = request.tx
    BY <1>1, <2>1 DEF Requests
  <2>3. Asked' = [status |-> "refused", tx |-> request.tx]
    BY <2>2 DEF Asked
  <2>4. Asked.tx \notin Service!Owed
    <3>1. request.tx \notin Promised \ Stale
      BY <1>5, Backed DEF Promised
    <3> QED
      BY <1>2, <3>1 DEF Service!Owed
  <2> QED
    BY <1>2, <1>3, <2>3, <2>4 DEF Service!Refuse
<1> QED
  BY <1>4, <1>5

LEMMA ServiceStep == ASSUME PromiseInv, [Next]_vars PROVE [Service!SNext]_(Service!svars)
<1>1. CASE \E b \in Blocks : ReadIndex(b)
  BY <1>1, AskStep DEF Service!SNext
<1>2. CASE BuildProof
  BY <1>2, AnswerStep DEF Service!SNext
<1>3. CASE Restart \/ Answer
  <2>1. request' = NoRequest
    BY <1>3 DEF Restart, Answer
  <2>2. Asked' \in Service!Idle
    BY <2>1, FirstBlock DEF Asked, NoRequest, Service!Idle
  <2> QED
    BY <2>2, KeepStep DEF Service!SNext
<1>4. CASE UNCHANGED request
  <2>1. Asked' = Asked
    BY <1>4 DEF Asked
  <2> QED
    BY <2>1, KeepStep DEF Service!SNext
<1> QED
  BY <1>1, <1>2, <1>3, <1>4 DEF Next, Tick, StoreBlock, HandleBlock, Commit, vars

LEMMA PromiseKept == Spec => []PromiseInv
<1>1. ServiceInv /\ ServiceInv' /\ PromiseInv /\ [Next]_vars => PromiseInv'
  BY StillStep DEF PromiseInv
<1> QED
  BY <1>1, PromiseStarts, Served, PTL DEF Spec

\* The storage implements the proof service: what build_proof could prove once, a
\* chain that make_proof_chain packs, is proved until its time to live is over, and
\* is refused at no time before that, across deletions, moves of the snapshot and
\* restarts in the middle of a block
\* (store_block, update_snapshot, ProofStorage::new, build_proof).
THEOREM StorageKeepsItsPromise == Spec => ServiceSpec
<1>1. PromiseInv /\ [Next]_vars => [Service!SNext]_(Service!svars)
  BY ServiceStep
<1>2. Init => Service!SInit
  BY PromiseStarts
<1> QED
  BY <1>1, <1>2, PromiseKept, PTL DEF Spec, ServiceSpec, Service!SSpec
===============================================================================
