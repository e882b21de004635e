------------------------- MODULE KeyBlockFetchProofs --------------------------
(* Proofs about KeyBlockFetch for every history of key blocks, every client    *)
(* and whatever the nodes answer.                                              *)
EXTENDS KeyBlockFetch, FiniteSetTheorems, TLAPS

Walking == {"walk", "lookup", "block", "prev", "proof", "key_block"}
OfTon == {"last_block", "lookup", "block", "prev", "proof"}

\* What does not change, and what bounds the rest.
Base ==
  /\ chain \in Chains
  /\ head \in 1..Len(chain.epoch)
  /\ \E n \in 0..Len(chain.epoch) : bridge = EpochAt(n)
  /\ cursor \in 0..Len(chain.epoch)
  /\ result \in {0} \cup KeyBlocks
  /\ pc \in OfTon => kind = "ton"

\* A client can load this key block: TonClient needs the one before it.
Readable(k) == k \in KeyBlocks /\ (kind = "ton" => PrevKey(k) # 0)

\* What is remembered has been loaded, with signatures some node holds.
CacheInv ==
  \A k \in DOMAIN cache : Readable(k) /\ cache[k] \in Signatures(k)

\* The walk is at its beginning, or the key block it looks at next is the one
\* before the oldest it has found newer than the bridge's epoch.
WalkInv ==
  /\ pc \in {"last", "last_block"} => latest = 0 /\ result = 0
  /\ pc \in Walking =>
       /\ cursor \in {0} \cup KeyBlocks
       /\ IF result = 0 THEN cursor = latest
          ELSE /\ cursor = PrevKey(result)
               /\ EpochAt(result) > bridge
               /\ result \in DOMAIN cache
  /\ pc \in {"block", "prev", "proof"} => cursor # 0
  /\ pc = "proof" => Readable(cursor)

\* It ends between the last key block of the bridge's epoch and the next one.
FoundInv ==
  pc \in {"found", "ready"} =>
    /\ result \in DOMAIN cache /\ cursor \in DOMAIN cache
    /\ cursor = PrevKey(result)
    /\ EpochAt(cursor) = bridge
    /\ EpochAt(result) > bridge

IInv == Base /\ CacheInv /\ WalkInv /\ FoundInv /\ NextForBridge /\ WalkFailsByNodes

-------------------------------------------------------------------------------
(* Numbers and key blocks. *)

\* As in every finite set, the sets of what lies above an element have a least one.
LEMMA Greatest == ASSUME NEW N \in Nat, NEW T, T \subseteq 0..N, T # {}
                  PROVE  Max(T) \in T /\ \A y \in T : y <= Max(T)
<1> DEFINE Above(x) == {y \in T : y > x}
           Uppers == {Above(x) : x \in T}
<1>1. IsFiniteSet(T)
  <2>1. IsFiniteSet(0..N)
    BY FS_Interval
  <2> QED
    BY <2>1, FS_Subset
<1>2. Uppers \subseteq FiniteSubsetsOf(T)
  BY <1>1, FS_FiniteSubsetsOfFinite
<1>3. PICK U \in Uppers : \A V \in Uppers : ~(<<V, U>> \in StrictSubsetOrdering(T))
  <2>1. Uppers # {}
    OBVIOUS
  <2> HIDE DEF Uppers
  <2> QED
    BY <1>2, <2>1, FS_StrictSubsetOrderingWellFounded, WFMin
<1>4. PICK x \in T : U = Above(x)
  BY <1>3
<1>5. \A y \in T : ~(y > x)
  <2> SUFFICES ASSUME NEW y \in T, y > x PROVE FALSE
    OBVIOUS
  <2>1. Above(y) \subseteq U
    <3>1. T \subseteq Int
      OBVIOUS
    <3>2. \A z \in T : z > y => z > x
      BY <3>1
    <3> QED
      BY <1>4, <3>2
  <2>2. y \in U /\ y \notin Above(y)
    BY <1>4
  <2>3. <<Above(y), U>> \in StrictSubsetOrdering(T)
    BY <1>4, <2>1, <2>2 DEF StrictSubsetOrdering
  <2> QED
    BY <1>3, <2>3
<1>6. x \in T /\ \A y \in T : x >= y
  BY <1>5
<1>7. Max(T) \in T /\ \A y \in T : Max(T) >= y
  BY <1>6 DEF Max
<1> QED
  BY <1>7

LEMMA Least == ASSUME NEW N \in Nat, NEW T, T \subseteq 0..N, T # {}
               PROVE  Min(T) \in T /\ \A y \in T : Min(T) <= y
<1> DEFINE Mirror == {N - y : y \in T}
<1>1. Mirror \subseteq 0..N /\ Mirror # {}
  <2>1. \A y \in T : N - y \in 0..N
    OBVIOUS
  <2> QED
    BY <2>1
<1>2. Max(Mirror) \in Mirror /\ \A z \in Mirror : z <= Max(Mirror)
  <2> HIDE DEF Mirror
  <2> QED
    BY <1>1, Greatest
<1>3. PICK x \in T : Max(Mirror) = N - x
  BY <1>2
<1>4. \A y \in T : N - y <= N - x
  BY <1>2, <1>3
<1>5. \A y \in T : x <= y
  <2>1. T \subseteq Int
    OBVIOUS
  <2> QED
    BY <1>4, <2>1
<1> QED
  BY <1>5 DEF Min

LEMMA History ==
  ASSUME chain \in Chains
  PROVE  /\ Len(chain.epoch) \in Nat \ {0}
         /\ KeyBlocks \subseteq 1..Len(chain.epoch) /\ KeyBlocks \subseteq Nat \ {0}
         /\ \A n \in 0..Len(chain.epoch) : EpochAt(n) \in Nat /\ Since(n) \in Nat
<1>1. /\ chain.epoch \in Seq(Nat) /\ chain.epoch # <<>>
      /\ chain.keys \subseteq (0..Len(chain.epoch)) \ {0}
      /\ \A n \in 0..Len(chain.epoch) : Vset[EpochOf(chain, n)].since \in Nat
  BY KeyBlockFetchAssumption
<1>2. Len(chain.epoch) \in Nat \ {0}
  <2> DEFINE e == chain.epoch
  <2>1. e \in Seq(Nat) /\ e # <<>>
    BY <1>1
  <2> HIDE DEF e
  <2>2. Len(e) \in Nat \ {0}
    BY <2>1
  <2> QED
    BY <2>2 DEF e
<1>3. \A n \in 0..Len(chain.epoch) : EpochOf(chain, n) \in Nat
  BY <1>1 DEF EpochOf
<1>4. KeyBlocks \subseteq 1..Len(chain.epoch) /\ KeyBlocks \subseteq Nat \ {0}
  BY <1>1, <1>2 DEF KeyBlocks
<1> QED
  BY <1>1, <1>2, <1>3, <1>4 DEF EpochAt, Since

LEMMA Rotations ==
  ASSUME chain \in Chains,
         NEW a \in 0..Len(chain.epoch), NEW b \in 0..Len(chain.epoch)
  PROVE  /\ a <= b => EpochAt(a) <= EpochAt(b)
         /\ a < b => EpochAt(b) <= EpochAt(b - 1) + 1
         /\ a < b /\ EpochAt(a) # EpochAt(b) => \E k \in KeyBlocks : a < k /\ k <= b
         /\ Since(a) > Since(b) <=> EpochAt(a) > EpochAt(b)
         /\ Since(a) < Since(b) <=> EpochAt(a) < EpochAt(b)
<1>1. a < b =>
        /\ EpochOf(chain, a) <= EpochOf(chain, b)
        /\ EpochOf(chain, b) <= EpochOf(chain, b - 1) + 1
        /\ EpochOf(chain, a) = EpochOf(chain, b) \/ \E k \in chain.keys : a < k /\ k <= b
  BY KeyBlockFetchAssumption
<1>2. \A x, y \in 0..Len(chain.epoch) : EpochOf(chain, x) < EpochOf(chain, y) =>
        Vset[EpochOf(chain, x)].since < Vset[EpochOf(chain, y)].since
  <2> DEFINE Epochs == {EpochOf(chain, n) : n \in 0..Len(chain.epoch)}
  <2>1. \A d, e \in Epochs : d < e => Vset[d].since < Vset[e].since
    BY KeyBlockFetchAssumption
  <2>2. \A x \in 0..Len(chain.epoch) : EpochOf(chain, x) \in Epochs
    OBVIOUS
  <2> HIDE DEF Epochs
  <2> QED
    BY <2>1, <2>2
<1>3. EpochAt(a) \in Nat /\ EpochAt(b) \in Nat /\ Since(a) \in Nat /\ Since(b) \in Nat
  BY History
<1>4. /\ EpochAt(a) < EpochAt(b) => Since(a) < Since(b)
      /\ EpochAt(b) < EpochAt(a) => Since(b) < Since(a)
      /\ EpochAt(a) = EpochAt(b) => Since(a) = Since(b)
  BY <1>2 DEF EpochAt, Since
<1>5. a <= b => EpochAt(a) <= EpochAt(b)
  BY <1>1, <1>3 DEF EpochAt
<1> QED
  BY <1>1, <1>3, <1>4, <1>5 DEF EpochAt, KeyBlocks

LEMMA Before ==
  ASSUME chain \in Chains, NEW n \in 1..Len(chain.epoch) + 1
  PROVE  /\ PrevKey(n) \in {0} \cup KeyBlocks
         /\ PrevKey(n) \in 0..Len(chain.epoch) /\ PrevKey(n) < n
         /\ \A k \in KeyBlocks : k < n => k <= PrevKey(n)
<1> DEFINE T == {k \in KeyBlocks : k < n} \cup {0}
<1>1. Len(chain.epoch) \in Nat /\ KeyBlocks \subseteq 1..Len(chain.epoch)
  BY History
<1>2. T \subseteq 0..Len(chain.epoch) /\ T # {}
  <2>1. KeyBlocks \subseteq 0..Len(chain.epoch) /\ 0 \in 0..Len(chain.epoch)
    BY <1>1
  <2> QED
    BY <2>1
<1>3. Max(T) \in T /\ \A y \in T : y <= Max(T)
  <2> HIDE DEF T
  <2> QED
    BY <1>1, <1>2, Greatest
<1> QED
  BY <1>1, <1>2, <1>3 DEF PrevKey

\* From one key block to the next there is at most one rotation, the last one's.
LEMMA NextEpoch ==
  ASSUME chain \in Chains, NEW k \in KeyBlocks
  PROVE  /\ EpochAt(k - 1) = EpochAt(PrevKey(k))
         /\ EpochAt(k) <= EpochAt(PrevKey(k)) + 1
<1> DEFINE p == PrevKey(k)
<1>1. /\ Len(chain.epoch) \in Nat /\ k \in 1..Len(chain.epoch)
      /\ k \in 0..Len(chain.epoch) /\ k - 1 \in 0..Len(chain.epoch)
      /\ k \in 1..Len(chain.epoch) + 1 /\ KeyBlocks \subseteq 1..Len(chain.epoch)
  BY History
<1>2. /\ p \in 0..Len(chain.epoch) /\ p < k
      /\ \A j \in KeyBlocks : j < k => j <= p
  BY <1>1, Before
<1> HIDE DEF p
<1>3. ~\E j \in KeyBlocks : p < j /\ j <= k - 1
  BY <1>1, <1>2
<1>4. CASE p = k - 1
  BY <1>1, <1>2, <1>4, Rotations DEF p
<1>5. CASE p < k - 1
  <2>1. EpochAt(p) = EpochAt(k - 1)
    BY <1>1, <1>2, <1>3, <1>5, Rotations
  <2>2. EpochAt(k) <= EpochAt(k - 1) + 1
    BY <1>1, <1>2, Rotations
  <2> QED
    BY <2>1, <2>2 DEF p
<1> QED
  BY <1>1, <1>2, <1>4, <1>5

\* The key blocks around the end of the bridge's epoch.
LEMMA Boundary ==
  ASSUME Base, NEW k \in KeyBlocks, EpochAt(k) > bridge
  PROVE  /\ \A j \in KeyBlocks : EpochAt(j) = bridge => j <= PrevKey(k)
         /\ LastOf(bridge) \in {0} \cup KeyBlocks
         /\ LastOf(bridge) <= PrevKey(k)
         /\ PrevKey(k) \in KeyBlocks /\ EpochAt(PrevKey(k)) = bridge
              => LastOf(bridge) = PrevKey(k)
<1> DEFINE T == {j \in KeyBlocks : EpochAt(j) = bridge} \cup {0}
<1>1. /\ Len(chain.epoch) \in Nat /\ chain \in Chains
      /\ KeyBlocks \subseteq 1..Len(chain.epoch) /\ bridge \in Nat
      /\ \A j \in KeyBlocks : EpochAt(j) \in Nat
  <2>1. chain \in Chains
    BY DEF Base
  <2>2. /\ Len(chain.epoch) \in Nat /\ KeyBlocks \subseteq 1..Len(chain.epoch)
        /\ \A n \in 0..Len(chain.epoch) : EpochAt(n) \in Nat
    BY <2>1, History
  <2>3. bridge \in Nat
    BY <2>2 DEF Base
  <2>4. \A j \in KeyBlocks : j \in 0..Len(chain.epoch)
    BY <2>2
  <2> QED
    BY <2>1, <2>2, <2>3, <2>4
<1>2. /\ PrevKey(k) \in 0..Len(chain.epoch)
      /\ \A j \in KeyBlocks : j < k => j <= PrevKey(k)
  BY <1>1, Before
<1>3. ASSUME NEW j \in KeyBlocks, EpochAt(j) = bridge PROVE j <= PrevKey(k)
  <2>1. CASE j < k
    BY <1>2, <2>1
  <2>2. CASE k <= j
    <3>1. EpochAt(k) <= EpochAt(j)
      BY <1>1, <2>2, Rotations
    <3> QED
      BY <1>1, <1>3, <3>1
  <2> QED
    BY <1>1, <2>1, <2>2
<1>4. T \subseteq 0..Len(chain.epoch) /\ T # {}
  <2>1. KeyBlocks \subseteq 0..Len(chain.epoch) /\ 0 \in 0..Len(chain.epoch)
    BY <1>1
  <2> QED
    BY <2>1
<1>5. Max(T) \in T /\ \A y \in T : y <= Max(T)
  <2> HIDE DEF T
  <2> QED
    BY <1>1, <1>4, Greatest
<1>6. LastOf(bridge) = Max(T)
  BY DEF LastOf
<1>7. \A y \in T : y <= PrevKey(k)
  BY <1>2, <1>3
<1> QED
  BY <1>1, <1>2, <1>3, <1>4, <1>5, <1>6, <1>7

-------------------------------------------------------------------------------
(* Key blocks a client cannot load. *)

LEMMA FirstKey ==
  ASSUME chain \in Chains, NEW k \in KeyBlocks
  PROVE  /\ Min(KeyBlocks) \in KeyBlocks /\ \A j \in KeyBlocks : Min(KeyBlocks) <= j
         /\ k = Min(KeyBlocks) <=> PrevKey(k) = 0
<1>1. /\ Len(chain.epoch) \in Nat /\ KeyBlocks \subseteq 1..Len(chain.epoch)
      /\ KeyBlocks # {} /\ KeyBlocks \subseteq Nat \ {0}
  BY History
<1>2. KeyBlocks \subseteq 0..Len(chain.epoch)
  BY <1>1
<1>3. Min(KeyBlocks) \in KeyBlocks /\ \A j \in KeyBlocks : Min(KeyBlocks) <= j
  BY <1>1, <1>2, Least
<1>4. k \in 1..Len(chain.epoch) + 1
  BY <1>1
<1>5. /\ PrevKey(k) \in {0} \cup KeyBlocks /\ PrevKey(k) < k
      /\ \A j \in KeyBlocks : j < k => j <= PrevKey(k)
  BY <1>4, Before
<1>6. ASSUME k = Min(KeyBlocks) PROVE PrevKey(k) = 0
  <2>1. ASSUME PrevKey(k) \in KeyBlocks PROVE FALSE
    <3>1. k <= PrevKey(k)
      BY <1>3, <1>6, <2>1
    <3>2. k \in Nat /\ PrevKey(k) \in Nat
      BY <1>1, <2>1
    <3>3. PrevKey(k) < k
      BY <1>5
    <3> QED
      BY <3>1, <3>2, <3>3
  <2> QED
    BY <1>5, <2>1
<1>7. ASSUME PrevKey(k) = 0 PROVE k = Min(KeyBlocks)
  <2>1. ~(Min(KeyBlocks) < k)
    <3>1. Min(KeyBlocks) < k => Min(KeyBlocks) <= 0
      BY <1>3, <1>5, <1>7
    <3>2. Min(KeyBlocks) \in Nat \ {0}
      BY <1>1, <1>3
    <3> QED
      BY <3>1, <3>2
  <2>2. Min(KeyBlocks) <= k
    BY <1>3
  <2>3. Min(KeyBlocks) \in Nat /\ k \in Nat
    BY <1>1, <1>3
  <2> QED
    BY <2>1, <2>2, <2>3
<1> QED
  BY <1>3, <1>6, <1>7

LEMMA Loadable == ASSUME chain \in Chains, NEW k \in {0} \cup KeyBlocks
                  PROVE  Readable(k) <=> k \notin Unreadable
<1>1. 0 \notin KeyBlocks
  BY History
<1>2. CASE k = 0
  BY <1>1, <1>2 DEF Readable, Unreadable
<1>3. CASE k \in KeyBlocks
  <2>1. k = Min(KeyBlocks) <=> PrevKey(k) = 0
    BY <1>3, FirstKey
  <2> QED
    BY <1>1, <1>3, <2>1 DEF Readable, Unreadable
<1> QED
  BY <1>2, <1>3

Hopeless == latest \in Unreadable \/ LastOf(bridge) \in Unreadable

\* Where a walk has to stop, it began, or the bridge's epoch ends.
LEMMA Stuck ==
  ASSUME Base, WalkInv, pc \in Walking, ~Readable(cursor)
  PROVE  Hopeless
<1>1. chain \in Chains /\ cursor \in {0} \cup KeyBlocks /\ cursor \in Unreadable
  BY Loadable DEF Base, WalkInv
<1>2. CASE result = 0
  BY <1>1, <1>2 DEF WalkInv, Hopeless
<1>3. CASE result # 0
  <2>1. result \in KeyBlocks /\ cursor = PrevKey(result) /\ EpochAt(result) > bridge
    BY <1>3 DEF Base, WalkInv
  <2>2. LastOf(bridge) \in {0} \cup KeyBlocks /\ LastOf(bridge) <= cursor
    BY <2>1, Boundary
  <2>3. KeyBlocks \subseteq Nat \ {0}
    BY <1>1, History
  <2>4. CASE LastOf(bridge) = 0
    BY <2>4 DEF Unreadable, Hopeless
  <2>5. CASE LastOf(bridge) \in KeyBlocks
    <3>1. cursor \in KeyBlocks
      <4>1. LastOf(bridge) \in Nat \ {0}
        BY <2>3, <2>5
      <4>2. cursor # 0
        BY <2>2, <4>1
      <4> QED
        BY <1>1, <4>2
    <3>2. cursor = Min(KeyBlocks)
      BY <1>1, <3>1, <2>3, FirstKey DEF Unreadable
    <3>3. cursor <= LastOf(bridge)
      BY <1>1, <2>5, <3>2, FirstKey
    <3>4. LastOf(bridge) = cursor
      <4>1. LastOf(bridge) \in Nat /\ cursor \in Nat
        BY <2>3, <2>5, <3>1
      <4>2. LastOf(bridge) <= cursor
        BY <2>2
      <4> QED
        BY <3>3, <4>1, <4>2
    <3> QED
      BY <1>1, <3>4 DEF Hopeless
  <2> QED
    BY <2>2, <2>4, <2>5
<1> QED
  BY <1>2, <1>3

-------------------------------------------------------------------------------
(* Steps. *)

\* The network does not change.
LEMMA Fixed ==
  ASSUME UNCHANGED network
  PROVE  /\ KeyBlocks' = KeyBlocks /\ Unreadable' = Unreadable
         /\ \A n : /\ EpochAt(n)' = EpochAt(n) /\ PrevKey(n)' = PrevKey(n)
                   /\ LastOf(n)' = LastOf(n) /\ NewerThan(n)' = NewerThan(n)
                   /\ Signatures(n)' = Signatures(n)
                   /\ (Readable(n) <=> Readable(n)')
<1>1. chain' = chain /\ kind' = kind
  BY DEF network
<1>2. KeyBlocks' = KeyBlocks
  BY <1>1 DEF KeyBlocks
<1>3. \A n : EpochAt(n)' = EpochAt(n)
  BY <1>1 DEF EpochAt, EpochOf
<1>4. \A n : PrevKey(n)' = PrevKey(n)
  BY <1>2 DEF PrevKey
<1>5. \A n : LastOf(n)' = LastOf(n)
  BY <1>2, <1>3 DEF LastOf
<1>6. \A n : NewerThan(n)' = NewerThan(n)
  BY <1>2, <1>3 DEF NewerThan
<1>7. \A n : Signatures(n)' = Signatures(n)
  BY <1>3 DEF Signatures
<1>8. \A n : Readable(n) <=> Readable(n)'
  BY <1>1, <1>2, <1>4 DEF Readable
<1>9. Unreadable' = Unreadable
  BY <1>1, <1>2 DEF Unreadable
<1> QED
  BY <1>2, <1>3, <1>4, <1>5, <1>6, <1>7, <1>8, <1>9

\* A request is answered and another is made, or the walk has to stop.
LEMMA GotoStep ==
  ASSUME IInv, NEW next, Goto(next), pc \in Walking \/ next = "error",
         next \in {"lookup", "block", "prev", "proof", "key_block", "error"},
         next \in OfTon => kind = "ton",
         next \in {"block", "prev", "proof"} => cursor # 0,
         next = "proof" => Readable(cursor),
         next = "error" => Hopeless
  PROVE  IInv'
<1>1. /\ pc' = next
      /\ UNCHANGED <<network, head, bridge, latest, cursor, result, cache, sigs, missed>>
  BY DEF Goto
<1>2. UNCHANGED network /\ chain' = chain /\ kind' = kind
  BY <1>1 DEF network
<1>3. Base'
  <2>1. (\E n \in 0..Len(chain.epoch) : bridge = EpochAt(n))'
    BY <1>1, <1>2, Fixed DEF IInv, Base
  <2> QED
    BY <1>1, <1>2, <2>1, Fixed DEF IInv, Base
<1>4. CacheInv'
  BY <1>1, <1>2, Fixed DEF IInv, CacheInv
<1>5. WalkInv'
  <2>1. next # "error" => pc \in Walking
    OBVIOUS
  <2> QED
    BY <1>1, <1>2, <2>1, Fixed DEF IInv, WalkInv, Walking
<1>6. FoundInv' /\ NextForBridge'
  BY <1>1 DEF FoundInv, NextForBridge
<1>7. WalkFailsByNodes'
  BY <1>1, <1>2, Fixed DEF WalkFailsByNodes, Hopeless
<1> QED
  BY <1>3, <1>4, <1>5, <1>6, <1>7 DEF IInv

\* A turn of the loop, with the key block in hand.
LEMMA ExamineStep ==
  ASSUME IInv, pc \in Walking, Examine, Readable(cursor),
         DOMAIN cache' = DOMAIN cache \cup {cursor},
         \A k \in DOMAIN cache' : cache'[k] \in Signatures(k),
         UNCHANGED network
  PROVE  IInv'
<1>1. /\ chain \in Chains /\ chain' = chain /\ kind' = kind
      /\ UNCHANGED <<head, bridge, latest, sigs, missed>>
  BY DEF Examine, network, IInv, Base
<1>2. cursor \in KeyBlocks /\ \A k \in DOMAIN cache' : Readable(k)
  BY DEF Readable, CacheInv, IInv
<1>3. CacheInv'
  BY <1>2, Fixed DEF CacheInv
<1>4. PICK n \in 0..Len(chain.epoch) : bridge = EpochAt(n)
  BY DEF IInv, Base
<1>5. /\ Len(chain.epoch) \in Nat /\ cursor \in 0..Len(chain.epoch)
      /\ cursor \in 1..Len(chain.epoch) + 1 /\ cursor # 0
      /\ EpochAt(cursor) \in Nat /\ bridge \in Nat
      /\ Since(cursor) \in Nat /\ Since(n) \in Nat
  BY <1>1, <1>2, <1>4, History
<1>6. /\ Since(n) = Vset[bridge].since
      /\ Since(cursor) > Since(n) <=> EpochAt(cursor) > bridge
      /\ Since(cursor) < Since(n) <=> EpochAt(cursor) < bridge
  BY <1>1, <1>4, <1>5, Rotations DEF Since
<1>7. result # 0 => /\ cursor = PrevKey(result) /\ EpochAt(result) > bridge
                    /\ result \in KeyBlocks /\ result \in DOMAIN cache
  BY DEF IInv, Base, WalkInv
<1>8. (\E m \in 0..Len(chain.epoch) : bridge = EpochAt(m))'
  BY <1>1, <1>4, Fixed
<1>9. CASE Since(cursor) > Since(n)
  <2>1. pc' = "walk" /\ result' = cursor /\ cursor' = PrevKey(cursor)
    BY <1>5, <1>6, <1>9 DEF Examine, Compare
  <2>2. /\ PrevKey(cursor) \in {0} \cup KeyBlocks
        /\ PrevKey(cursor) \in 0..Len(chain.epoch)
    BY <1>1, <1>5, Before
  <2>3. Base'
    BY <1>1, <1>2, <1>8, <2>1, <2>2, Fixed DEF IInv, Base, OfTon
  <2>4. WalkInv'
    BY <1>2, <1>5, <1>6, <1>9, <1>1, <2>1, <2>2, Fixed DEF WalkInv, Walking
  <2> QED
    BY <1>3, <2>1, <2>3, <2>4 DEF IInv, FoundInv, NextForBridge, WalkFailsByNodes
<1>10. CASE Since(cursor) < Since(n)
  <2>1. pc' = "none" /\ result' = 0 /\ cursor' = cursor
    BY <1>5, <1>6, <1>10 DEF Examine, Compare
  <2>2. Base'
    BY <1>1, <1>8, <2>1 DEF IInv, Base, OfTon
  <2> QED
    BY <1>3, <2>1, <2>2 DEF IInv, WalkInv, Walking, FoundInv, NextForBridge, WalkFailsByNodes
<1>11. CASE Since(cursor) = Since(n)
  <2>1. /\ pc' = IF result = 0 THEN "none" ELSE "found"
        /\ result' = result /\ cursor' = cursor
    BY <1>5, <1>6, <1>11 DEF Examine, Compare
  <2>2. Base'
    BY <1>1, <1>8, <2>1, Fixed DEF IInv, Base, OfTon
  <2>3. EpochAt(cursor) = bridge
    BY <1>5, <1>6, <1>11
  <2>4. FoundInv'
    BY <1>1, <1>7, <2>1, <2>3, Fixed DEF FoundInv
  <2> QED
    BY <1>3, <2>1, <2>2, <2>4 DEF IInv, WalkInv, Walking, NextForBridge, WalkFailsByNodes
<1> QED
  BY <1>5, <1>9, <1>10, <1>11

\* The next key block to send is made of what FoundInv says.
LEMMA PrepareStep == ASSUME IInv, Prepare PROVE IInv'
<1> DEFINE vset == VsetOf(result)
           prepared == Prepared(cache[result], vset.list)
<1>1. /\ pc = "found" /\ chain \in Chains /\ UNCHANGED network
      /\ UNCHANGED <<head, bridge, latest, cursor, result, cache, missed>>
  BY DEF Prepare, IInv, Base
<1>2. /\ result \in KeyBlocks /\ cursor \in KeyBlocks /\ Readable(cursor)
      /\ cursor = PrevKey(result) /\ EpochAt(cursor) = bridge
      /\ EpochAt(result) > bridge
      /\ cache[result] \in Signatures(result)
  BY <1>1 DEF IInv, FoundInv, CacheInv, Readable
<1>3. /\ bridge \in Nat /\ EpochAt(result) \in Nat /\ result \in 0..Len(chain.epoch)
      /\ KeyBlocks \subseteq Nat \ {0}
  BY <1>1, <1>2, History
<1>4. EpochAt(result - 1) = bridge /\ EpochAt(result) = bridge + 1
  BY <1>1, <1>2, <1>3, NextEpoch
<1>5. vset.there /\ vset.list = Vset[bridge].list
  <2>1. EpochAt(result) > 0 /\ EpochAt(result) - 1 = bridge
    BY <1>3, <1>4
  <2> QED
    BY <2>1 DEF VsetOf, HasPrevVset, PrevVset
<1>6. /\ cache[result] \in Quorums[bridge] /\ cache[result] # {}
      /\ cache[result] \subseteq {vset.list[i] : i \in DOMAIN vset.list}
  <2>1. bridge \in {EpochOf(chain, n) : n \in 0..Len(chain.epoch)}
    BY DEF IInv, Base, EpochAt
  <2>2. \A e \in {EpochOf(chain, n) : n \in 0..Len(chain.epoch)} : \A S \in Quorums[e] :
          S # {} /\ S \subseteq {Vset[e].list[i] : i \in DOMAIN Vset[e].list}
    BY <1>1, KeyBlockFetchAssumption
  <2>3. cache[result] \in Quorums[bridge]
    BY <1>2, <1>4 DEF Signatures
  <2> QED
    BY <1>5, <2>1, <2>2, <2>3
<1>7. prepared # {} /\ \A v \in cache[result] : \E s \in prepared : s.by = v
  <2>1. \A v \in cache[result] : \E s \in prepared : s.by = v
    <3> SUFFICES ASSUME NEW v \in cache[result] PROVE \E s \in prepared : s.by = v
      OBVIOUS
    <3>1. PICK i \in DOMAIN vset.list : vset.list[i] = v
      BY <1>6
    <3>2. [index |-> i, by |-> v] \in prepared
      BY <3>1 DEF Prepared
    <3> QED
      BY <3>2
  <2> QED
    BY <1>6, <2>1
<1>8. pc' = "ready" /\ sigs' = prepared
  BY <1>5, <1>7 DEF Prepare
<1>9. /\ {s.by : s \in prepared} = cache[result]
      /\ \A s \in prepared : vset.list[s.index] = s.by
  BY <1>7 DEF Prepared
<1>10. result = Min(NewerThan(bridge))
  <2>1. \A j \in NewerThan(bridge) : result <= j
    <3> SUFFICES ASSUME NEW j \in KeyBlocks, EpochAt(j) > bridge PROVE result <= j
      BY DEF NewerThan
    <3>1. CASE j < result
      <4>1. result \in 1..Len(chain.epoch) + 1
        BY <1>1, <1>2, History
      <4>2. j <= cursor
        BY <1>1, <1>2, <3>1, <4>1, Before
      <4>3. /\ j \in 0..Len(chain.epoch) /\ cursor \in 0..Len(chain.epoch)
            /\ EpochAt(j) \in Nat
        BY <1>1, <1>2, History
      <4>4. EpochAt(j) <= bridge
        BY <1>1, <1>2, <4>2, <4>3, Rotations
      <4> QED
        BY <1>3, <4>3, <4>4
    <3>2. j \in Nat /\ result \in Nat
      BY <1>2, <1>3
    <3> QED
      BY <3>1, <3>2
  <2>2. result \in NewerThan(bridge) /\ NewerThan(bridge) \subseteq Nat
    BY <1>2, <1>3 DEF NewerThan
  <2>3. \A x \in NewerThan(bridge) :
          (\A y \in NewerThan(bridge) : x <= y) => x = result
    BY <2>1, <2>2
  <2> QED
    BY <2>1, <2>2, <2>3 DEF Min
<1>11. LastOf(bridge) \notin Unreadable
  BY <1>1, <1>2, Boundary, Loadable DEF IInv
<1> HIDE DEF vset, prepared
<1>12. Base'
  <2>1. (\E n \in 0..Len(chain.epoch) : bridge = EpochAt(n))'
    BY <1>1, Fixed DEF IInv, Base, network
  <2> QED
    BY <1>1, <1>8, <2>1, Fixed DEF IInv, Base, OfTon, network
<1>13. CacheInv' /\ WalkInv' /\ FoundInv'
  BY <1>1, <1>8, Fixed DEF IInv, CacheInv, WalkInv, Walking, FoundInv
<1>14. NextForBridge'
  BY <1>1, <1>4, <1>5, <1>6, <1>8, <1>9, <1>10, Fixed DEF NextForBridge
<1>15. WalkFailsByNodes'
  BY <1>1, <1>8, <1>11, Fixed DEF WalkFailsByNodes
<1> QED
  BY <1>12, <1>13, <1>14, <1>15 DEF IInv

LEMMA BeginStep == ASSUME IInv, NEW n \in 0..head, Begin(EpochAt(n)) PROVE IInv'
<1>1. /\ UNCHANGED <<network, head, cache>> /\ pc' = "last" /\ bridge' = EpochAt(n)
      /\ latest' = 0 /\ cursor' = 0 /\ result' = 0
  BY DEF Begin
<1>2. Len(chain.epoch) \in Nat /\ n \in 0..Len(chain.epoch)
  BY History DEF IInv, Base
<1>3. Base'
  <2>1. (\E m \in 0..Len(chain.epoch) : bridge = EpochAt(m))'
    BY <1>1, <1>2, Fixed DEF network
  <2> QED
    BY <1>1, <1>2, <2>1, Fixed DEF IInv, Base, OfTon, network
<1>4. CacheInv'
  BY <1>1, Fixed DEF IInv, CacheInv
<1> QED
  BY <1>1, <1>3, <1>4 DEF IInv, WalkInv, Walking, FoundInv, NextForBridge, WalkFailsByNodes

LEMMA StartStep ==
  ASSUME IInv, NEW n \in {0} \cup KeyBlocks, StartAt(n), pc \in {"last", "last_block"}
  PROVE  IInv'
<1>1. /\ UNCHANGED <<network, head, bridge, result, cache, sigs, missed>>
      /\ pc' = "walk" /\ latest' = n /\ cursor' = n
  BY DEF StartAt
<1>2. n \in 0..Len(chain.epoch) /\ result = 0
  <2>1. chain \in Chains /\ result = 0
    BY DEF IInv, Base, WalkInv
  <2>2. Len(chain.epoch) \in Nat /\ KeyBlocks \subseteq 1..Len(chain.epoch)
    BY <2>1, History
  <2> QED
    BY <2>1, <2>2
<1>3. Base'
  <2>1. (\E m \in 0..Len(chain.epoch) : bridge = EpochAt(m))'
    BY <1>1, Fixed DEF IInv, Base, network
  <2> QED
    BY <1>1, <1>2, <2>1, Fixed DEF IInv, Base, OfTon, network
<1>4. CacheInv'
  BY <1>1, Fixed DEF IInv, CacheInv
<1>5. WalkInv'
  BY <1>1, <1>2, Fixed DEF WalkInv, Walking
<1> QED
  BY <1>1, <1>3, <1>4, <1>5 DEF IInv, FoundInv, NextForBridge, WalkFailsByNodes

LEMMA QuietStep ==
  ASSUME IInv, NewBlock \/ NodeFails \/ UNCHANGED vars
  PROVE  IInv'
<1>1. /\ UNCHANGED <<network, bridge, latest, cursor, result, cache, sigs>>
      /\ \/ pc' = pc /\ missed' = missed
         \/ pc' = "error" /\ missed'
  BY DEF NewBlock, NodeFails, vars, network
<1>2. head' \in 1..Len(chain.epoch)
  <2>1. Len(chain.epoch) \in Nat /\ head \in 1..Len(chain.epoch)
    BY History DEF IInv, Base
  <2>2. \/ head' = head
        \/ head < Len(chain.epoch) /\ head' = head + 1
    BY DEF NewBlock, NodeFails, vars
  <2> QED
    BY <2>1, <2>2
<1>3. Base'
  <2>1. (\E m \in 0..Len(chain.epoch) : bridge = EpochAt(m))'
    BY <1>1, Fixed DEF IInv, Base, network
  <2> QED
    BY <1>1, <1>2, <2>1, Fixed DEF IInv, Base, OfTon, network
<1>4. CacheInv'
  BY <1>1, Fixed DEF IInv, CacheInv
<1>5. WalkInv'
  BY <1>1, Fixed DEF IInv, WalkInv, Walking
<1>6. FoundInv'
  BY <1>1, Fixed DEF IInv, FoundInv
<1>7. NextForBridge'
  BY <1>1, Fixed DEF IInv, NextForBridge
<1>8. WalkFailsByNodes'
  BY <1>1, Fixed DEF IInv, WalkFailsByNodes
<1> QED
  BY <1>3, <1>4, <1>5, <1>6, <1>7, <1>8 DEF IInv

LEMMA SentStep == ASSUME IInv, Sent PROVE IInv'
<1>1. /\ UNCHANGED <<network, head, bridge, latest, cursor, result>> /\ pc' = "idle"
      /\ cache' = [k \in {j \in DOMAIN cache : j >= PrevKey(result)} |-> cache[k]]
  BY DEF Sent
<1>2. Base'
  <2>1. (\E m \in 0..Len(chain.epoch) : bridge = EpochAt(m))'
    BY <1>1, Fixed DEF IInv, Base, network
  <2> QED
    BY <1>1, <2>1, Fixed DEF IInv, Base, OfTon, network
<1>3. CacheInv'
  <2>1. \A k \in DOMAIN cache' : k \in DOMAIN cache /\ cache'[k] = cache[k]
    BY <1>1
  <2> QED
    BY <1>1, <2>1, Fixed DEF IInv, CacheInv
<1> QED
  BY <1>1, <1>2, <1>3 DEF IInv, WalkInv, Walking, FoundInv, NextForBridge, WalkFailsByNodes

LEMMA RememberStep ==
  ASSUME IInv, pc \in Walking, Readable(cursor),
         NEW S \in Signatures(cursor), Remember(S), UNCHANGED network
  PROVE  IInv'
<1>1. /\ DOMAIN cache' = DOMAIN cache \cup {cursor} /\ Examine
      /\ \A k \in DOMAIN cache' : cache'[k] = IF k = cursor THEN S ELSE cache[k]
  BY DEF Remember
<1>2. \A k \in DOMAIN cache' : cache'[k] \in Signatures(k)
  BY <1>1 DEF IInv, CacheInv
<1> QED
  BY <1>1, <1>2, ExamineStep

LEMMA LastStep ==
  ASSUME IInv, NEW n \in 1..head, TychoLatest(n) \/ LegacyLatest(n) \/ AnswerLast(n)
  PROVE  IInv'
<1>1. /\ chain \in Chains /\ Len(chain.epoch) \in Nat
      /\ n \in 0..Len(chain.epoch) /\ n + 1 \in 1..Len(chain.epoch) + 1
  <2>1. chain \in Chains /\ head \in 1..Len(chain.epoch)
    BY DEF IInv, Base
  <2>2. Len(chain.epoch) \in Nat
    BY <2>1, History
  <2>3. n \in 1..Len(chain.epoch)
    BY <2>1, <2>2
  <2> QED
    BY <2>1, <2>2, <2>3
<1>2. LatestKey(n) \in {0} \cup KeyBlocks
  BY <1>1, Before DEF LatestKey
<1>3. CASE TychoLatest(n)
  BY <1>2, <1>3, StartStep DEF TychoLatest
<1>4. CASE LegacyLatest(n)
  <2>1. CASE LatestKey(n) = 0
    <3>1. pc = "last" /\ Goto("error")
      BY <1>4, <2>1 DEF LegacyLatest
    <3>2. Hopeless
      BY <3>1 DEF IInv, WalkInv, Hopeless, Unreadable
    <3> QED
      BY <3>1, <3>2, GotoStep DEF OfTon
  <2>2. CASE LatestKey(n) # 0
    BY <1>2, <1>4, <2>2, StartStep DEF LegacyLatest
  <2> QED
    BY <2>1, <2>2
<1>5. CASE AnswerLast(n)
  <2>1. /\ UNCHANGED <<network, head, bridge, latest, result, cache, sigs, missed>>
        /\ pc = "last" /\ kind = "ton" /\ pc' = "last_block" /\ cursor' = n
    BY <1>5 DEF AnswerLast
  <2>2. Base'
    <3>1. (\E m \in 0..Len(chain.epoch) : bridge = EpochAt(m))'
      BY <2>1, Fixed DEF IInv, Base, network
    <3> QED
      BY <1>1, <2>1, <3>1, Fixed DEF IInv, Base, network
  <2>3. CacheInv'
    BY <2>1, Fixed DEF IInv, CacheInv
  <2>4. WalkInv'
    BY <2>1 DEF IInv, WalkInv, Walking
  <2> QED
    BY <2>1, <2>2, <2>3, <2>4 DEF IInv, FoundInv, NextForBridge, WalkFailsByNodes
<1> QED
  BY <1>3, <1>4, <1>5

LEMMA RequestStep ==
  ASSUME IInv,
         \/ AnswerLastBlock \/ GetKeyBlock \/ AnswerLookup \/ AnswerBlock \/ AnswerPrev
         \/ AnswerProof \/ TychoKeyBlock \/ LegacyKeyBlock
  PROVE  IInv'
<1>1. Base /\ WalkInv /\ chain \in Chains /\ 0 \notin KeyBlocks
  BY History DEF IInv, Base
<1>2. CASE AnswerLastBlock
  <2>1. Len(chain.epoch) \in Nat /\ cursor \in 0..Len(chain.epoch)
    BY <1>1, History DEF Base
  <2>2. LatestOf(cursor) \in {0} \cup KeyBlocks
    <3>1. CASE cursor = 0
      <4>1. \A k \in KeyBlocks : ~(k < 0)
        BY <1>1, History
      <4>2. {k \in KeyBlocks : k < 0} \cup {0} = {0}
        BY <4>1
      <4>3. Max({0}) = 0
        BY DEF Max
      <4> QED
        BY <3>1, <4>2, <4>3 DEF LatestOf, PrevKey
    <3>2. CASE cursor # 0
      <4>1. cursor \in 1..Len(chain.epoch) + 1
        BY <2>1, <3>2
      <4> QED
        BY <1>1, <4>1, Before DEF LatestOf
    <3> QED
      BY <3>1, <3>2
  <2> QED
    BY <1>2, <2>2, StartStep DEF AnswerLastBlock
<1>3. CASE GetKeyBlock
  <2>1. CASE cursor \in DOMAIN cache
    <3>1. Examine /\ cache' = cache /\ pc \in Walking
      BY <1>3, <2>1 DEF GetKeyBlock, Walking
    <3>2. Readable(cursor) /\ \A k \in DOMAIN cache : cache[k] \in Signatures(k)
      BY <2>1 DEF IInv, CacheInv
    <3>3. DOMAIN cache' = DOMAIN cache \cup {cursor}
      BY <2>1, <3>1
    <3>4. UNCHANGED network
      BY <3>1 DEF Examine
    <3> QED
      BY <3>1, <3>2, <3>3, <3>4, ExamineStep
  <2>2. CASE cursor \notin DOMAIN cache
    <3>1. pc \in Walking
      BY <1>3 DEF GetKeyBlock, Walking
    <3> QED
      BY <1>3, <2>2, <3>1, GotoStep DEF GetKeyBlock, OfTon
  <2> QED
    BY <2>1, <2>2
<1>4. CASE AnswerLookup
  <2>1. pc \in Walking /\ kind = "ton"
    BY <1>1, <1>4 DEF AnswerLookup, Walking, Base, OfTon
  <2>2. cursor = 0 => Hopeless
    BY <1>1, <2>1, Stuck DEF Readable
  <2> QED
    BY <1>4, <2>1, <2>2, GotoStep DEF AnswerLookup, Looked, OfTon
<1>5. CASE AnswerBlock
  <2>1. pc \in Walking /\ kind = "ton" /\ cursor \in KeyBlocks /\ cursor # 0
    BY <1>1, <1>5 DEF AnswerBlock, Walking, Base, OfTon, WalkInv
  <2> QED
    BY <1>5, <2>1, GotoStep DEF AnswerBlock, OfTon
<1>6. CASE AnswerPrev
  <2>1. pc \in Walking /\ kind = "ton" /\ cursor \in KeyBlocks /\ cursor # 0
    BY <1>1, <1>6 DEF AnswerPrev, Walking, Base, OfTon, WalkInv
  <2>2. PrevKey(cursor) = 0 => Hopeless
    BY <1>1, <2>1, Stuck DEF Readable
  <2>3. PrevKey(cursor) # 0 => Readable(cursor)
    BY <2>1 DEF Readable
  <2> QED
    BY <1>6, <2>1, <2>2, <2>3, GotoStep DEF AnswerPrev, Looked, OfTon
<1>7. CASE AnswerProof
  <2>1. pc \in Walking /\ Readable(cursor)
    BY <1>1, <1>7 DEF AnswerProof, Walking, WalkInv
  <2>2. PICK S \in Signatures(cursor) : Remember(S)
    BY <1>7 DEF AnswerProof
  <2>3. UNCHANGED network
    BY <2>2 DEF Remember, Examine
  <2> QED
    BY <2>1, <2>2, <2>3, RememberStep
<1>8. CASE TychoKeyBlock \/ LegacyKeyBlock
  <2>1. pc \in Walking /\ kind # "ton"
    BY <1>8 DEF TychoKeyBlock, LegacyKeyBlock, Walking
  <2>2. CASE cursor \in KeyBlocks
    <3>1. Readable(cursor)
      BY <2>1, <2>2 DEF Readable
    <3>2. PICK S \in Signatures(cursor) : Remember(S)
      BY <1>8, <2>2 DEF TychoKeyBlock, LegacyKeyBlock
    <3>3. UNCHANGED network
      BY <3>2 DEF Remember, Examine
    <3> QED
      BY <2>1, <3>1, <3>2, <3>3, RememberStep
  <2>3. CASE cursor \notin KeyBlocks
    <3>1. Hopeless
      BY <1>1, <2>1, <2>3, Stuck DEF Readable
    <3>2. Goto("error")
      BY <1>8, <2>3 DEF TychoKeyBlock, LegacyKeyBlock
    <3> QED
      BY <3>1, <3>2, GotoStep DEF OfTon
  <2> QED
    BY <2>2, <2>3
<1> QED
  BY <1>2, <1>3, <1>4, <1>5, <1>6, <1>7, <1>8

-------------------------------------------------------------------------------
LEMMA Initially == Init => IInv
<1> SUFFICES ASSUME Init PROVE IInv
  OBVIOUS
<1>1. chain \in Chains
  BY DEF Init
<1>2. Len(chain.epoch) \in Nat \ {0}
  BY <1>1, History
<1>3. Base
  <2>1. bridge = EpochAt(0) /\ 0 \in 0..Len(chain.epoch)
    BY <1>2 DEF Init, EpochAt, EpochOf
  <2> QED
    BY <1>1, <1>2, <2>1 DEF Init, Base, OfTon
<1>4. CacheInv
  BY DEF Init, CacheInv
<1> QED
  BY <1>3, <1>4 DEF Init, IInv, WalkInv, Walking, FoundInv, NextForBridge, WalkFailsByNodes

LEMMA Inductive == Spec => []IInv
<1>1. ASSUME IInv, [Next]_vars PROVE IInv'
  <2>1. CASE NewBlock \/ NodeFails \/ UNCHANGED vars
    BY <1>1, <2>1, QuietStep
  <2>2. CASE \E n \in 0..head : Begin(EpochAt(n))
    BY <1>1, <2>2, BeginStep
  <2>3. CASE \E n \in 1..head : TychoLatest(n) \/ LegacyLatest(n) \/ AnswerLast(n)
    BY <1>1, <2>3, LastStep
  <2>4. CASE \/ AnswerLastBlock \/ GetKeyBlock \/ AnswerLookup \/ AnswerBlock \/ AnswerPrev
             \/ AnswerProof \/ TychoKeyBlock \/ LegacyKeyBlock
    BY <1>1, <2>4, RequestStep
  <2>5. CASE Prepare
    BY <1>1, <2>5, PrepareStep
  <2>6. CASE Sent
    BY <1>1, <2>6, SentStep
  <2> QED
    BY <1>1, <2>1, <2>2, <2>3, <2>4, <2>5, <2>6 DEF Next
<1> QED
  BY <1>1, Initially, PTL DEF Spec

\* Whatever the nodes answer and whatever is remembered, the key block made ready
\* is the first of the epoch after the bridge's, signed by the bridge's own
\* validators under their own indices (find_next_key_block, prepare_signatures).
THEOREM NextForBridgeHolds == Spec => []NextForBridge
<1>1. IInv => NextForBridge
  BY DEF IInv
<1> QED
  BY <1>1, Inductive, PTL

\* A walk that fails has met a failing node, or the key block that this client
\* cannot load in any chain (the zerostate; TonClient's first key block).
THEOREM WalkFailsByNodesHolds == Spec => []WalkFailsByNodes
<1>1. IInv => WalkFailsByNodes
  BY DEF IInv
<1> QED
  BY <1>1, Inductive, PTL
===============================================================================
