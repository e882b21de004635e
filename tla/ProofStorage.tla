----------------------------- MODULE ProofStorage -----------------------------
(* proof-api-l2: the light node stores what proofs are made of, block by       *)
(* block, drops what has outlived `min_proof_ttl`, and answers proof requests  *)
(* meanwhile (LightSubscriber and ProofStorage).                               *)
(*                                                                             *)
(* External: the chain and the block strider.  Shards split and merge: a       *)
(* masterchain block m lists the last block of each shard there is then, its   *)
(* leaves, and commits the blocks that are new since the one before, all of    *)
(* shards it lists.  The strider has these and m stored, in any order, before  *)
(* m is handled, and commits m only afterwards, so a restart goes over an      *)
(* uncommitted one again.  A block holds one transaction, known by its block,  *)
(* and the transactions a masterchain block commits come before the later ones *)
(* in logical time.  A validator set is named by the key block that brought it *)
(* in, 0 for the zerostate's.  One RocksDB write batch is one step.            *)
EXTENDS CellPacking, FiniteSets

CONSTANTS
  MaxMc,        \* masterchain blocks 1..MaxMc
  Shards,       \* every shard that ever is
  ScBlocks,     \* shard blocks
  Ref,          \* ref_by_mc_seqno: the masterchain block that commits each
  Leaves,       \* the shards each masterchain block lists
  Top,          \* and the last block of each of them
  McTime,       \* gen_utime of masterchain blocks
  ScTime,       \* gen_utime of shard blocks
  KeyBlocks,    \* masterchain blocks with a new validator set
  TimingsStep,  \* STORE_TIMINGS_STEP
  MinProofTtl,  \* min_proof_ttl_sec
  MaxTime,      \* bound on the clock
  MaxCrashes    \* bound on restarts

McSeqnos == 1..MaxMc
Sc(s, n) == [chain |-> s, seqno |-> n]

ASSUME ProofStorageAssumption ==
  /\ MaxMc \in Nat \ {0}
  /\ "mc" \notin Shards
  /\ ScBlocks \subseteq [chain : Shards, seqno : Nat]
  /\ Ref \in [ScBlocks -> McSeqnos]
  /\ Leaves \in [McSeqnos -> SUBSET Shards]
  /\ Top \in [McSeqnos -> [Shards -> Nat]]
  /\ McTime \in [McSeqnos -> Nat \ {0}]   \* RemoveUntil reaches a time of 0
  /\ ScTime \in [ScBlocks -> Nat]
  /\ \A m, n \in McSeqnos : m <= n => McTime[m] <= McTime[n]
  /\ \A b \in ScBlocks : ScTime[b] <= McTime[Ref[b]]
  /\ KeyBlocks \subseteq McSeqnos
  /\ TimingsStep \in Nat \ {0}
  /\ MinProofTtl \in Nat
  /\ MaxTime \in Nat
  /\ MaxCrashes \in Nat

\* A block is of a shard listed by the masterchain block that commits it, which
\* also commits what follows it there; and a shard's last block tells which of
\* its blocks have been committed, also when a merge has brought it back.
ASSUME ShardAssumption ==
  /\ \A b \in ScBlocks :
       /\ b.chain \in Leaves[Ref[b]]
       /\ \A n \in b.seqno..Top[Ref[b]][b.chain] :
            /\ Sc(b.chain, n) \in ScBlocks
            /\ Ref[Sc(b.chain, n)] = Ref[b]
            /\ ScTime[b] <= ScTime[Sc(b.chain, n)]
  /\ \A b \in ScBlocks, m \in McSeqnos :
       b.chain \in Leaves[m] => (b.seqno <= Top[m][b.chain] <=> Ref[b] <= m)

VARIABLES
  now,          \* now_sec()
  db,           \* the column families
  snapshot,     \* what proofs are built from
  vset,         \* current_vset
  mc,           \* masterchain block being worked on
  todo,         \* its blocks not stored yet
  handled,      \* it has been handled, but not committed
  crashes,      \* restarts so far
  request       \* a proof request and its answer

vars == <<now, db, snapshot, vset, mc, todo, handled, crashes, request>>

-------------------------------------------------------------------------------
Mc(m) == [chain |-> "mc", seqno |-> m]
Blocks == {Mc(m) : m \in McSeqnos} \cup ScBlocks

\* ref_by_mc_seqno
RefBy(b) == IF b.chain = "mc" THEN b.seqno ELSE Ref[b]

GenUtime(b) == IF b.chain = "mc" THEN McTime[b.seqno] ELSE ScTime[b]

\* The blocks that m commits, and m.
Committed(m) == {b \in Blocks : RefBy(b) = m}

\* Logical time: the shards' transactions, then the masterchain's own.
Lt(b) == 2 * RefBy(b) - (IF b.chain = "mc" THEN 0 ELSE 1)
EndLt(m) == 2 * m

\* The validator set that signs m, and the one in force after it.
Latest(keys) == IF keys = {} THEN 0 ELSE CHOOSE k \in keys : \A j \in keys : j <= k
Signer(m) == Latest({k \in KeyBlocks : k < m})

\* transactions, pruned and pivot blocks (always written and deleted together),
\* signatures, timings.
Db == [txs : SUBSET Blocks, blocks : SUBSET Blocks,
       signatures : SUBSET [mc : McSeqnos, vset : 0..MaxMc],
       timings : SUBSET [utime : Nat, mc : McSeqnos]]

Requests == [pc : {"none", "indexed", "proof", "not_found", "error"},
             tx : Blocks, due : BOOLEAN]

TypeOK ==
  /\ now \in 0..MaxTime
  /\ db \in Db
  /\ snapshot \in Db
  /\ vset \in 0..MaxMc
  /\ mc \in 1..MaxMc + 1
  /\ todo \subseteq Blocks
  /\ handled \in BOOLEAN
  /\ crashes \in 0..MaxCrashes
  /\ request \in Requests

NoRequest == [pc |-> "none", tx |-> Mc(1), due |-> FALSE]

Init ==
  /\ now = 0
  /\ db = [txs |-> {}, blocks |-> {}, signatures |-> {}, timings |-> {}]
  /\ snapshot = db
  /\ vset = 0
  /\ mc = 1
  /\ todo = Committed(1)
  /\ handled = FALSE
  /\ crashes = 0
  /\ request = NoRequest

-------------------------------------------------------------------------------
(* store_block. *)

\* `now.saturating_sub(gen_utime) > min_proof_ttl`
Outdated(b) == now - GenUtime(b) > MinProofTtl

\* Mutation: the time to live is not taken off.
RemoveUntilNow == now

RemoveUntil == IF now > MinProofTtl THEN now - MinProofTtl ELSE 0

\* find_outdated_bound: the last stored timing not after remove_until, if its
\* pivot block is still there; 0 for None.
BoundOf(timings) ==
  LET old == {t \in timings : t.utime <= RemoveUntil}
      m == Latest({t.mc : t \in old})
  IN  IF old # {} /\ Mc(m) \in db.blocks THEN m ELSE 0

\* Mutation: one shard block too many.
RemovedOneMore(m) ==
  {b \in Blocks : IF b.chain = "mc" THEN b.seqno <= m
                  ELSE b.chain \in Leaves[m] /\ b.seqno <= Top[m][b.chain] + 1}

\* Mutation: the shards are left out.
RemovedMcOnly(m) == {b \in Blocks : b.chain = "mc" /\ b.seqno <= m}

\* iter_block_keys: up to the masterchain block, and in each shard it lists up
\* to the last block.
Removed(m) ==
  {b \in Blocks : IF b.chain = "mc" THEN b.seqno <= m
                  ELSE b.chain \in Leaves[m] /\ b.seqno <= Top[m][b.chain]}

\* tx_key
RemovedTxs(m) == {b \in Blocks : Lt(b) < EndLt(m) + 1}

\* Mutation: the timing leads to the masterchain block of the timing before.
TimingBefore(b) == [utime |-> GenUtime(b), mc |-> b.seqno - TimingsStep]

Timing(b) == [utime |-> GenUtime(b), mc |-> b.seqno]
HasTiming(b) == b.chain = "mc" /\ b.seqno % TimingsStep = 0

\* A later timing of the same second takes the place of the earlier one.
PutTiming(timings, t) == {o \in timings : o.utime # t.utime} \cup {t}

\* Mutation: the last second removed keeps its timing.
KeptTimingsOneMore(timings) == {t \in timings : t.utime >= RemoveUntil}

\* timings_key
KeptTimings(timings) == {t \in timings : t.utime > RemoveUntil}

\* The write batch: puts first, then the ranges to be deleted.
Written(b) ==
  LET bound == IF HasTiming(b) THEN BoundOf(db.timings) ELSE 0
      timings == IF HasTiming(b) THEN PutTiming(db.timings, Timing(b)) ELSE db.timings
      signed == [mc |-> b.seqno, vset |-> vset]
  IN
  [txs |-> (db.txs \cup {b}) \ (IF bound = 0 THEN {} ELSE RemovedTxs(bound)),
   blocks |-> (db.blocks \cup {b}) \ (IF bound = 0 THEN {} ELSE Removed(bound)),
   signatures |-> IF b.chain = "mc"
                  THEN {s \in db.signatures : s.mc # b.seqno} \cup {signed}
                  ELSE db.signatures,
   timings |-> IF bound = 0 THEN timings ELSE KeptTimings(timings)]

\* prepare_block of one block of mc, which the chain has produced.
StoreBlock(b) ==
  /\ b \in todo
  /\ GenUtime(b) <= now
  /\ todo' = todo \ {b}
  /\ db' = IF Outdated(b) THEN db ELSE Written(b)
  /\ UNCHANGED <<now, snapshot, vset, mc, handled, crashes, request>>

-------------------------------------------------------------------------------
(* The strider and the process. *)

\* handle_block of mc: the snapshot moves, then the validator set.
HandleBlock ==
  /\ mc <= MaxMc
  /\ todo = {}
  /\ ~handled
  /\ handled' = TRUE
  /\ snapshot' = db
  /\ vset' = IF mc \in KeyBlocks THEN mc ELSE vset
  /\ UNCHANGED <<now, db, mc, todo, crashes, request>>

\* The strider commits mc and goes on to the next.
Commit ==
  /\ handled
  /\ handled' = FALSE
  /\ mc' = mc + 1
  /\ todo' = Committed(mc + 1)
  /\ UNCHANGED <<now, db, snapshot, vset, crashes, request>>

\* Mutation: the next block counts as well, if it is a key block.
InitVsetNext == Latest({k \in KeyBlocks : k <= mc})

\* init: find_prev_key_block(init_block_id.seqno + 1), from the committed block.
InitVset == Latest({k \in KeyBlocks : k < mc})

\* Mutation: the blocks to be gone over again are left out.
RestartSnapshotWithout == [db EXCEPT !.blocks = @ \ Committed(mc)]

\* db.owned_snapshot()
RestartSnapshot == db

\* init fails if no key block has been committed but other blocks have, and then
\* the process ends for good: the service stops here, as in any state.
Initializes == mc > 1 => \E k \in KeyBlocks : k < mc

\* A restart: ProofStorage::new, then init; requests are gone.
Restart ==
  /\ Initializes
  /\ mc <= MaxMc
  /\ crashes < MaxCrashes
  /\ crashes' = crashes + 1
  /\ snapshot' = RestartSnapshot
  /\ vset' = InitVset
  /\ todo' = Committed(mc)
  /\ handled' = FALSE
  /\ request' = NoRequest
  /\ UNCHANGED <<now, db, mc>>

Tick ==
  /\ now < MaxTime
  /\ now' = now + 1
  /\ UNCHANGED <<db, snapshot, vset, mc, todo, handled, crashes, request>>

-------------------------------------------------------------------------------
(* build_proof. *)

\* The masterchain block that commits b has been handled.
Due(b) == LET m == RefBy(b) IN m < mc \/ (m = mc /\ handled)

\* The index is read from the live database.
ReadIndex(b) ==
  /\ request.pc = "none"
  /\ request' = [pc |-> IF b \in db.txs THEN "indexed" ELSE "not_found",
                 tx |-> b, due |-> Due(b)]
  /\ UNCHANGED <<now, db, snapshot, vset, mc, todo, handled, crashes>>

\* Everything else from the snapshot: the block with the transaction, the
\* signatures, and for a shard block the chain up to the masterchain block.
Complete(s, b) ==
  LET m == RefBy(b) IN
  /\ b \in s.blocks
  /\ \E g \in s.signatures : g.mc = m
  /\ b.chain # "mc" =>
       /\ Mc(m) \in s.blocks
       /\ b.chain \in Leaves[m]
       /\ b.seqno <= Top[m][b.chain]
       /\ \A n \in b.seqno + 1..Top[m][b.chain] : Sc(b.chain, n) \in s.blocks

\* shard_proofs: the block with the transaction and those above it, none for a
\* masterchain block.
ShardProofs(b) == IF b.chain = "mc" THEN 0 ELSE Top[RefBy(b)][b.chain] - b.seqno + 1

\* make_proof_chain panics on other chains; the panic of the blocking task is the
\* error of its join handle.
Packable(b) == Packs(ShardProofs(b))

\* `this.snapshot.load_full()`
BuildProof ==
  /\ request.pc = "indexed"
  /\ request' = [request EXCEPT !.pc = IF Complete(snapshot, request.tx) /\ Packable(request.tx)
                                       THEN "proof" ELSE "error"]
  /\ UNCHANGED <<now, db, snapshot, vset, mc, todo, handled, crashes>>

Answer ==
  /\ request.pc \in {"proof", "not_found", "error"}
  /\ request' = NoRequest
  /\ UNCHANGED <<now, db, snapshot, vset, mc, todo, handled, crashes>>

-------------------------------------------------------------------------------
Next ==
  \/ Tick
  \/ \E b \in Blocks : StoreBlock(b)
  \/ HandleBlock
  \/ Commit
  \/ Restart
  \/ \E b \in Blocks : ReadIndex(b)
  \/ BuildProof
  \/ Answer

Spec == Init /\ [][Next]_vars

-------------------------------------------------------------------------------
(* Properties. *)

\* A request for a transaction whose masterchain block was handled when it came
\* gets a proof as long as the transaction is within its time to live, whatever
\* is stored, dropped or restarted meanwhile (build_proof reads the index live
\* and the rest from a snapshot).  It is found in any case, and the one thing
\* that fails it is a chain of a length that make_proof_chain cannot pack.
ServedWithinTtl ==
  request.due /\ now - GenUtime(request.tx) < MinProofTtl =>
    /\ request.pc # "not_found"
    /\ request.pc = "error" => ~Packable(request.tx)

\* The database can prove every handled transaction it has in its index, except
\* for outdated ones (the lt bound and the seqno bounds of one deletion agree,
\* and skipping outdated blocks leaves no hole before newer ones).
IndexIsBacked ==
  \A b \in db.txs : Due(b) => Complete(db, b) \/ now - GenUtime(b) >= MinProofTtl

\* A block that outlives its transactions in the index is of a shard that a
\* bound's masterchain block did not list: those of shards that have split or
\* merged stay, for nothing, and no other block does (OutdatedBound: tx_key and
\* iter_block_keys).
OrphansOfGoneShards ==
  \A b \in db.blocks \ db.txs :
    \E m \in RefBy(b)..mc : b.chain # "mc" /\ b.chain \notin Leaves[m]

\* Signatures are stored under the validator set they were made by, also for the
\* blocks after a restart (the order of store_block and set_current_vset, init).
SignedByCurrent == \A g \in db.signatures : g.vset = Signer(g.mc)

\* What a proof service shows of itself: a transaction is promised once its
\* masterchain block is handled or its proof is all in the snapshot, unless
\* make_proof_chain cannot pack its chain: nothing is promised of those.
Promised == {b \in Blocks : (Due(b) \/ Complete(snapshot, b)) /\ Packable(b)}

Stale == {b \in Blocks : now - GenUtime(b) >= MinProofTtl}

Asked == [status |-> CASE request.pc = "indexed" -> "pending"
                       [] request.pc \in {"not_found", "error"} -> "refused"
                       [] OTHER -> request.pc,
          tx |-> request.tx]

Service == INSTANCE ProofService
             WITH Txs <- Blocks, promised <- Promised, stale <- Stale, request <- Asked

\* The service keeps its word (ProofService): what build_proof could prove once
\* it proves until its time to live is over, whatever is stored, dropped or
\* handled and however often the node restarts and goes back to an uncommitted
\* block.
ServiceSpec == Service!SSpec

\* A masterchain block with a timing can still be read to find what to remove.
TimingsLead == \A t \in db.timings : Mc(t.mc) \in db.blocks
===============================================================================
