------------------------------- MODULE Uploader -------------------------------
(* `Uploader::run` of sync-service: bring the validator sets of a source       *)
(* network to a bridge contract on a destination network, one key block per    *)
(* epoch.  Several uploaders may serve one bridge.                             *)
(*                                                                             *)
(* External: both networks, the wallet, lib_store and bridge contracts.  Key   *)
(* blocks are numbered 1, 2, ... with the previous key block of s being s - 1; *)
(* Epoch[s] stands for the utime_since of the validator set s carries.  Only   *)
(* the first block of an epoch is signed by the previous validator set, which  *)
(* is the one a bridge in the previous epoch knows.  Any state the destination *)
(* ever had may be read (`states`), and the source may report an old latest    *)
(* block.  What one wallet message may come to is ReliableSend's promise: the  *)
(* call sees "found" only for an executed message, "expired" only for a dead   *)
(* one, and a failed send says nothing.                                        *)
(*                                                                             *)
(* A wallet of `Unfunded` runs short of money and is topped up, at any time    *)
(* and by others than the uploader: its balance is below what wait_for_state   *)
(* asks for, the message's value and a reserve.  A message is sent when some   *)
(* state of the wallet, an old one perhaps, covers both; executed by a wallet  *)
(* that is short, it is paid from the reserve or sends nothing.                *)
EXTENDS Integers, FiniteSets

CONSTANTS
  Uploaders,
  Epoch,        \* Epoch[s]: validator set of key block s
  MaxSeqno,     \* last key block the source makes
  MaxFaults,    \* crashes and ambiguous send errors of one uploader
  MaxErrors,    \* failed requests and lost messages, over all uploaders
  Unfunded      \* uploaders whose wallet may run short

Seqnos == 1..MaxSeqno

ASSUME UploaderAssumption ==
  /\ MaxSeqno \in Nat \ {0}
  /\ Epoch \in [Seqnos -> Nat]
  /\ \A s, t \in Seqnos : s <= t => Epoch[s] <= Epoch[t]
  /\ \A s \in Seqnos : s > 1 => Epoch[s] <= Epoch[s - 1] + 1
  /\ MaxFaults \in Nat
  /\ MaxErrors \in Nat
  /\ Unfunded \subseteq Uploaders

VARIABLES
  src_head,     \* latest key block of the source
  dst,          \* newest state of the destination
  states,       \* every state it had
  txs,          \* transactions of the bridge
  mempool,      \* external messages to the wallets, neither executed nor dead
  queue,        \* internal messages a wallet has sent and no one processed yet
  executed,     \* ids of executed external messages
  unfunded,     \* those of them whose transaction has no outbound message
  next_id,      \* id of the next message; also stands for its random lib_store id
  short,        \* uploaders whose wallet's balance is below target_balance
  covered,      \* uploaders whose wallet has had a state where it was not
  pc,           \* what each uploader awaits
  epoch,        \* current_vset_utime_since, as read from the bridge
  cursor,       \* latest_seqno of find_next_key_block
  cand,         \* its result, 0 for None; then the key block being sent
  msg,          \* id of the wallet message whose outcome is awaited
  bridge_lt,    \* the bridge's last transaction as of before the send
  min_lt,       \* min_bridge_state_lt
  cache,        \* keys of key_blocks_cache
  fetched,      \* key blocks downloaded since the process started (history)
  faults,       \* crashes and ambiguous sends so far
  errors        \* other failures so far

\* What lives as long as the process, and what lives as long as one round.
kept == <<min_lt, cache, fetched>>
locals == <<epoch, cursor, cand, msg, bridge_lt>>
mem == <<locals, kept>>
wallets == <<short, covered>>
net == <<src_head, dst, states, txs, mempool, queue, executed, unfunded, next_id, wallets>>
vars == <<src_head, dst, states, txs, mempool, queue, executed, unfunded, next_id, short,
          covered, pc, epoch, cursor, cand, msg, bridge_lt, min_lt, cache, fetched,
          faults, errors>>

-------------------------------------------------------------------------------
Message == [id : Nat, by : Uploaders, kind : {"lib", "key"}, block : Seqnos]
BridgeTx == [lt : Nat, id : Nat, by : Uploaders, block : Seqnos, ok : BOOLEAN, lib : BOOLEAN]

\* What an RPC node shows of the destination: the bridge's epoch and last
\* transaction, the deployed lib_stores and the epochs they hold.
DstState ==
  [lt : Nat, epoch : Nat, last_lt : Nat, libs : SUBSET Nat, addrs : SUBSET Nat]

Phases == {"idle", "latest", "walk", "library", "deploy", "deploying", "await_lib",
           "submit", "send", "sending", "confirm"}

TypeOK ==
  /\ src_head \in Seqnos
  /\ dst \in DstState
  /\ states \subseteq DstState
  /\ txs \subseteq BridgeTx
  /\ mempool \subseteq Message
  /\ queue \subseteq Message
  /\ executed \subseteq Nat
  /\ unfunded \subseteq Nat
  /\ next_id \in Nat
  /\ short \subseteq Unfunded
  /\ covered \subseteq Uploaders
  /\ pc \in [Uploaders -> Phases]
  /\ epoch \in [Uploaders -> Nat]
  /\ cursor \in [Uploaders -> 0..MaxSeqno]
  /\ cand \in [Uploaders -> 0..MaxSeqno]
  /\ msg \in [Uploaders -> Nat]
  /\ bridge_lt \in [Uploaders -> Nat]
  /\ min_lt \in [Uploaders -> Nat]
  /\ cache \in [Uploaders -> SUBSET Seqnos]
  /\ fetched \in [Uploaders -> SUBSET Seqnos]
  /\ faults \in [Uploaders -> 0..MaxFaults]
  /\ errors \in 0..MaxErrors

\* The bridge is deployed with the validator set of the first key block.
Init ==
  /\ src_head = 1
  /\ dst = [lt |-> 0, epoch |-> Epoch[1], last_lt |-> 0, libs |-> {}, addrs |-> {}]
  /\ states = {dst}
  /\ txs = {}
  /\ mempool = {}
  /\ queue = {}
  /\ executed = {}
  /\ unfunded = {}
  /\ next_id = 1
  /\ short = Unfunded
  /\ covered = Uploaders \ Unfunded
  /\ pc = [u \in Uploaders |-> "idle"]
  /\ epoch = [u \in Uploaders |-> 0]
  /\ cursor = [u \in Uploaders |-> 0]
  /\ cand = [u \in Uploaders |-> 0]
  /\ msg = [u \in Uploaders |-> 0]
  /\ bridge_lt = [u \in Uploaders |-> 0]
  /\ min_lt = [u \in Uploaders |-> 0]
  /\ cache = [u \in Uploaders |-> {}]
  /\ fetched = [u \in Uploaders |-> {}]
  /\ faults = [u \in Uploaders |-> 0]
  /\ errors = 0

-------------------------------------------------------------------------------
(* The networks. *)

NewKeyBlock ==
  /\ src_head < MaxSeqno
  /\ src_head' = src_head + 1
  /\ UNCHANGED <<dst, states, txs, mempool, queue, executed, unfunded, next_id, wallets,
                 pc, mem, faults, errors>>

\* The wallet executes a message and sends the internal one it carries.
Execute(m) ==
  /\ mempool' = mempool \ {m}
  /\ executed' = executed \cup {m.id}
  /\ queue' = queue \cup {m}
  /\ UNCHANGED <<src_head, dst, states, txs, unfunded, next_id, wallets, pc, mem, faults,
                 errors>>

\* The wallet executes a message it cannot pay for: its action phase fails (the
\* sender's wait_for_state had read a balance since spent).  MaxErrors bounds it.
ExecuteUnfunded(m) ==
  /\ m.by \in short
  /\ errors < MaxErrors
  /\ errors' = errors + 1
  /\ mempool' = mempool \ {m}
  /\ executed' = executed \cup {m.id}
  /\ unfunded' = unfunded \cup {m.id}
  /\ UNCHANGED <<src_head, dst, states, txs, queue, next_id, wallets, pc, mem, faults>>

\* A message expires unexecuted.
Lose(m) ==
  /\ errors < MaxErrors
  /\ errors' = errors + 1
  /\ mempool' = mempool \ {m}
  /\ UNCHANGED <<src_head, dst, states, txs, queue, executed, unfunded, next_id, wallets,
                 pc, mem, faults>>

\* A lib_store is deployed with the epoch data it was sent.
DeployLib(m) ==
  /\ m.kind = "lib"
  /\ queue' = queue \ {m}
  /\ dst' = [dst EXCEPT !.lt = @ + 1, !.libs = @ \cup {Epoch[m.block]},
                        !.addrs = @ \cup {m.id}]
  /\ states' = states \cup {dst'}
  /\ UNCHANGED <<src_head, txs, mempool, executed, unfunded, next_id, wallets, pc, mem,
                 faults, errors>>

\* The bridge takes a key block of a later epoch that its own validators signed.
Accepts(s) == s > 1 /\ Epoch[s - 1] = dst.epoch /\ Epoch[s] > dst.epoch

BridgeReceive(m) ==
  LET ok == Accepts(m.block)
      lt == dst.lt + 1
  IN
  /\ m.kind = "key"
  /\ queue' = queue \ {m}
  /\ txs' = txs \cup {[lt |-> lt, id |-> m.id, by |-> m.by, block |-> m.block,
                       ok |-> ok, lib |-> Epoch[m.block] \in dst.libs]}
  /\ dst' = [dst EXCEPT !.lt = lt, !.last_lt = lt,
                        !.epoch = IF ok THEN Epoch[m.block] ELSE @]
  /\ states' = states \cup {dst'}
  /\ UNCHANGED <<src_head, mempool, executed, unfunded, next_id, wallets, pc, mem, faults,
                 errors>>

\* A wallet's money is spent, on this bridge or elsewhere; someone sends more.
Drain(u) ==
  /\ u \in Unfunded \ short
  /\ short' = short \cup {u}
  /\ UNCHANGED <<src_head, dst, states, txs, mempool, queue, executed, unfunded, next_id,
                 covered, pc, mem, faults, errors>>

TopUp(u) ==
  /\ u \in short
  /\ short' = short \ {u}
  /\ covered' = covered \cup {u}
  /\ UNCHANGED <<src_head, dst, states, txs, mempool, queue, executed, unfunded, next_id,
                 pc, mem, faults, errors>>

-------------------------------------------------------------------------------
(* One round of `sync_key_blocks`. *)

Goto(u, from, to) == pc[u] = from /\ pc' = [pc EXCEPT ![u] = to]

\* The end of a round, by success or error: its local variables go.
EndRound(u) ==
  /\ pc' = [pc EXCEPT ![u] = "idle"]
  /\ epoch' = [epoch EXCEPT ![u] = 0]
  /\ cursor' = [cursor EXCEPT ![u] = 0]
  /\ cand' = [cand EXCEPT ![u] = 0]
  /\ msg' = [msg EXCEPT ![u] = 0]
  /\ bridge_lt' = [bridge_lt EXCEPT ![u] = 0]

\* Any error ends the round: run() marks it Retrying and sleeps poll_interval.
Fail(u) ==
  /\ pc[u] \in {"latest", "walk", "deploy", "send"}
  /\ pc[u] = "walk" => cursor[u] \notin cache[u]
  /\ errors < MaxErrors
  /\ errors' = errors + 1
  /\ EndRound(u)
  /\ UNCHANGED <<net, kept, faults>>

\* A restart forgets everything the process knew.
Crash(u) ==
  /\ faults[u] < MaxFaults
  /\ faults' = [faults EXCEPT ![u] = @ + 1]
  /\ EndRound(u)
  /\ min_lt' = [min_lt EXCEPT ![u] = 0]
  /\ cache' = [cache EXCEPT ![u] = {}]
  /\ fetched' = [fetched EXCEPT ![u] = {}]
  /\ UNCHANGED <<net, errors>>

\* Mutations: any state will do; only a state after the last verdict will.
AnyState(u, d) == TRUE
StrictlyRecent(u, d) == d.lt > min_lt[u]

\* `timings.gen_lt >= self.min_bridge_state_lt`
RecentEnough(u, d) == d.lt >= min_lt[u]

\* get_current_epoch_since, get_bridge_account: an older state is polled again.
ReadBridge(u, d) ==
  /\ Goto(u, "idle", "latest")
  /\ RecentEnough(u, d)
  /\ epoch' = [epoch EXCEPT ![u] = d.epoch]
  /\ UNCHANGED <<net, cursor, cand, msg, bridge_lt, kept, faults, errors>>

\* find_next_key_block, before its loop.
Latest(u, s) ==
  /\ Goto(u, "latest", "walk")
  /\ cursor' = [cursor EXCEPT ![u] = s]
  /\ UNCHANGED <<net, epoch, cand, msg, bridge_lt, kept, faults, errors>>

\* There is a block to send, and prepare_signatures finds all its signers in
\* prev_vset (for another block than the first of its epoch it fails).
SignedByPrev(s) == s > 1 /\ Epoch[s - 1] + 1 = Epoch[s]

\* Mutation: the newest of the newer key blocks is kept, not the oldest.
RememberFirst(u) == IF cand[u] = 0 THEN cursor[u] ELSE cand[u]

\* `result = Some(key_block)`
Remember(u) == cursor[u]

\* One turn of the loop: a newer block is remembered and its predecessor looked
\* at; an older one means a lagging source; the bridge's own epoch ends the walk.
Walk(u) ==
  LET s == cursor[u] IN
  /\ pc[u] = "walk"
  /\ s > 0
  /\ cache' = [cache EXCEPT ![u] = @ \cup {s}]
  /\ fetched' = [fetched EXCEPT ![u] = @ \cup (IF s \in cache[u] THEN {} ELSE {s})]
  /\ \/ /\ Epoch[s] > epoch[u]
        /\ cand' = [cand EXCEPT ![u] = Remember(u)]
        /\ cursor' = [cursor EXCEPT ![u] = s - 1]
        /\ UNCHANGED <<pc, epoch, msg, bridge_lt>>
     \/ /\ Epoch[s] < epoch[u] \/ (Epoch[s] = epoch[u] /\ ~SignedByPrev(cand[u]))
        /\ EndRound(u)
     \/ /\ Epoch[s] = epoch[u] /\ SignedByPrev(cand[u])
        /\ pc' = [pc EXCEPT ![u] = "library"]
        /\ cursor' = [cursor EXCEPT ![u] = 0]
        /\ UNCHANGED <<epoch, cand, msg, bridge_lt>>
  /\ UNCHANGED <<net, min_lt, faults, errors>>

\* get_library_cell; a failed request counts as not found.
FindLibrary(u, d) ==
  /\ Goto(u, "library", IF Epoch[cand[u]] \in d.libs THEN "submit" ELSE "deploy")
  /\ UNCHANGED <<net, mem, faults, errors>>

FindLibraryError(u) ==
  /\ Goto(u, "library", "deploy")
  /\ errors < MaxErrors
  /\ errors' = errors + 1
  /\ UNCHANGED <<net, mem, faults>>

\* Wallet::send_message up to the answer of `send_message`: wait_for_state polls
\* without a limit until a state of the wallet covers the message, which is then
\* handed over, or an error leaves open whether the node took it.
Post(u, kind, from, to) ==
  LET m == [id |-> next_id, by |-> u, kind |-> kind, block |-> cand[u]] IN
  /\ pc[u] = from
  /\ u \in covered
  /\ next_id' = next_id + 1
  /\ \/ /\ pc' = [pc EXCEPT ![u] = to]
        /\ msg' = [msg EXCEPT ![u] = next_id]
        /\ mempool' = mempool \cup {m}
        /\ UNCHANGED <<epoch, cursor, cand, bridge_lt, faults>>
     \/ /\ faults[u] < MaxFaults
        /\ faults' = [faults EXCEPT ![u] = @ + 1]
        /\ EndRound(u)
        /\ mempool' \in {mempool, mempool \cup {m}}
  /\ UNCHANGED <<src_head, dst, states, txs, queue, executed, unfunded, wallets, kept,
                 errors>>

\* deploy_vset_lib: the account of a fresh random id never exists.
SendDeploy(u) == Post(u, "lib", "deploy", "deploying")

\* send_message_reliable's answer: the transaction, or Err("message expired").
Outcome(u, from, to) ==
  /\ pc[u] = from
  /\ \/ /\ msg[u] \in executed
        /\ pc' = [pc EXCEPT ![u] = to]
        /\ UNCHANGED locals
     \/ /\ msg[u] \notin executed
        /\ \A m \in mempool : m.id # msg[u]
        /\ EndRound(u)
  /\ UNCHANGED <<net, kept, faults, errors>>

\* deploy_vset_lib logs the wallet's transaction and looks no further.
DeploySent(u) == Outcome(u, "deploying", "await_lib")

\* Mutation: the key block follows without waiting for the library.
AwaitNothing(u, d) ==
  /\ Goto(u, "await_lib", "submit")
  /\ UNCHANGED <<net, mem, faults, errors>>

\* wait_for_deploy: the account exists.  It does from the transaction on that
\* deploys it, which also publishes the library (DeployLib).
AwaitLib(u, d) ==
  /\ Goto(u, "await_lib", "submit")
  /\ msg[u] \in d.addrs
  /\ UNCHANGED <<net, mem, faults, errors>>

\* Wallet::send_key_block reads the bridge's last transaction, then sends.
ReadBridgeLt(u, d) ==
  /\ Goto(u, "submit", "send")
  /\ bridge_lt' = [bridge_lt EXCEPT ![u] = d.last_lt]
  /\ UNCHANGED <<net, epoch, cursor, cand, msg, kept, faults, errors>>

SendKeyBlock(u) == Post(u, "key", "send", "sending")

\* Mutation: the bridge's last transaction is read after the send.
KeyBlockSentThenRead(u) ==
  /\ Goto(u, "sending", "confirm")
  /\ msg[u] \in executed
  /\ bridge_lt' = [bridge_lt EXCEPT ![u] = dst.last_lt]
  /\ UNCHANGED <<net, epoch, cursor, cand, msg, kept, faults, errors>>

\* Mutation: as in deploy_vset_lib, the outbound messages are not looked at.
KeyBlockSentUnseen(u) == Outcome(u, "sending", "confirm")

\* "no outbound messages found"
KeyBlockSent(u) ==
  IF msg[u] \in unfunded
  THEN pc[u] = "sending" /\ EndRound(u) /\ UNCHANGED <<net, kept, faults, errors>>
  ELSE Outcome(u, "sending", "confirm")

\* Mutations: only an accepted block's transaction counts; a margin underflows.
WitnessAccepted(u, t) == IF t.ok THEN t.lt ELSE min_lt[u]
WitnessMargin(u, t) == t.lt - 3

\* `self.min_bridge_state_lt = tx.lt`, whether or not the block was accepted.
Witness(u, t) == t.lt

\* Mutation: the other half of split_off is kept.
KeptOther(u) == {s \in cache[u] : s < cand[u] - 1}

\* `key_blocks_cache.split_off(&key_block.prev_key_block_seqno)`
Kept(u) == {s \in cache[u] : s >= cand[u] - 1}

\* find_transaction on the bridge, then its compute phase: a rejected block is
\* an error and leaves the cache alone.
Confirm(u) ==
  \E t \in txs :
    /\ pc[u] = "confirm"
    /\ t.id = msg[u]
    /\ t.lt > bridge_lt[u]
    /\ EndRound(u)
    /\ min_lt' = [min_lt EXCEPT ![u] = Witness(u, t)]
    /\ cache' = [cache EXCEPT ![u] = IF t.ok THEN Kept(u) ELSE @]
    /\ UNCHANGED <<net, fetched, faults, errors>>

-------------------------------------------------------------------------------
Funding == \E u \in Unfunded : Drain(u) \/ TopUp(u)

NetworkNext ==
  \/ NewKeyBlock
  \/ \E m \in mempool : Execute(m) \/ ExecuteUnfunded(m) \/ Lose(m)
  \/ \E m \in queue : DeployLib(m) \/ BridgeReceive(m)
  \/ Funding

Round(u) ==
  \/ \E d \in states : ReadBridge(u, d)
  \/ \E s \in 1..src_head : Latest(u, s)
  \/ Walk(u)
  \/ \E d \in states : FindLibrary(u, d)
  \/ FindLibraryError(u)
  \/ SendDeploy(u)
  \/ DeploySent(u)
  \/ \E d \in states : AwaitLib(u, d)
  \/ \E d \in states : ReadBridgeLt(u, d)
  \/ SendKeyBlock(u)
  \/ KeyBlockSent(u)
  \/ Confirm(u)

Next ==
  \/ NetworkNext
  \/ \E u \in Uploaders : Round(u) \/ Fail(u) \/ Crash(u)

Spec == Init /\ [][Next]_vars

\* The networks process what they hold; an up-to-date answer comes now and then
\* (SF: older ones may come in between), and an uploader is scheduled.  Nobody
\* has to fund a wallet: a send must happen only if it stays able to pay.
Fairness ==
  /\ WF_vars(\E m \in mempool : Execute(m))
  /\ WF_vars(\E m \in queue : DeployLib(m) \/ BridgeReceive(m))
  /\ \A u \in Uploaders :
       /\ SF_vars(ReadBridge(u, dst))
       /\ SF_vars(Latest(u, src_head))
       /\ SF_vars(AwaitLib(u, dst))
       /\ WF_vars(Walk(u))
       /\ WF_vars(\E d \in states : FindLibrary(u, d))
       /\ WF_vars((u \notin short /\ SendDeploy(u)) \/ DeploySent(u))
       /\ WF_vars(\E d \in states : ReadBridgeLt(u, d))
       /\ WF_vars((u \notin short /\ SendKeyBlock(u)) \/ KeyBlockSent(u) \/ Confirm(u))

FairSpec == Spec /\ Fairness

-------------------------------------------------------------------------------
(* Properties. *)

\* A key block is sent only if it is the first of the epoch after one the bridge
\* has reached: the block its validators signed (find_next_key_block's choice of
\* the oldest newer block, whatever latest block and cached blocks it started from).
SentInOrder ==
  \A m \in mempool \cup queue :
    m.kind = "key" => SignedByPrev(m.block) /\ Epoch[m.block - 1] <= dst.epoch

\* A round works on an epoch no older than every block of which the uploader has
\* seen the bridge's verdict (min_bridge_state_lt against lagging nodes).
ReadsOwnWrites ==
  \A u \in Uploaders : pc[u] # "idle" =>
    \A t \in txs : t.ok /\ t.lt <= min_lt[u] => epoch[u] >= Epoch[t.block]

Rejected(u) == {t \in txs : t.by = u /\ ~t.ok}
AcceptedOfOthers(u) == {t \in txs : t.by # u /\ t.ok}

\* Money is wasted on a rejected key block only by a crash, an ambiguous send or
\* another uploader having been faster; never by lagging nodes, lost messages or
\* retries alone (get_bridge_account, send_key_block).  A crash may cost two: the
\* block in flight is forgotten, and so is how recent the bridge's state must be.
WasteIsExcused ==
  \A u \in Uploaders :
    Cardinality(Rejected(u)) <= 2 * faults[u] + Cardinality(AcceptedOfOthers(u))

\* The validator set's library is deployed before the bridge is asked to switch
\* to it (send_key_block: 'store_lib comes first and waits for the account).
LibraryFirst == \A t \in txs : t.lib

\* What an uploader that has sent a message waits for without a time limit is on
\* its way: the bridge's transaction, after the bridge_lt read for it
\* (find_transaction is given no expiry), and the library's account.  The one
\* exception is a library whose deployment the wallet could not pay for:
\* deploy_vset_lib does not look at the outbound messages, and wait_for_deploy
\* then polls for ever.
AnswerOnItsWay ==
  \A u \in Uploaders :
    LET sent == \E m \in queue : m.id = msg[u] IN
    /\ pc[u] = "confirm" => sent \/ \E t \in txs : t.id = msg[u] /\ t.lt > bridge_lt[u]
    /\ pc[u] = "await_lib" => sent \/ msg[u] \in dst.addrs \cup unfunded

\* A block already downloaded since the start is fetched again only if it was
\* older than the epoch in hand (key_blocks_cache.split_off).
NoRefetch ==
  [][\A u \in Uploaders :
       Walk(u) /\ cursor[u] \in fetched[u] \ cache[u] => Epoch[cursor[u]] < epoch[u]]_vars

\* wait_for_deploy for a library that was never sent.
WaitsForEver(u) == pc[u] = "await_lib" /\ msg[u] \in unfunded

\* wait_for_state before a message the wallet cannot pay for.
Starved(u) == pc[u] \in {"deploy", "send"} /\ u \in short

\* The bridge reaches every epoch the source has made a key block of, unless an
\* uploader waits for a library it could not pay for, or again and again finds
\* its wallet short before a send (sync_key_blocks, whatever the nodes answered,
\* the messages lost, the crashes and the money that was missing in between).
BridgeCatchesUp ==
  \/ []<>(\E u \in Uploaders : WaitsForEver(u) \/ Starved(u))
  \/ \A s \in Seqnos : (src_head >= s) ~> (dst.epoch >= Epoch[s])
===============================================================================
