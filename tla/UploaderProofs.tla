---------------------------- MODULE UploaderProofs ----------------------------
(* Proofs about Uploader for every set of uploaders, every history of the      *)
(* source network and every bound.                                             *)
EXTENDS Uploader, FiniteSetTheorems, TLAPS

-------------------------------------------------------------------------------
\* An older state of the destination has no more than the newest one, and shows
\* the epochs of the blocks accepted up to it.
NetInv ==
  /\ dst \in states
  /\ \A d \in states :
       /\ d.lt <= dst.lt /\ d.last_lt <= d.lt
       /\ Epoch[1] <= d.epoch /\ d.epoch <= dst.epoch
       /\ d.libs \subseteq dst.libs /\ d.addrs \subseteq dst.addrs
  /\ \A t \in txs : t.lt <= dst.lt
  /\ \A t \in txs, d \in states : t.ok /\ t.lt <= d.lt => Epoch[t.block] <= d.epoch

\* Ids are handed out once: the next one is new everywhere.
IdInv ==
  /\ \A m \in mempool \cup queue : m.id < next_id
  /\ \A t \in txs : t.id < next_id
  /\ \A i \in executed \cup dst.addrs : i < next_id

\* The round of an uploader.  A remembered block is the successor of the one
\* looked at next; at the end it is the first of its epoch.
Sent == {"library", "deploy", "deploying", "await_lib", "submit", "send", "sending", "confirm"}
RoundInv(u) ==
  /\ min_lt[u] <= dst.lt
  /\ bridge_lt[u] <= dst.lt
  /\ pc[u] # "idle" => Epoch[1] <= epoch[u] /\ epoch[u] <= dst.epoch
  /\ pc[u] \in {"idle", "latest"} => cand[u] = 0
  /\ pc[u] = "walk" => /\ cursor[u] > 0
                       /\ cursor[u] <= src_head
                       /\ cand[u] # 0 => cand[u] = cursor[u] + 1
  /\ pc[u] \in Sent => SignedByPrev(cand[u]) /\ Epoch[cand[u] - 1] <= dst.epoch

\* The library of the block in hand: it is there from "submit" on, and the store
\* awaited was sent this block's validator set.
LibOf(u) ==
  /\ pc[u] \in {"submit", "send"} => Epoch[cand[u]] \in dst.libs
  /\ pc[u] \in {"deploying", "await_lib"} =>
       /\ \A m \in mempool \cup queue : m.id = msg[u] => m.block = cand[u]
       /\ msg[u] \in dst.addrs => Epoch[cand[u]] \in dst.libs
       /\ msg[u] < next_id

LibInv ==
  /\ \A u \in Uploaders : LibOf(u)
  /\ \A m \in mempool \cup queue : m.kind = "key" => Epoch[m.block] \in dst.libs

-------------------------------------------------------------------------------
(* Types. *)

LEMMA ConstTypes ==
  /\ MaxSeqno \in Nat \ {0}
  /\ Epoch \in [Seqnos -> Nat]
  /\ MaxFaults \in Nat
  /\ MaxErrors \in Nat
  /\ Unfunded \subseteq Uploaders
BY UploaderAssumption

LEMMA EndRoundType == ASSUME TypeOK, NEW u \in Uploaders, EndRound(u)
                      PROVE /\ pc' \in [Uploaders -> Phases]
                            /\ epoch' \in [Uploaders -> Nat]
                            /\ cursor' \in [Uploaders -> 0..MaxSeqno]
                            /\ cand' \in [Uploaders -> 0..MaxSeqno]
                            /\ msg' \in [Uploaders -> Nat]
                            /\ bridge_lt' \in [Uploaders -> Nat]
BY ConstTypes DEF TypeOK, EndRound, Phases

LEMMA TypeStep == ASSUME TypeOK, NetInv, \A u \in Uploaders : RoundInv(u), [Next]_vars
                  PROVE TypeOK'
<1> USE ConstTypes DEF TypeOK, mem, kept, locals, net, wallets
<1>1. CASE NewKeyBlock
  BY <1>1 DEF NewKeyBlock, Seqnos
<1>2. ASSUME NEW m \in mempool, Execute(m) \/ ExecuteUnfunded(m) \/ Lose(m) PROVE TypeOK'
  <2>1. m.id \in Nat
    BY DEF Message
  <2>2. CASE Execute(m)
    BY <2>1, <2>2 DEF Execute
  <2>3. CASE Lose(m)
    BY <2>3 DEF Lose
  <2>4. CASE ExecuteUnfunded(m)
    <3>1. /\ mempool' = mempool \ {m} /\ executed' = executed \cup {m.id}
          /\ unfunded' = unfunded \cup {m.id} /\ errors' = errors + 1 /\ errors < MaxErrors
          /\ UNCHANGED <<src_head, dst, states, txs, queue, next_id, wallets, pc, mem, faults>>
      BY <2>4 DEF ExecuteUnfunded
    <3>2. errors' \in 0..MaxErrors
      BY <3>1
    <3>3. executed' \subseteq Nat /\ unfunded' \subseteq Nat /\ mempool' \subseteq Message
      BY <2>1, <3>1
    <3> QED
      BY <3>1, <3>2, <3>3
  <2> QED
    BY <1>2, <2>2, <2>3, <2>4
<1>3. ASSUME NEW m \in queue, DeployLib(m) PROVE TypeOK'
  <2>1. m.id \in Nat /\ m.block \in Seqnos
    BY DEF Message
  <2>2. Epoch[m.block] \in Nat
    BY <2>1
  <2>3. dst' = [lt |-> dst.lt + 1, epoch |-> dst.epoch, last_lt |-> dst.last_lt,
                libs |-> dst.libs \cup {Epoch[m.block]}, addrs |-> dst.addrs \cup {m.id}]
    BY <1>3 DEF DeployLib, DstState
  <2>4. dst' \in DstState
    BY <2>1, <2>2, <2>3 DEF DstState
  <2> QED
    BY <1>3, <2>4 DEF DeployLib
<1>4. ASSUME NEW m \in queue, BridgeReceive(m) PROVE TypeOK'
  <2> DEFINE t == [lt |-> dst.lt + 1, id |-> m.id, by |-> m.by, block |-> m.block,
                   ok |-> Accepts(m.block), lib |-> Epoch[m.block] \in dst.libs]
  <2>1. m.id \in Nat /\ m.by \in Uploaders /\ m.block \in Seqnos /\ Epoch[m.block] \in Nat
    BY DEF Message
  <2>2. dst.lt \in Nat /\ dst.epoch \in Nat
    BY DEF DstState
  <2>3. Accepts(m.block) \in BOOLEAN /\ (Epoch[m.block] \in dst.libs) \in BOOLEAN
    BY DEF Accepts
  <2>4. t \in BridgeTx
    BY <2>1, <2>2, <2>3 DEF BridgeTx
  <2>5. dst' \in DstState
    <3>1. dst' = [lt |-> dst.lt + 1,
                  epoch |-> IF Accepts(m.block) THEN Epoch[m.block] ELSE dst.epoch,
                  last_lt |-> dst.lt + 1, libs |-> dst.libs, addrs |-> dst.addrs]
      BY <1>4 DEF BridgeReceive, DstState
    <3> QED
      BY <3>1, <2>1, <2>2 DEF DstState
  <2>6. txs' \subseteq BridgeTx
    BY <1>4, <2>4 DEF BridgeReceive
  <2> QED
    BY <1>4, <2>5, <2>6 DEF BridgeReceive
<1>5. ASSUME NEW u \in Uploaders, Fail(u) PROVE TypeOK'
  BY <1>5, EndRoundType DEF Fail
<1>6. ASSUME NEW u \in Uploaders, Crash(u) PROVE TypeOK'
  BY <1>6, EndRoundType DEF Crash
<1>7. ASSUME NEW u \in Uploaders, NEW d \in states, ReadBridge(u, d) PROVE TypeOK'
  <2>1. d.epoch \in Nat
    BY DEF DstState
  <2> QED
    BY <1>7, <2>1 DEF ReadBridge, Goto, Phases
<1>8. ASSUME NEW u \in Uploaders, NEW s \in 1..src_head, Latest(u, s) PROVE TypeOK'
  <2>1. s \in 0..MaxSeqno
    BY DEF Seqnos
  <2> QED
    BY <1>8, <2>1 DEF Latest, Goto, Phases
<1>9. ASSUME NEW u \in Uploaders, Walk(u) PROVE TypeOK'
  <2>1. cursor[u] \in Seqnos /\ cursor[u] - 1 \in 0..MaxSeqno
    BY <1>9 DEF Walk, Seqnos
  <2>2. cache' \in [Uploaders -> SUBSET Seqnos] /\ fetched' \in [Uploaders -> SUBSET Seqnos]
    BY <1>9, <2>1 DEF Walk
  <2>3. CASE EndRound(u)
    BY <1>9, <2>2, <2>3, EndRoundType DEF Walk
  <2>4. CASE ~EndRound(u)
    <3>1. cand' = cand \/ cand' = [cand EXCEPT ![u] = cursor[u]]
      BY <1>9, <2>4 DEF Walk, Remember
    <3>2. \/ cursor' = [cursor EXCEPT ![u] = 0]
          \/ cursor' = [cursor EXCEPT ![u] = cursor[u] - 1]
      BY <1>9, <2>4 DEF Walk
    <3> QED
      BY <1>9, <2>1, <2>2, <2>4, <3>1, <3>2 DEF Walk, Phases
  <2> QED
    BY <2>3, <2>4
<1>10. ASSUME NEW u \in Uploaders, NEW d \in states,
              FindLibrary(u, d) \/ AwaitLib(u, d) \/ ReadBridgeLt(u, d)
       PROVE TypeOK'
  <2>1. d.last_lt \in Nat
    BY DEF DstState
  <2> QED
    BY <1>10, <2>1 DEF FindLibrary, AwaitLib, ReadBridgeLt, Goto, Phases
<1>11. ASSUME NEW u \in Uploaders, FindLibraryError(u) PROVE TypeOK'
  BY <1>11 DEF FindLibraryError, Goto, Phases
<1>12. ASSUME NEW u \in Uploaders, SendDeploy(u) \/ SendKeyBlock(u) PROVE TypeOK'
  <2> DEFINE kind == IF pc[u] = "deploy" THEN "lib" ELSE "key"
             m == [id |-> next_id, by |-> u, kind |-> kind, block |-> cand[u]]
  <2>1. cand[u] \in Seqnos
    BY <1>12 DEF SendDeploy, SendKeyBlock, Post, RoundInv, Sent, SignedByPrev, Seqnos
  <2>2. m \in Message
    BY <2>1 DEF Message
  <2>3. mempool' \in {mempool, mempool \cup {m}}
    BY <1>12 DEF SendDeploy, SendKeyBlock, Post
  <2>4. mempool' \subseteq Message /\ next_id' \in Nat
    BY <1>12, <2>2, <2>3 DEF SendDeploy, SendKeyBlock, Post
  <2>5. CASE EndRound(u)
    <3>1. faults' \in [Uploaders -> 0..MaxFaults]
      BY <1>12 DEF SendDeploy, SendKeyBlock, Post
    <3> QED
      BY <1>12, <2>4, <2>5, <3>1, EndRoundType DEF SendDeploy, SendKeyBlock, Post
  <2>6. CASE ~EndRound(u)
    <3>1. PICK to \in {"deploying", "sending"} :
            /\ pc' = [pc EXCEPT ![u] = to] /\ msg' = [msg EXCEPT ![u] = next_id]
            /\ UNCHANGED <<epoch, cursor, cand, bridge_lt, faults>>
      BY <1>12, <2>6 DEF SendDeploy, SendKeyBlock, Post
    <3>2. pc' \in [Uploaders -> Phases] /\ msg' \in [Uploaders -> Nat]
      BY <3>1 DEF Phases
    <3>3. UNCHANGED <<src_head, dst, states, txs, queue, executed, unfunded, wallets, kept,
                      errors>>
      BY <1>12 DEF SendDeploy, SendKeyBlock, Post
    <3> QED
      BY <2>4, <3>1, <3>2, <3>3
  <2> QED
    BY <2>5, <2>6
<1>13. ASSUME NEW u \in Uploaders, DeploySent(u) \/ KeyBlockSent(u) PROVE TypeOK'
  <2>1. CASE EndRound(u)
    BY <1>13, <2>1, EndRoundType DEF DeploySent, KeyBlockSent, Outcome
  <2>2. CASE ~EndRound(u)
    BY <1>13, <2>2 DEF DeploySent, KeyBlockSent, Outcome, Phases
  <2> QED
    BY <2>1, <2>2
<1>14. ASSUME NEW u \in Uploaders, Confirm(u) PROVE TypeOK'
  BY <1>14, EndRoundType DEF Confirm, Witness, Kept, BridgeTx
<1>15. CASE UNCHANGED vars
  BY <1>15 DEF vars
<1>16. CASE Funding
  BY <1>16 DEF Funding, Drain, TopUp
<1> QED
  BY <1>1, <1>2, <1>3, <1>4, <1>5, <1>6, <1>7, <1>8, <1>9, <1>10, <1>11, <1>12,
     <1>13, <1>14, <1>15, <1>16 DEF Next, NetworkNext, Round

-------------------------------------------------------------------------------
(* Frames: what a step of one uploader, or of the networks, leaves alone. *)

StepOf(u) == Round(u) \/ Fail(u) \/ Crash(u)

LEMMA UploaderFrame ==
  ASSUME NEW u \in Uploaders, StepOf(u)
  PROVE UNCHANGED <<src_head, dst, states, txs, queue, executed, unfunded>>
<1> USE DEF net
<1>1. CASE Fail(u) \/ Crash(u)
  BY <1>1 DEF Fail, Crash
<1>2. CASE Round(u)
  BY <1>2 DEF Round, ReadBridge, Latest, Walk, FindLibrary, FindLibraryError, SendDeploy,
       DeploySent, AwaitLib, ReadBridgeLt, SendKeyBlock, KeyBlockSent, Confirm, Post, Outcome
<1> QED
  BY <1>1, <1>2 DEF StepOf

Same(v) ==
  /\ pc'[v] = pc[v] /\ epoch'[v] = epoch[v] /\ cursor'[v] = cursor[v]
  /\ cand'[v] = cand[v] /\ msg'[v] = msg[v] /\ bridge_lt'[v] = bridge_lt[v]
  /\ min_lt'[v] = min_lt[v]

LEMMA EndRoundSame ==
  ASSUME TypeOK, NEW u \in Uploaders, NEW v \in Uploaders, u # v, EndRound(u),
         min_lt'[v] = min_lt[v]
  PROVE  Same(v)
BY DEF EndRound, Same, TypeOK

LEMMA LocalFrame ==
  ASSUME TypeOK, NEW u \in Uploaders, NEW v \in Uploaders, u # v, StepOf(u)
  PROVE  Same(v)
<1> USE DEF TypeOK, mem, locals, kept
<1>1. CASE Fail(u) \/ Crash(u)
  BY <1>1, EndRoundSame DEF Fail, Crash
<1>2. CASE \E d \in states : ReadBridge(u, d)
  BY <1>2 DEF ReadBridge, Goto, Same
<1>3. CASE \E s \in 1..src_head : Latest(u, s)
  BY <1>3 DEF Latest, Goto, Same
<1>4. CASE Walk(u)
  BY <1>4, EndRoundSame DEF Walk, Same
<1>5. CASE \E d \in states : FindLibrary(u, d) \/ AwaitLib(u, d) \/ ReadBridgeLt(u, d)
  BY <1>5 DEF FindLibrary, AwaitLib, ReadBridgeLt, Goto, Same
<1>6. CASE FindLibraryError(u)
  BY <1>6 DEF FindLibraryError, Goto, Same
<1>7. CASE SendDeploy(u) \/ SendKeyBlock(u)
  BY <1>7, EndRoundSame DEF SendDeploy, SendKeyBlock, Post, Same
<1>8. CASE DeploySent(u) \/ KeyBlockSent(u)
  BY <1>8, EndRoundSame DEF DeploySent, KeyBlockSent, Outcome, Same
<1>9. CASE Confirm(u)
  <2>1. min_lt'[v] = min_lt[v] /\ EndRound(u)
    BY <1>9 DEF Confirm
  <2> QED
    BY <2>1, EndRoundSame
<1> QED
  BY <1>1, <1>2, <1>3, <1>4, <1>5, <1>6, <1>7, <1>8, <1>9 DEF StepOf, Round

\* A step of the networks touches no uploader's memory.
LEMMA NetworkFrame == ASSUME NetworkNext, NEW v \in Uploaders PROVE Same(v)
BY DEF NetworkNext, NewKeyBlock, Funding, Drain, TopUp, Execute, ExecuteUnfunded, Lose,
     DeployLib, BridgeReceive, mem, locals, kept, Same

-------------------------------------------------------------------------------
(* The networks. *)

Base == TypeOK /\ NetInv /\ IdInv /\ \A u \in Uploaders : RoundInv(u)

LEMMA NetTypes ==
  ASSUME TypeOK
  PROVE  /\ dst.lt \in Nat /\ dst.last_lt \in Nat /\ dst.epoch \in Nat
         /\ \A d \in states : d.lt \in Nat /\ d.epoch \in Nat /\ d.last_lt \in Nat
         /\ \A t \in txs : t.lt \in Nat /\ Epoch[t.block] \in Nat
         /\ \A m \in queue : Epoch[m.block] \in Nat
         /\ Epoch[1] \in Nat
<1>1. /\ dst \in DstState /\ states \subseteq DstState
      /\ txs \subseteq BridgeTx /\ queue \subseteq Message
  BY DEF TypeOK
<1>2. \A d \in DstState : d.lt \in Nat /\ d.epoch \in Nat /\ d.last_lt \in Nat
  BY DEF DstState
<1>3. \A t \in BridgeTx : t.lt \in Nat /\ t.block \in Seqnos
  BY DEF BridgeTx
<1>4. \A m \in Message : m.block \in Seqnos
  BY DEF Message
<1>5. 1 \in Seqnos
  BY ConstTypes DEF Seqnos
<1>6. \A s \in Seqnos : Epoch[s] \in Nat
  BY ConstTypes
<1> QED
  BY <1>1, <1>2, <1>3, <1>4, <1>5, <1>6

\* A transaction of the destination adds one state, later than all others.
LEMMA NetStep == ASSUME TypeOK, NetInv, [Next]_vars PROVE NetInv'
<1> USE ConstTypes
<1>1. ASSUME UNCHANGED <<dst, states, txs>> PROVE NetInv'
  BY <1>1 DEF NetInv
<1>2. ASSUME NEW m \in queue, DeployLib(m) PROVE NetInv'
  <2>1. /\ dst.lt \in Nat /\ dst.last_lt \in Nat /\ dst.epoch \in Nat
        /\ \A d \in states : d.lt \in Nat /\ d.epoch \in Nat /\ d.last_lt \in Nat
        /\ \A t \in txs : t.lt \in Nat /\ Epoch[t.block] \in Nat
        /\ Epoch[1] \in Nat
    BY NetTypes
  <2>2. /\ dst'.lt = dst.lt + 1 /\ dst'.last_lt = dst.last_lt /\ dst'.epoch = dst.epoch
        /\ dst.libs \subseteq dst'.libs /\ dst.addrs \subseteq dst'.addrs
        /\ states' = states \cup {dst'} /\ txs' = txs
    BY <1>2 DEF DeployLib, TypeOK, DstState
  <2> QED
    BY <2>1, <2>2 DEF NetInv
<1>3. ASSUME NEW m \in queue, BridgeReceive(m) PROVE NetInv'
  <2> DEFINE t0 == [lt |-> dst.lt + 1, id |-> m.id, by |-> m.by, block |-> m.block,
                    ok |-> Accepts(m.block), lib |-> Epoch[m.block] \in dst.libs]
  <2>1. /\ dst.lt \in Nat /\ dst.last_lt \in Nat /\ dst.epoch \in Nat
        /\ \A d \in states : d.lt \in Nat /\ d.epoch \in Nat /\ d.last_lt \in Nat
        /\ \A t \in txs : t.lt \in Nat /\ Epoch[t.block] \in Nat
        /\ Epoch[1] \in Nat /\ Epoch[m.block] \in Nat
    BY NetTypes
  <2>2. /\ dst'.lt = dst.lt + 1 /\ dst'.last_lt = dst.lt + 1
        /\ dst'.epoch = IF Accepts(m.block) THEN Epoch[m.block] ELSE dst.epoch
        /\ dst'.libs = dst.libs /\ dst'.addrs = dst.addrs
        /\ states' = states \cup {dst'} /\ txs' = txs \cup {t0}
    BY <1>3 DEF BridgeReceive, TypeOK, DstState
  <2>3. dst.epoch <= dst'.epoch
    BY <2>1, <2>2 DEF Accepts
  <2>4. /\ dst' \in states'
        /\ \A d \in states' :
             /\ d.lt <= dst'.lt /\ d.last_lt <= d.lt
             /\ Epoch[1] <= d.epoch /\ d.epoch <= dst'.epoch
             /\ d.libs \subseteq dst'.libs /\ d.addrs \subseteq dst'.addrs
    BY <2>1, <2>2, <2>3 DEF NetInv
  <2>5. \A t \in txs' : t.lt <= dst'.lt
    BY <2>1, <2>2 DEF NetInv
  <2>6. ASSUME NEW t \in txs', NEW d \in states', t.ok, t.lt <= d.lt
        PROVE  Epoch[t.block] <= d.epoch
    <3>1. CASE t \in txs /\ d \in states
      BY <2>6, <3>1 DEF NetInv
    <3>2. CASE t \in txs /\ d = dst'
      <4>1. t.lt <= dst.lt /\ Epoch[t.block] <= dst.epoch
        BY <2>6, <3>2 DEF NetInv
      <4> QED
        BY <4>1, <3>2, <2>1, <2>2, <2>3
    <3>3. CASE t = t0 /\ d \in states
      BY <2>6, <3>3, <2>1 DEF NetInv
    <3>4. CASE t = t0 /\ d = dst'
      BY <2>6, <3>4, <2>1, <2>2
    <3> QED
      BY <2>2, <3>1, <3>2, <3>3, <3>4
  <2> QED
    BY <2>4, <2>5, <2>6 DEF NetInv
<1>4. CASE NewKeyBlock \/ Funding \/ UNCHANGED vars
  BY <1>1, <1>4 DEF NewKeyBlock, Funding, Drain, TopUp, vars
<1>5. ASSUME NEW m \in mempool, Execute(m) \/ ExecuteUnfunded(m) \/ Lose(m) PROVE NetInv'
  BY <1>1, <1>5 DEF Execute, ExecuteUnfunded, Lose
<1>6. ASSUME NEW u \in Uploaders, StepOf(u) PROVE NetInv'
  BY <1>1, <1>6, UploaderFrame
<1> QED
  BY <1>2, <1>3, <1>4, <1>5, <1>6 DEF Next, NetworkNext, StepOf

\* An uploader's step hands out at most the next id.
LEMMA PostFrame ==
  ASSUME NEW u \in Uploaders, StepOf(u)
  PROVE \/ UNCHANGED <<mempool, next_id>>
        \/ /\ next_id' = next_id + 1
           /\ \E kind \in {"lib", "key"} :
                LET m == [id |-> next_id, by |-> u, kind |-> kind, block |-> cand[u]] IN
                /\ mempool' \in {mempool, mempool \cup {m}}
                /\ pc[u] = (IF kind = "lib" THEN "deploy" ELSE "send")
<1> USE DEF net
<1>1. CASE Fail(u) \/ Crash(u)
  BY <1>1 DEF Fail, Crash
<1>2. CASE SendDeploy(u)
  BY <1>2 DEF SendDeploy, Post
<1>3. CASE SendKeyBlock(u)
  BY <1>3 DEF SendKeyBlock, Post
<1>4. CASE Round(u) /\ ~SendDeploy(u) /\ ~SendKeyBlock(u)
  BY <1>4 DEF Round, ReadBridge, Latest, Walk, FindLibrary, FindLibraryError,
       DeploySent, AwaitLib, ReadBridgeLt, KeyBlockSent, Confirm, Outcome
<1> QED
  BY <1>1, <1>2, <1>3, <1>4 DEF StepOf

LEMMA IdStep == ASSUME TypeOK, IdInv, [Next]_vars PROVE IdInv'
<1>1. /\ next_id \in Nat /\ \A i \in executed \cup dst.addrs : i \in Nat
      /\ \A m \in mempool \cup queue : m.id \in Nat
      /\ \A t \in txs : t.id \in Nat
  BY DEF TypeOK, DstState, Message, BridgeTx
<1>2. CASE NewKeyBlock \/ Funding \/ UNCHANGED vars
  BY <1>2 DEF IdInv, NewKeyBlock, Funding, Drain, TopUp, vars
<1>3. ASSUME NEW m \in mempool, Execute(m) \/ ExecuteUnfunded(m) \/ Lose(m) PROVE IdInv'
  BY <1>1, <1>3 DEF IdInv, Execute, ExecuteUnfunded, Lose
<1>4. ASSUME NEW m \in queue, DeployLib(m) PROVE IdInv'
  <2>1. dst'.addrs = dst.addrs \cup {m.id}
    BY <1>4 DEF DeployLib, TypeOK, DstState
  <2> QED
    BY <1>1, <1>4, <2>1 DEF IdInv, DeployLib
<1>5. ASSUME NEW m \in queue, BridgeReceive(m) PROVE IdInv'
  <2>1. dst'.addrs = dst.addrs
    BY <1>5 DEF BridgeReceive, TypeOK, DstState
  <2> QED
    BY <1>1, <1>5, <2>1 DEF IdInv, BridgeReceive
<1>6. ASSUME NEW u \in Uploaders, StepOf(u) PROVE IdInv'
  BY <1>1, <1>6, UploaderFrame, PostFrame DEF IdInv
<1> QED
  BY <1>2, <1>3, <1>4, <1>5, <1>6 DEF Next, NetworkNext, StepOf

-------------------------------------------------------------------------------
(* The rounds. *)

\* What an uploader knows stays true as the destination moves on.
LEMMA Stays ==
  ASSUME TypeOK, NetInv, NetInv', TypeOK', NEW u \in Uploaders, RoundInv(u), Same(u),
         dst.lt <= dst'.lt, dst.epoch <= dst'.epoch, src_head <= src_head'
  PROVE  RoundInv(u)'
<1>1. /\ dst.lt \in Nat /\ dst'.lt \in Nat /\ dst.epoch \in Nat /\ dst'.epoch \in Nat
      /\ min_lt[u] \in Nat /\ bridge_lt[u] \in Nat /\ epoch[u] \in Nat
      /\ src_head \in Nat /\ src_head' \in Nat /\ cursor[u] \in Nat
      /\ cand[u] \in 0..MaxSeqno
  <2>1. /\ dst \in DstState /\ dst' \in DstState
        /\ src_head \in Seqnos /\ src_head' \in Seqnos
    BY DEF TypeOK
  <2>2. /\ min_lt[u] \in Nat /\ bridge_lt[u] \in Nat /\ epoch[u] \in Nat
        /\ cursor[u] \in 0..MaxSeqno /\ cand[u] \in 0..MaxSeqno
    BY DEF TypeOK
  <2>3. \A d \in DstState : d.lt \in Nat /\ d.epoch \in Nat
    BY DEF DstState
  <2> QED
    BY <2>1, <2>2, <2>3, ConstTypes DEF Seqnos
<1>2. SignedByPrev(cand[u]) => Epoch[cand[u] - 1] \in Nat
  <2>1. cand[u] > 1 => cand[u] - 1 \in Seqnos
    <3>1. cand[u] \in 0..MaxSeqno /\ MaxSeqno \in Nat
      BY <1>1, ConstTypes
    <3> QED
      BY <3>1 DEF Seqnos
  <2>2. \A s \in Seqnos : Epoch[s] \in Nat
    BY ConstTypes
  <2> QED
    BY <2>1, <2>2 DEF SignedByPrev
<1>3. /\ min_lt'[u] = min_lt[u] /\ bridge_lt'[u] = bridge_lt[u] /\ epoch'[u] = epoch[u]
      /\ pc'[u] = pc[u] /\ cand'[u] = cand[u] /\ cursor'[u] = cursor[u]
  BY DEF Same
<1>4. min_lt[u] <= dst'.lt /\ bridge_lt[u] <= dst'.lt
  BY <1>1 DEF RoundInv
<1>5. pc[u] # "idle" => epoch[u] <= dst'.epoch
  BY <1>1 DEF RoundInv
<1>6. pc[u] = "walk" => cursor[u] <= src_head'
  BY <1>1 DEF RoundInv
<1>7. pc[u] \in Sent => Epoch[cand[u] - 1] <= dst'.epoch
  BY <1>1, <1>2 DEF RoundInv
<1> QED
  BY <1>3, <1>4, <1>5, <1>6, <1>7 DEF RoundInv, SignedByPrev

LEMMA DstGrows == ASSUME TypeOK, NetInv, [Next]_vars
                  PROVE dst.lt <= dst'.lt /\ dst.epoch <= dst'.epoch /\ src_head <= src_head'
<1>1. /\ dst.lt \in Nat /\ dst.epoch \in Nat /\ src_head \in Nat
      /\ \A m \in queue : Epoch[m.block] \in Nat
  BY NetTypes DEF TypeOK, Seqnos
<1>2. CASE NewKeyBlock \/ Funding \/ UNCHANGED vars
  BY <1>1, <1>2 DEF NewKeyBlock, Funding, Drain, TopUp, vars
<1>3. ASSUME NEW m \in mempool, Execute(m) \/ ExecuteUnfunded(m) \/ Lose(m)
      PROVE  dst.lt <= dst'.lt /\ dst.epoch <= dst'.epoch /\ src_head <= src_head'
  BY <1>1, <1>3 DEF Execute, ExecuteUnfunded, Lose
<1>4. ASSUME NEW m \in queue, DeployLib(m) \/ BridgeReceive(m)
      PROVE  dst.lt <= dst'.lt /\ dst.epoch <= dst'.epoch /\ src_head <= src_head'
  <2>1. dst'.lt = dst.lt + 1 /\ src_head' = src_head
    BY <1>4 DEF DeployLib, BridgeReceive, TypeOK, DstState
  <2>2. dst'.epoch = dst.epoch \/ (Accepts(m.block) /\ dst'.epoch = Epoch[m.block])
    BY <1>4 DEF DeployLib, BridgeReceive, TypeOK, DstState
  <2> QED
    BY <1>1, <2>1, <2>2 DEF Accepts
<1>5. ASSUME NEW u \in Uploaders, StepOf(u)
      PROVE  dst.lt <= dst'.lt /\ dst.epoch <= dst'.epoch /\ src_head <= src_head'
  BY <1>1, <1>5, UploaderFrame
<1> QED
  BY <1>2, <1>3, <1>4, <1>5 DEF Next, NetworkNext, StepOf

LEMMA EndRoundInv == ASSUME TypeOK, NEW u \in Uploaders, EndRound(u), dst' = dst,
                            dst.lt \in Nat, min_lt'[u] \in Nat, min_lt'[u] <= dst.lt
                     PROVE  RoundInv(u)'
BY DEF EndRound, RoundInv, TypeOK, Sent

\* The walk goes down one block at a time and remembers the block it leaves; it
\* meets the epoch in hand no later than at the first key block.
LEMMA WalkInv == ASSUME Base, NEW u \in Uploaders, Walk(u) PROVE RoundInv(u)'
<1> DEFINE s == cursor[u]
<1>1. /\ dst' = dst /\ src_head' = src_head /\ pc[u] = "walk" /\ s \in Seqnos
      /\ min_lt' = min_lt /\ dst.lt \in Nat /\ dst.epoch \in Nat
      /\ epoch[u] \in Nat /\ cand[u] \in 0..MaxSeqno /\ src_head \in Seqnos
  BY DEF Walk, Base, TypeOK, net, Seqnos, DstState
<1>2. /\ min_lt[u] \in Nat /\ min_lt[u] <= dst.lt /\ bridge_lt[u] <= dst.lt
      /\ Epoch[1] <= epoch[u] /\ epoch[u] <= dst.epoch
      /\ s <= src_head /\ (cand[u] # 0 => cand[u] = s + 1)
  BY <1>1 DEF Base, RoundInv, TypeOK
<1>3. CASE EndRound(u)
  BY <1>1, <1>2, <1>3, EndRoundInv DEF Base
<1>4. CASE ~EndRound(u) /\ Epoch[s] > epoch[u]
  <2>1. /\ pc' = pc /\ epoch' = epoch /\ bridge_lt' = bridge_lt
        /\ cand'[u] = s /\ cursor'[u] = s - 1
    BY <1>1, <1>2, <1>4 DEF Walk, Remember, Base, TypeOK
  <2>2. s > 1
    BY <1>1, <1>2, <1>4, ConstTypes DEF Seqnos
  <2> QED
    BY <1>1, <1>2, <2>1, <2>2 DEF RoundInv, Sent, Seqnos
<1>5. CASE ~EndRound(u) /\ ~(Epoch[s] > epoch[u])
  <2>1. /\ Epoch[s] = epoch[u] /\ SignedByPrev(cand[u])
        /\ pc'[u] = "library" /\ cand' = cand /\ epoch' = epoch /\ bridge_lt' = bridge_lt
    BY <1>1, <1>5 DEF Walk, Base, TypeOK
  <2>2. cand[u] - 1 = s
    BY <1>1, <1>2, <2>1 DEF SignedByPrev, Seqnos
  <2> QED
    BY <1>1, <1>2, <2>1, <2>2 DEF RoundInv, Sent, SignedByPrev
<1> QED
  BY <1>3, <1>4, <1>5

LEMMA OwnStep == ASSUME Base, NEW u \in Uploaders, StepOf(u) PROVE RoundInv(u)'
<1> USE DEF Base, mem, locals, kept
<1>1. /\ dst' = dst /\ src_head' = src_head /\ dst.lt \in Nat /\ dst.epoch \in Nat
      /\ min_lt[u] \in Nat /\ min_lt[u] <= dst.lt /\ bridge_lt[u] <= dst.lt
      /\ src_head \in Seqnos
  BY UploaderFrame DEF RoundInv, TypeOK, DstState
<1>2. CASE Fail(u)
  BY <1>1, <1>2, EndRoundInv DEF Fail
<1>3. CASE Crash(u)
  <2>1. min_lt'[u] = 0 /\ EndRound(u)
    BY <1>3 DEF Crash, TypeOK
  <2> QED
    BY <1>1, <2>1, EndRoundInv
<1>4. ASSUME NEW d \in states, ReadBridge(u, d) PROVE RoundInv(u)'
  <2>1. /\ epoch'[u] = d.epoch /\ pc'[u] = "latest" /\ pc[u] = "idle"
        /\ cand' = cand /\ min_lt' = min_lt /\ bridge_lt' = bridge_lt
    BY <1>4 DEF ReadBridge, Goto, TypeOK
  <2>2. Epoch[1] <= d.epoch /\ d.epoch <= dst.epoch
    BY DEF NetInv
  <2> QED
    BY <1>1, <2>1, <2>2 DEF RoundInv, Sent
<1>5. ASSUME NEW s \in 1..src_head, Latest(u, s) PROVE RoundInv(u)'
  <2>1. /\ cursor'[u] = s /\ pc'[u] = "walk" /\ pc[u] = "latest" /\ cand' = cand
        /\ min_lt' = min_lt /\ bridge_lt' = bridge_lt /\ epoch' = epoch
    BY <1>5 DEF Latest, Goto, TypeOK
  <2> QED
    BY <1>1, <2>1 DEF RoundInv, Sent, Seqnos
<1>6. CASE Walk(u)
  BY <1>6, WalkInv
<1>7. CASE \/ FindLibraryError(u)
           \/ \E d \in states : FindLibrary(u, d) \/ AwaitLib(u, d) \/ ReadBridgeLt(u, d)
  <2>1. \/ bridge_lt' = bridge_lt
        \/ \E d \in states : bridge_lt'[u] = d.last_lt
    BY <1>7 DEF FindLibrary, FindLibraryError, AwaitLib, ReadBridgeLt, TypeOK
  <2>2. bridge_lt'[u] <= dst.lt
    BY <1>1, <2>1 DEF NetInv, TypeOK, DstState
  <2>3. /\ pc[u] \in Sent /\ pc'[u] \in Sent
        /\ cand' = cand /\ min_lt' = min_lt /\ epoch' = epoch
    BY <1>7 DEF FindLibrary, FindLibraryError, AwaitLib, ReadBridgeLt, Goto, TypeOK, Sent
  <2> QED
    BY <1>1, <2>2, <2>3 DEF RoundInv, Sent
<1>8. CASE SendDeploy(u) \/ SendKeyBlock(u)
  <2>1. CASE EndRound(u)
    BY <1>1, <1>8, <2>1, EndRoundInv DEF SendDeploy, SendKeyBlock, Post
  <2>2. CASE ~EndRound(u)
    <3>1. /\ pc[u] \in Sent /\ pc'[u] \in Sent /\ bridge_lt' = bridge_lt
          /\ cand' = cand /\ min_lt' = min_lt /\ epoch' = epoch
      BY <1>8, <2>2 DEF SendDeploy, SendKeyBlock, Post, TypeOK, Sent
    <3> QED
      BY <1>1, <3>1 DEF RoundInv, Sent
  <2> QED
    BY <2>1, <2>2
<1>9. CASE DeploySent(u) \/ KeyBlockSent(u)
  <2>1. CASE EndRound(u)
    BY <1>1, <1>9, <2>1, EndRoundInv DEF DeploySent, KeyBlockSent, Outcome
  <2>2. CASE ~EndRound(u)
    <3>1. /\ pc[u] \in Sent /\ pc'[u] \in Sent /\ bridge_lt' = bridge_lt
          /\ cand' = cand /\ min_lt' = min_lt /\ epoch' = epoch
      BY <1>9, <2>2 DEF DeploySent, KeyBlockSent, Outcome, TypeOK, Sent
    <3> QED
      BY <1>1, <3>1 DEF RoundInv, Sent
  <2> QED
    BY <2>1, <2>2
<1>10. CASE Confirm(u)
  <2>1. PICK t \in txs : min_lt' = [min_lt EXCEPT ![u] = Witness(u, t)] /\ EndRound(u)
    BY <1>10 DEF Confirm
  <2>2. min_lt'[u] = t.lt
    BY <2>1 DEF Witness, TypeOK
  <2>3. t.lt <= dst.lt /\ t.lt \in Nat
    BY DEF NetInv, TypeOK, BridgeTx
  <2> QED
    BY <1>1, <2>1, <2>2, <2>3, EndRoundInv
<1> QED
  BY <1>2, <1>3, <1>4, <1>5, <1>6, <1>7, <1>8, <1>9, <1>10 DEF StepOf, Round

LEMMA BaseStep == ASSUME Base, [Next]_vars PROVE Base'
<1>1. TypeOK' /\ NetInv' /\ IdInv'
  BY TypeStep, NetStep, IdStep DEF Base
<1>2. ASSUME NEW v \in Uploaders PROVE RoundInv(v)'
  <2>1. ASSUME Same(v) PROVE RoundInv(v)'
    BY <1>1, <2>1, Stays, DstGrows DEF Base
  <2>2. CASE NetworkNext
    BY <2>1, <2>2, NetworkFrame
  <2>3. CASE UNCHANGED vars
    BY <2>1, <2>3 DEF vars, Same
  <2>4. ASSUME NEW u \in Uploaders, StepOf(u) PROVE RoundInv(v)'
    <3>1. CASE u = v
      BY <2>4, <3>1, OwnStep
    <3>2. CASE u # v
      BY <2>1, <2>4, <3>2, LocalFrame DEF Base
    <3> QED
      BY <3>1, <3>2
  <2> QED
    BY <2>2, <2>3, <2>4 DEF Next, StepOf
<1> QED
  BY <1>1, <1>2 DEF Base

LEMMA BaseInit == ASSUME Init PROVE Base
<1> USE ConstTypes DEF Init
<1>1. dst \in DstState /\ 1 \in Seqnos /\ Epoch[1] \in Nat
  BY DEF DstState, Seqnos
<1>2. TypeOK
  BY <1>1 DEF TypeOK, Phases
<1>3. NetInv
  BY <1>1 DEF NetInv
<1>4. IdInv
  BY DEF IdInv
<1>5. ASSUME NEW u \in Uploaders PROVE RoundInv(u)
  BY <1>1 DEF RoundInv, Sent
<1> QED
  BY <1>2, <1>3, <1>4, <1>5 DEF Base

LEMMA BaseInvariance == Spec => []Base
BY BaseInit, BaseStep, PTL DEF Spec

\* The type invariant, for every set of uploaders and every source history.
THEOREM UploaderTypeCorrect == Spec => []TypeOK
<1>1. Base => TypeOK
  BY DEF Base
<1> QED
  BY BaseInvariance, <1>1, PTL

-------------------------------------------------------------------------------
(* Reading one's own writes. *)

\* Within a round neither the epoch in hand nor min_lt changes.
LEMMA RoundFrame ==
  ASSUME TypeOK, NEW u \in Uploaders, StepOf(u)
  PROVE  \/ pc'[u] = "idle"
         \/ pc[u] # "idle" /\ min_lt'[u] = min_lt[u] /\ epoch'[u] = epoch[u]
         \/ \E d \in states : ReadBridge(u, d)
<1> USE DEF TypeOK, mem, locals, kept
<1>1. EndRound(u) => pc'[u] = "idle"
  BY DEF EndRound
<1>2. CASE Fail(u) \/ Crash(u) \/ Confirm(u)
  BY <1>1, <1>2 DEF Fail, Crash, Confirm
<1>3. CASE \E s \in 1..src_head : Latest(u, s)
  BY <1>3 DEF Latest, Goto
<1>4. CASE Walk(u)
  BY <1>1, <1>4 DEF Walk
<1>5. CASE \/ FindLibraryError(u)
           \/ \E d \in states : FindLibrary(u, d) \/ AwaitLib(u, d) \/ ReadBridgeLt(u, d)
  BY <1>5 DEF FindLibrary, FindLibraryError, AwaitLib, ReadBridgeLt, Goto
<1>6. CASE SendDeploy(u) \/ SendKeyBlock(u)
  BY <1>1, <1>6 DEF SendDeploy, SendKeyBlock, Post
<1>7. CASE DeploySent(u) \/ KeyBlockSent(u)
  BY <1>1, <1>7 DEF DeploySent, KeyBlockSent, Outcome
<1> QED
  BY <1>2, <1>3, <1>4, <1>5, <1>6, <1>7 DEF StepOf, Round

\* A new transaction of the bridge is later than everything.
LEMMA TxFrame == ASSUME Base, [Next]_vars
                 PROVE  \A t \in txs' : t \in txs \/ t.lt = dst.lt + 1
<1>1. ASSUME NEW m \in mempool, Execute(m) \/ ExecuteUnfunded(m) \/ Lose(m) PROVE txs' = txs
  BY <1>1 DEF Execute, ExecuteUnfunded, Lose
<1>2. ASSUME NEW m \in queue, DeployLib(m) PROVE txs' = txs
  BY <1>2 DEF DeployLib
<1>3. ASSUME NEW m \in queue, BridgeReceive(m)
      PROVE  \A t \in txs' : t \in txs \/ t.lt = dst.lt + 1
  BY <1>3 DEF BridgeReceive
<1>4. CASE NewKeyBlock \/ Funding \/ UNCHANGED vars
  BY <1>4 DEF NewKeyBlock, Funding, Drain, TopUp, vars
<1>5. ASSUME NEW u \in Uploaders, StepOf(u) PROVE txs' = txs
  BY <1>5, UploaderFrame
<1> QED
  BY <1>1, <1>2, <1>3, <1>4, <1>5 DEF Next, NetworkNext, StepOf

LEMMA ReadsStep == ASSUME Base, ReadsOwnWrites, [Next]_vars PROVE ReadsOwnWrites'
<1> SUFFICES ASSUME NEW v \in Uploaders, pc'[v] # "idle",
                    NEW t \in txs', t.ok, t.lt <= min_lt'[v]
             PROVE  epoch'[v] >= Epoch[t.block]
  BY DEF ReadsOwnWrites
<1>1. /\ dst.lt \in Nat /\ min_lt[v] \in Nat /\ min_lt[v] <= dst.lt
  BY DEF Base, TypeOK, DstState, RoundInv
<1>2. CASE Same(v)
  <2>1. t \in txs
    BY <1>1, <1>2, TxFrame DEF Same
  <2> QED
    BY <1>2, <2>1 DEF Same, ReadsOwnWrites
<1>3. CASE StepOf(v)
  <2>1. t \in txs
    BY <1>3, UploaderFrame
  <2>2. ASSUME NEW d \in states, ReadBridge(v, d) PROVE epoch'[v] >= Epoch[t.block]
    <3>1. epoch'[v] = d.epoch /\ min_lt' = min_lt /\ d.lt >= min_lt[v]
      BY <2>2 DEF ReadBridge, RecentEnough, Base, TypeOK, kept
    <3>2. t.lt \in Nat /\ d.lt \in Nat /\ Epoch[t.block] \in Nat /\ d.epoch \in Nat
      BY <2>1, ConstTypes DEF Base, TypeOK, BridgeTx, DstState
    <3>3. t.lt <= d.lt
      BY <1>1, <3>1, <3>2
    <3> QED
      BY <2>1, <3>1, <3>2, <3>3 DEF Base, NetInv
  <2> QED
    BY <1>3, <2>1, <2>2, RoundFrame DEF Base, ReadsOwnWrites
<1> QED
  BY <1>2, <1>3, NetworkFrame, LocalFrame DEF Next, StepOf, Base, vars, Same

\* A round never works on an epoch older than one whose acceptance the uploader
\* has already seen, however far the nodes lag (min_bridge_state_lt).
THEOREM ReadsOwnWritesHolds == Spec => []ReadsOwnWrites
<1>1. Init => ReadsOwnWrites
  BY DEF Init, ReadsOwnWrites
<1>2. Base /\ ReadsOwnWrites /\ [Next]_vars => ReadsOwnWrites'
  BY ReadsStep
<1> QED
  BY <1>1, <1>2, BaseInvariance, PTL DEF Spec

-------------------------------------------------------------------------------
(* What is sent. *)

\* Where messages in flight come from.
LEMMA MessageFrame ==
  ASSUME [Next]_vars, NEW m \in (mempool \cup queue)'
  PROVE  \/ m \in mempool \cup queue
         \/ \E u \in Uploaders : /\ m.id = next_id /\ m.block = cand[u]
                                 /\ m.kind = "lib" => pc[u] = "deploy"
                                 /\ m.kind = "key" => pc[u] = "send"
<1>1. ASSUME NEW n \in mempool, Execute(n) \/ ExecuteUnfunded(n) \/ Lose(n)
      PROVE  m \in mempool \cup queue
  BY <1>1 DEF Execute, ExecuteUnfunded, Lose
<1>2. ASSUME NEW n \in queue, DeployLib(n) \/ BridgeReceive(n) PROVE m \in mempool \cup queue
  BY <1>2 DEF DeployLib, BridgeReceive
<1>3. CASE NewKeyBlock \/ Funding \/ UNCHANGED vars
  BY <1>3 DEF NewKeyBlock, Funding, Drain, TopUp, vars
<1>4. ASSUME NEW u \in Uploaders, StepOf(u), m \notin mempool \cup queue
      PROVE  /\ m.id = next_id /\ m.block = cand[u]
             /\ m.kind = "lib" => pc[u] = "deploy"
             /\ m.kind = "key" => pc[u] = "send"
  <2>1. queue' = queue /\ m \in mempool' \ mempool
    BY <1>4, UploaderFrame
  <2>2. PICK kind \in {"lib", "key"} :
          /\ m = [id |-> next_id, by |-> u, kind |-> kind, block |-> cand[u]]
          /\ pc[u] = (IF kind = "lib" THEN "deploy" ELSE "send")
    BY <1>4, <2>1, PostFrame
  <2> QED
    BY <2>2
<1> QED
  BY <1>1, <1>2, <1>3, <1>4 DEF Next, NetworkNext, StepOf

LEMMA SentStep == ASSUME Base, SentInOrder, [Next]_vars PROVE SentInOrder'
<1> SUFFICES ASSUME NEW m \in (mempool \cup queue)', m.kind = "key"
             PROVE  SignedByPrev(m.block) /\ Epoch[m.block - 1] <= dst'.epoch
  BY DEF SentInOrder, SignedByPrev
<1>1. SignedByPrev(m.block) /\ Epoch[m.block - 1] <= dst.epoch
  BY MessageFrame DEF SentInOrder, Base, RoundInv, Sent
<1>2. m.block \in Seqnos
  BY BaseStep DEF Base, TypeOK, Message
<1>3. Epoch[m.block - 1] \in Nat
  BY <1>1, <1>2, ConstTypes DEF SignedByPrev, Seqnos
<1>4. dst \in DstState /\ dst' \in DstState
  BY BaseStep DEF Base, TypeOK
<1>5. dst.epoch \in Nat /\ dst'.epoch \in Nat
  BY <1>4 DEF DstState
<1> QED
  BY <1>1, <1>3, <1>5, DstGrows DEF Base

\* Only the first block of the next epoch is ever sent, and only once the bridge
\* has reached the epoch before it (find_next_key_block).
THEOREM SentInOrderHolds == Spec => []SentInOrder
<1>1. Init => SentInOrder
  BY DEF Init, SentInOrder
<1>2. Base /\ SentInOrder /\ [Next]_vars => SentInOrder'
  BY SentStep
<1> QED
  BY <1>1, <1>2, BaseInvariance, PTL DEF Spec

-------------------------------------------------------------------------------
(* The answer that is awaited. *)

Delivering == {"deploying", "await_lib"}
Sending == {"sending", "confirm"}

\* An id names one message, which executes once.
IdsOnce ==
  /\ \A m, n \in mempool : m.id = n.id => m = n
  /\ \A m \in mempool : m.id \notin executed

\* An executed message has come to what it was for, is about to, or was not paid for.
OnItsWay(u) ==
  LET sent == \E m \in queue : m.id = msg[u] IN
  /\ pc[u] \in Delivering =>
       /\ msg[u] < next_id
       /\ \A m \in mempool \cup queue : m.id = msg[u] => m.kind = "lib"
       /\ msg[u] \in executed => sent \/ msg[u] \in dst.addrs \cup unfunded
       /\ pc[u] = "await_lib" => msg[u] \in executed
  /\ pc[u] \in Sending =>
       /\ msg[u] < next_id
       /\ \A m \in mempool \cup queue : m.id = msg[u] => m.kind = "key"
       /\ msg[u] \in executed \ unfunded =>
            sent \/ \E t \in txs : t.id = msg[u] /\ t.lt > bridge_lt[u]
       /\ pc[u] = "confirm" => msg[u] \in executed \ unfunded

AnswerInv == IdsOnce /\ \A u \in Uploaders : OnItsWay(u)

\* An id leaves its uploader's hands only as the next one, and bridge_lt stays.
LEMMA AwaitedFrame ==
  ASSUME TypeOK, NEW u \in Uploaders, StepOf(u), pc'[u] \in Delivering \cup Sending
  PROVE  \/ /\ msg'[u] = next_id /\ next_id' = next_id + 1
            /\ \/ /\ pc'[u] = "deploying"
                  /\ \A m \in mempool' \ mempool : m.kind = "lib"
               \/ /\ pc'[u] = "sending"
                  /\ \A m \in mempool' \ mempool : m.kind = "key"
         \/ /\ msg'[u] = msg[u] /\ bridge_lt'[u] = bridge_lt[u]
            /\ UNCHANGED <<mempool, next_id>>
            /\ \/ /\ pc[u] \in Delivering /\ pc'[u] \in Delivering
                  /\ pc'[u] = "await_lib" => pc[u] = "await_lib" \/ msg[u] \in executed
               \/ /\ pc[u] \in Sending /\ pc'[u] \in Sending
                  /\ pc'[u] = "confirm" =>
                       pc[u] = "confirm" \/ msg[u] \in executed \ unfunded
<1> USE DEF TypeOK, mem, locals, kept, Delivering, Sending
<1>1. EndRound(u) => pc'[u] = "idle"
  BY DEF EndRound
<1>2. CASE Fail(u) \/ Crash(u) \/ Confirm(u)
  BY <1>1, <1>2 DEF Fail, Crash, Confirm
<1>3. CASE Walk(u)
  BY <1>1, <1>3 DEF Walk
<1>4. CASE \/ FindLibraryError(u)
           \/ \E s \in 1..src_head : Latest(u, s)
           \/ \E d \in states : \/ ReadBridge(u, d) \/ FindLibrary(u, d)
                                \/ AwaitLib(u, d) \/ ReadBridgeLt(u, d)
  BY <1>4 DEF Latest, ReadBridge, FindLibrary, FindLibraryError, AwaitLib, ReadBridgeLt, Goto
<1>5. CASE SendDeploy(u)
  <2>1. /\ pc'[u] = "deploying" /\ msg'[u] = next_id /\ next_id' = next_id + 1
        /\ mempool' = mempool \cup {[id |-> next_id, by |-> u, kind |-> "lib",
                                     block |-> cand[u]]}
    BY <1>1, <1>5 DEF SendDeploy, Post
  <2> QED
    BY <2>1
<1>6. CASE SendKeyBlock(u)
  <2>1. /\ pc'[u] = "sending" /\ msg'[u] = next_id /\ next_id' = next_id + 1
        /\ mempool' = mempool \cup {[id |-> next_id, by |-> u, kind |-> "key",
                                     block |-> cand[u]]}
    BY <1>1, <1>6 DEF SendKeyBlock, Post
  <2> QED
    BY <2>1
<1>7. CASE DeploySent(u)
  BY <1>1, <1>7 DEF DeploySent, Outcome, net
<1>8. CASE KeyBlockSent(u)
  BY <1>1, <1>8 DEF KeyBlockSent, Outcome, net
<1> QED
  BY <1>2, <1>3, <1>4, <1>5, <1>6, <1>7, <1>8 DEF StepOf, Round

LEMMA IdsStep == ASSUME Base, IdsOnce, [Next]_vars PROVE IdsOnce'
<1>1. /\ next_id \in Nat /\ \A m \in mempool : m.id \in Nat /\ m.id < next_id
      /\ \A i \in executed : i \in Nat /\ i < next_id
  BY DEF Base, TypeOK, IdInv, Message
<1>2. ASSUME NEW n \in mempool, Execute(n) \/ ExecuteUnfunded(n) \/ Lose(n) PROVE IdsOnce'
  BY <1>2 DEF IdsOnce, Execute, ExecuteUnfunded, Lose
<1>3. ASSUME UNCHANGED <<mempool, executed>> PROVE IdsOnce'
  BY <1>3 DEF IdsOnce
<1>4. ASSUME NEW u \in Uploaders, StepOf(u) PROVE IdsOnce'
  <2>1. executed' = executed
    BY <1>4, UploaderFrame
  <2>2. CASE mempool' = mempool
    BY <1>3, <2>1, <2>2
  <2>3. ASSUME NEW m, m.id = next_id, mempool' = mempool \cup {m} PROVE IdsOnce'
    <3>1. next_id \notin executed /\ \A n \in mempool : n.id # next_id
      BY <1>1
    <3> QED
      BY <2>1, <2>3, <3>1 DEF IdsOnce
  <2>4. mempool' = mempool \/ \E m : m.id = next_id /\ mempool' = mempool \cup {m}
    <3>1. ASSUME NEW kind, mempool' \in {mempool, mempool \cup
                   {[id |-> next_id, by |-> u, kind |-> kind, block |-> cand[u]]}}
          PROVE  mempool' = mempool \/ \E m : m.id = next_id /\ mempool' = mempool \cup {m}
      <4> DEFINE m == [id |-> next_id, by |-> u, kind |-> kind, block |-> cand[u]]
      <4>1. m.id = next_id
        OBVIOUS
      <4>2. mempool' = mempool \/ mempool' = mempool \cup {m}
        BY <3>1
      <4> HIDE DEF m
      <4> QED
        BY <4>1, <4>2
    <3> QED
      BY <1>4, <3>1, PostFrame
  <2> QED
    BY <2>2, <2>3, <2>4
<1> QED
  BY <1>2, <1>3, <1>4 DEF Next, NetworkNext, StepOf, vars, NewKeyBlock, Funding, Drain, TopUp,
       DeployLib, BridgeReceive

\* What the networks do to a message brings its answer nearer.
LEMMA NetworkAnswer ==
  ASSUME Base, AnswerInv, NetworkNext, NEW v \in Uploaders, Same(v)
  PROVE  OnItsWay(v)'
<1> USE DEF AnswerInv, OnItsWay, Same
<1>1. CASE NewKeyBlock \/ Funding
  BY <1>1 DEF NewKeyBlock, Funding, Drain, TopUp
<1>2. ASSUME NEW m \in mempool, Execute(m) PROVE OnItsWay(v)'
  BY <1>2 DEF Execute, Delivering, Sending
<1>3. ASSUME NEW m \in mempool, ExecuteUnfunded(m) PROVE OnItsWay(v)'
  <2>1. /\ mempool' \subseteq mempool /\ m.id \notin executed
        /\ executed' = executed \cup {m.id} /\ unfunded' = unfunded \cup {m.id}
        /\ UNCHANGED <<queue, dst, txs, next_id>>
    BY <1>3 DEF ExecuteUnfunded, IdsOnce
  <2> QED
    BY <2>1 DEF Delivering, Sending
<1>4. ASSUME NEW m \in mempool, Lose(m) PROVE OnItsWay(v)'
  BY <1>4 DEF Lose, Delivering, Sending
<1>5. ASSUME NEW m \in queue, DeployLib(m) PROVE OnItsWay(v)'
  <2>1. /\ dst'.addrs = dst.addrs \cup {m.id} /\ m.kind = "lib" /\ queue' = queue \ {m}
        /\ UNCHANGED <<mempool, executed, unfunded, txs, next_id>>
    BY <1>5 DEF DeployLib, Base, TypeOK, DstState
  <2> QED
    BY <2>1 DEF Delivering, Sending
<1>6. ASSUME NEW m \in queue, BridgeReceive(m) PROVE OnItsWay(v)'
  <2>1. /\ dst'.addrs = dst.addrs /\ m.kind = "key" /\ queue' = queue \ {m}
        /\ txs \subseteq txs' /\ UNCHANGED <<mempool, executed, unfunded, next_id>>
    BY <1>6 DEF BridgeReceive, Base, TypeOK, DstState
  <2>2. \E t \in txs' : t.id = m.id /\ t.lt = dst.lt + 1
    <3> DEFINE t0 == [lt |-> dst.lt + 1, id |-> m.id, by |-> m.by, block |-> m.block,
                      ok |-> Accepts(m.block), lib |-> Epoch[m.block] \in dst.libs]
    <3>1. t0 \in txs'
      BY <1>6 DEF BridgeReceive
    <3>2. t0.id = m.id /\ t0.lt = dst.lt + 1
      OBVIOUS
    <3> HIDE DEF t0
    <3> QED
      BY <3>1, <3>2
  <2>3. dst.lt \in Nat /\ bridge_lt[v] \in Nat /\ bridge_lt[v] <= dst.lt
    BY DEF Base, TypeOK, DstState, RoundInv
  <2>4. \E t \in txs' : t.id = m.id /\ t.lt > bridge_lt[v]
    BY <2>2, <2>3
  <2> QED
    BY <2>1, <2>4 DEF Delivering, Sending
<1> QED
  BY <1>1, <1>2, <1>3, <1>4, <1>5, <1>6 DEF NetworkNext

LEMMA AnswerStep == ASSUME Base, AnswerInv, [Next]_vars PROVE AnswerInv'
<1>1. /\ next_id \in Nat /\ \A m \in mempool \cup queue : m.id \in Nat /\ m.id < next_id
      /\ \A i \in executed : i \in Nat /\ i < next_id
      /\ \A u \in Uploaders : msg[u] \in Nat
  BY DEF Base, TypeOK, IdInv, Message
<1>2. ASSUME NEW v \in Uploaders, NEW u \in Uploaders, u # v, StepOf(u), Same(v)
      PROVE  OnItsWay(v)'
  <2>1. UNCHANGED <<dst, txs, queue, executed, unfunded>>
    BY <1>2, UploaderFrame
  <2>2. next_id' \in {next_id, next_id + 1}
    BY <1>2, PostFrame
  <2>3. \A m \in mempool' : m \in mempool \/ m.id = next_id
    BY <1>2, PostFrame
  <2> QED
    BY <1>1, <1>2, <2>1, <2>2, <2>3 DEF AnswerInv, OnItsWay, Same
<1>3. ASSUME NEW v \in Uploaders, StepOf(v) PROVE OnItsWay(v)'
  <2>1. UNCHANGED <<dst, txs, queue, executed, unfunded>>
    BY <1>3, UploaderFrame
  <2>2. CASE pc'[v] \notin Delivering \cup Sending
    BY <2>2 DEF OnItsWay
  <2>3. CASE /\ msg'[v] = next_id /\ next_id' = next_id + 1
             /\ \/ /\ pc'[v] = "deploying"
                   /\ \A m \in mempool' \ mempool : m.kind = "lib"
                \/ /\ pc'[v] = "sending"
                   /\ \A m \in mempool' \ mempool : m.kind = "key"
    <3>1. next_id \notin executed /\ \A m \in mempool \cup queue : m.id # next_id
      BY <1>1
    <3>2. next_id < next_id'
      BY <1>1, <2>3
    <3> QED
      BY <2>1, <2>3, <3>1, <3>2 DEF OnItsWay, Delivering, Sending
  <2>4. CASE /\ msg'[v] = msg[v] /\ bridge_lt'[v] = bridge_lt[v]
             /\ UNCHANGED <<mempool, next_id>>
             /\ \/ /\ pc[v] \in Delivering /\ pc'[v] \in Delivering
                   /\ pc'[v] = "await_lib" => pc[v] = "await_lib" \/ msg[v] \in executed
                \/ /\ pc[v] \in Sending /\ pc'[v] \in Sending
                   /\ pc'[v] = "confirm" =>
                        pc[v] = "confirm" \/ msg[v] \in executed \ unfunded
    BY <2>1, <2>4 DEF AnswerInv, OnItsWay, Delivering, Sending
  <2> QED
    BY <1>3, <2>2, <2>3, <2>4, AwaitedFrame DEF Base
<1>4. CASE UNCHANGED vars
  BY <1>4 DEF vars, AnswerInv, IdsOnce, OnItsWay
<1>5. ASSUME NEW v \in Uploaders, Next PROVE OnItsWay(v)'
  <2>1. CASE NetworkNext
    BY <2>1, NetworkFrame, NetworkAnswer
  <2>2. ASSUME NEW u \in Uploaders, StepOf(u) PROVE OnItsWay(v)'
    BY <1>2, <1>3, <2>2, LocalFrame DEF Base
  <2> QED
    BY <1>5, <2>1, <2>2 DEF Next, StepOf
<1> QED
  BY <1>4, <1>5, IdsStep DEF AnswerInv

\* What is awaited without a time limit is on its way: the bridge's transaction
\* lies in the queue or after the bridge_lt read for it, the library is queued or
\* deployed, unless the wallet could not pay for it (send_key_block looks at the
\* wallet's outbound messages, deploy_vset_lib does not).
THEOREM AnswerOnItsWayHolds == Spec => []AnswerOnItsWay
<1>1. Init => AnswerInv
  BY DEF Init, AnswerInv, IdsOnce, OnItsWay, Delivering, Sending
<1>2. Base /\ AnswerInv /\ [Next]_vars => AnswerInv'
  BY AnswerStep
<1>3. AnswerInv => AnswerOnItsWay
  BY DEF AnswerInv, OnItsWay, AnswerOnItsWay, Delivering, Sending
<1> QED
  BY <1>1, <1>2, <1>3, BaseInvariance, PTL DEF Spec

-------------------------------------------------------------------------------
(* The library comes first. *)

\* Libraries stay, and an account that appears holds the data it was sent.
LEMMA LibsGrow ==
  ASSUME TypeOK, [Next]_vars
  PROVE  /\ dst.libs \subseteq dst'.libs
         /\ \A i \in dst'.addrs \ dst.addrs :
              \E m \in queue : m.id = i /\ Epoch[m.block] \in dst'.libs
<1> DEFINE Goal == /\ dst.libs \subseteq dst'.libs
                   /\ \A i \in dst'.addrs \ dst.addrs :
                        \E m \in queue : m.id = i /\ Epoch[m.block] \in dst'.libs
<1>1. CASE dst' = dst
  BY <1>1
<1>2. ASSUME NEW m \in queue, DeployLib(m) PROVE Goal
  <2>1. /\ dst'.libs = dst.libs \cup {Epoch[m.block]}
        /\ dst'.addrs = dst.addrs \cup {m.id}
    BY <1>2 DEF DeployLib, TypeOK, DstState
  <2> QED
    BY <2>1
<1>3. ASSUME NEW m \in queue, BridgeReceive(m) PROVE Goal
  <2>1. dst'.libs = dst.libs /\ dst'.addrs = dst.addrs
    BY <1>3 DEF BridgeReceive, TypeOK, DstState
  <2> QED
    BY <2>1
<1>4. CASE \/ NewKeyBlock \/ Funding \/ UNCHANGED vars
           \/ \E m \in mempool : Execute(m) \/ ExecuteUnfunded(m) \/ Lose(m)
  BY <1>1, <1>4 DEF NewKeyBlock, Funding, Drain, TopUp, Execute, ExecuteUnfunded, Lose, vars
<1>5. ASSUME NEW u \in Uploaders, StepOf(u) PROVE Goal
  BY <1>1, <1>5, UploaderFrame
<1> QED
  BY <1>2, <1>3, <1>4, <1>5 DEF Next, NetworkNext, StepOf

\* The ways into the phases LibOf speaks of.
Holds == {"submit", "send"}
Awaits == {"deploying", "await_lib"}

LEMMA LibFrame ==
  ASSUME TypeOK, NEW u \in Uploaders, StepOf(u), pc'[u] \in Holds \cup Awaits
  PROVE  /\ cand'[u] = cand[u]
         /\ \/ pc[u] \in Holds /\ pc'[u] \in Holds
            \/ /\ pc[u] \in Awaits /\ pc'[u] \in Awaits
               /\ msg'[u] = msg[u] /\ UNCHANGED <<mempool, next_id>>
            \/ /\ pc'[u] = "submit"
               /\ \E d \in states : \/ Epoch[cand[u]] \in d.libs
                                    \/ pc[u] = "await_lib" /\ msg[u] \in d.addrs
            \/ /\ pc'[u] = "deploying" /\ msg'[u] = next_id /\ next_id' = next_id + 1
               /\ \A m \in mempool' \ mempool : m.block = cand[u]
<1> USE DEF TypeOK, mem, locals, kept, Holds, Awaits
<1>1. EndRound(u) => pc'[u] = "idle"
  BY DEF EndRound
<1>2. CASE Fail(u) \/ Crash(u) \/ Confirm(u)
  BY <1>1, <1>2 DEF Fail, Crash, Confirm
<1>3. CASE Walk(u)
  BY <1>1, <1>3 DEF Walk
<1>4. CASE \/ FindLibraryError(u)
           \/ \E s \in 1..src_head : Latest(u, s)
           \/ \E d \in states : ReadBridge(u, d)
  BY <1>4 DEF Latest, ReadBridge, FindLibraryError, Goto
<1>5. ASSUME NEW d \in states, FindLibrary(u, d)
      PROVE  /\ cand'[u] = cand[u] /\ pc'[u] = "submit" /\ Epoch[cand[u]] \in d.libs
  BY <1>5 DEF FindLibrary, Goto
<1>6. ASSUME NEW d \in states, AwaitLib(u, d)
      PROVE  /\ cand'[u] = cand[u] /\ pc'[u] = "submit"
             /\ pc[u] = "await_lib" /\ msg[u] \in d.addrs
  BY <1>6 DEF AwaitLib, Goto
<1>7. ASSUME NEW d \in states, ReadBridgeLt(u, d)
      PROVE  cand'[u] = cand[u] /\ pc[u] = "submit" /\ pc'[u] = "send"
  BY <1>7 DEF ReadBridgeLt, Goto
<1>8. CASE SendDeploy(u)
  <2>1. /\ pc'[u] = "deploying" /\ cand' = cand /\ msg'[u] = next_id
        /\ next_id' = next_id + 1
        /\ mempool' = mempool \cup {[id |-> next_id, by |-> u, kind |-> "lib",
                                     block |-> cand[u]]}
    BY <1>1, <1>8 DEF SendDeploy, Post
  <2> QED
    BY <2>1
<1>9. CASE SendKeyBlock(u) \/ KeyBlockSent(u)
  BY <1>1, <1>9 DEF SendKeyBlock, KeyBlockSent, Post, Outcome
<1>10. CASE DeploySent(u)
  BY <1>1, <1>10 DEF DeploySent, Outcome, net
<1> QED
  BY <1>2, <1>3, <1>4, <1>5, <1>6, <1>7, <1>8, <1>9, <1>10 DEF StepOf, Round

LEMMA LibStep == ASSUME Base, LibInv, [Next]_vars PROVE LibInv'
<1>1. /\ next_id \in Nat
      /\ \A m \in mempool \cup queue : m.id \in Nat /\ m.id < next_id
      /\ \A i \in dst.addrs : i \in Nat /\ i < next_id
      /\ \A u \in Uploaders : msg[u] \in Nat
  BY DEF Base, TypeOK, IdInv, Message, DstState
<1>2. next_id' \in Nat /\ next_id' >= next_id
  <2>1. ASSUME NEW u \in Uploaders, StepOf(u) PROVE next_id' \in {next_id, next_id + 1}
    BY <2>1, PostFrame
  <2>2. CASE NewKeyBlock \/ Funding \/ UNCHANGED vars
    BY <1>1, <2>2 DEF NewKeyBlock, Funding, Drain, TopUp, vars
  <2>3. ASSUME NEW m \in mempool, Execute(m) \/ ExecuteUnfunded(m) \/ Lose(m)
        PROVE  next_id' = next_id
    BY <2>3 DEF Execute, ExecuteUnfunded, Lose
  <2>4. ASSUME NEW m \in queue, DeployLib(m) \/ BridgeReceive(m) PROVE next_id' = next_id
    BY <2>4 DEF DeployLib, BridgeReceive
  <2> QED
    BY <1>1, <2>1, <2>2, <2>3, <2>4 DEF Next, NetworkNext, StepOf
<1>3. dst.libs \subseteq dst'.libs
  BY LibsGrow DEF Base
<1>4. ASSUME NEW v \in Uploaders, Same(v) PROVE LibOf(v)'
  <2>1. CASE pc[v] \notin Awaits
    BY <1>3, <1>4, <2>1 DEF LibInv, LibOf, Same, Awaits
  <2>2. CASE pc[v] \in Awaits
    <3>1. msg[v] < next_id
      BY <2>2 DEF LibInv, LibOf, Awaits
    <3>2. ASSUME NEW m \in (mempool \cup queue)', m.id = msg[v] PROVE m.block = cand[v]
      <4>1. m \in mempool \cup queue
        BY <1>1, <3>1, <3>2, MessageFrame
      <4> QED
        BY <2>2, <3>2, <4>1 DEF LibInv, LibOf, Awaits
    <3>3. ASSUME msg[v] \in dst'.addrs PROVE Epoch[cand[v]] \in dst'.libs
      <4>1. CASE msg[v] \in dst.addrs
        BY <1>3, <2>2, <4>1 DEF LibInv, LibOf, Awaits
      <4>2. CASE msg[v] \notin dst.addrs
        <5>1. PICK m \in queue : m.id = msg[v] /\ Epoch[m.block] \in dst'.libs
          BY <3>3, <4>2, LibsGrow DEF Base
        <5>2. m.block = cand[v]
          BY <2>2, <5>1 DEF LibInv, LibOf, Awaits
        <5> QED
          BY <5>1, <5>2
      <4> QED
        BY <4>1, <4>2
    <3>4. msg[v] < next_id'
      BY <1>1, <1>2, <3>1
    <3> QED
      BY <1>4, <2>2, <3>2, <3>3, <3>4 DEF LibOf, Same, Awaits
  <2> QED
    BY <2>1, <2>2
<1>5. ASSUME NEW v \in Uploaders, StepOf(v) PROVE LibOf(v)'
  <2>1. dst' = dst /\ queue' = queue
    BY <1>5, UploaderFrame
  <2>2. CASE pc'[v] \notin Holds \cup Awaits
    BY <2>2 DEF LibOf, Holds, Awaits
  <2>3. CASE pc[v] \in Holds /\ pc'[v] \in Holds /\ cand'[v] = cand[v]
    BY <2>1, <2>3 DEF LibInv, LibOf, Holds
  <2>4. CASE /\ pc[v] \in Awaits /\ pc'[v] \in Awaits /\ cand'[v] = cand[v]
             /\ msg'[v] = msg[v] /\ UNCHANGED <<mempool, next_id>>
    BY <2>1, <2>4 DEF LibInv, LibOf, Awaits
  <2>5. CASE /\ pc'[v] = "submit" /\ cand'[v] = cand[v]
             /\ \E d \in states : \/ Epoch[cand[v]] \in d.libs
                                  \/ pc[v] = "await_lib" /\ msg[v] \in d.addrs
    <3>1. Epoch[cand[v]] \in dst.libs \/ (pc[v] = "await_lib" /\ msg[v] \in dst.addrs)
      BY <2>5 DEF Base, NetInv
    <3>2. Epoch[cand[v]] \in dst.libs
      BY <3>1 DEF LibInv, LibOf
    <3> QED
      BY <2>1, <2>5, <3>2 DEF LibOf
  <2>6. CASE /\ pc'[v] = "deploying" /\ msg'[v] = next_id /\ next_id' = next_id + 1
             /\ cand'[v] = cand[v] /\ \A m \in mempool' \ mempool : m.block = cand[v]
    <3>1. ASSUME NEW m \in (mempool \cup queue)', m.id = next_id PROVE m.block = cand[v]
      <4>1. m \notin mempool \cup queue
        BY <1>1, <3>1
      <4> QED
        BY <2>1, <2>6, <4>1
    <3>2. next_id \notin dst'.addrs
      BY <1>1, <2>1
    <3> QED
      BY <1>1, <2>6, <3>1, <3>2 DEF LibOf
  <2> QED
    BY <1>5, <2>2, <2>3, <2>4, <2>5, <2>6, LibFrame DEF Base
<1>6. ASSUME NEW v \in Uploaders PROVE LibOf(v)'
  BY <1>4, <1>5, NetworkFrame, LocalFrame DEF Next, StepOf, Base, vars, Same
<1>7. ASSUME NEW m \in (mempool \cup queue)', m.kind = "key"
      PROVE  Epoch[m.block] \in dst'.libs
  BY <1>3, <1>7, MessageFrame DEF LibInv, LibOf
<1> QED
  BY <1>6, <1>7 DEF LibInv

\* The bridge is never asked for a validator set whose library is not deployed
\* (send_key_block deploys it and waits for its account).
THEOREM LibraryFirstHolds == Spec => []LibraryFirst
<1>1. Init => LibInv /\ LibraryFirst
  BY DEF Init, LibInv, LibOf, LibraryFirst
<1>2. ASSUME Base, LibInv, LibraryFirst, [Next]_vars PROVE LibraryFirst'
  <2>1. ASSUME NEW m \in queue, BridgeReceive(m) PROVE LibraryFirst'
    <3>1. m.kind = "key" /\ Epoch[m.block] \in dst.libs
      BY <1>2, <2>1 DEF BridgeReceive, LibInv
    <3> DEFINE t0 == [lt |-> dst.lt + 1, id |-> m.id, by |-> m.by, block |-> m.block,
                      ok |-> Accepts(m.block), lib |-> Epoch[m.block] \in dst.libs]
    <3>2. txs' = txs \cup {t0}
      BY <2>1 DEF BridgeReceive
    <3>3. t0.lib = (Epoch[m.block] \in dst.libs)
      OBVIOUS
    <3>4. t0.lib
      BY <3>1, <3>3
    <3> HIDE DEF t0
    <3> QED
      BY <1>2, <3>2, <3>4, Zenon DEF LibraryFirst
  <2>2. CASE txs' = txs
    BY <1>2, <2>2 DEF LibraryFirst
  <2>3. CASE \/ NewKeyBlock \/ Funding \/ UNCHANGED vars
             \/ \E m \in mempool : Execute(m) \/ ExecuteUnfunded(m) \/ Lose(m)
             \/ \E m \in queue : DeployLib(m)
    BY <2>2, <2>3 DEF NewKeyBlock, Funding, Drain, TopUp, Execute, ExecuteUnfunded, Lose,
         DeployLib, vars
  <2> QED
    BY <1>2, <2>1, <2>2, <2>3, UploaderFrame DEF Next, NetworkNext, StepOf
<1>3. Base /\ LibInv /\ [Next]_vars => LibInv'
  BY LibStep
<1> QED
  BY <1>1, <1>2, <1>3, BaseInvariance, PTL DEF Spec

-------------------------------------------------------------------------------
(* Messages from the wallet to the bridge's transactions. *)

\* A message is in one place, and what has arrived was executed and paid for.
MailInv ==
  /\ unfunded \subseteq executed
  /\ \A m \in queue : m.id \in executed \ unfunded
  /\ \A t \in txs : t.id \in executed \ unfunded
  /\ \A m, n \in queue : m.id = n.id => m = n
  /\ \A t \in txs, m \in queue : t.id # m.id
  /\ \A s, t \in txs : s.id = t.id => s = t

\* The key block u waits for is the one it has in hand, and its last one.
FlightInv(u) ==
  pc[u] \in Sending =>
    /\ \A m \in mempool \cup queue :
         m.id = msg[u] => m.kind = "key" /\ m.by = u /\ m.block = cand[u]
    /\ \A t \in txs : t.id = msg[u] => t.by = u /\ t.block = cand[u] /\ t.lt > min_lt[u]
    /\ \A m \in mempool \cup queue : m.by = u => m.id <= msg[u]
    /\ \A t \in txs : t.by = u => t.id <= msg[u]

\* The bridge has taken a block of every epoch it has been through, and has
\* reached the epoch of whatever it was sent.
BridgeInv ==
  /\ IsFiniteSet(txs)
  /\ \A t \in txs : SignedByPrev(t.block)
  /\ \A t \in txs, d \in states : t.lt <= d.lt => Epoch[t.block] <= d.epoch
  /\ \A e \in Epoch[1] + 1..dst.epoch : \E t \in txs : t.ok /\ Epoch[t.block] = e

\* The epoch in hand was read from a state that was recent enough.
ViewInv(u) ==
  /\ pc[u] # "idle" => \E d \in states : d.lt >= min_lt[u] /\ d.epoch = epoch[u]
  /\ pc[u] \in Sent => Epoch[cand[u] - 1] = epoch[u]

Traffic ==
  /\ Base /\ AnswerInv /\ SentInOrder
  /\ MailInv /\ BridgeInv
  /\ \A u \in Uploaders : FlightInv(u) /\ ViewInv(u)

LEMMA MessageTypes ==
  ASSUME TypeOK
  PROVE  /\ next_id \in Nat /\ dst.lt \in Nat /\ dst.epoch \in Nat
         /\ \A m \in mempool \cup queue : m.id \in Nat /\ m.block \in Seqnos
                                          /\ m.by \in Uploaders /\ Epoch[m.block] \in Nat
         /\ \A t \in txs : /\ t.id \in Nat /\ t.lt \in Nat /\ t.block \in Seqnos
                           /\ t.by \in Uploaders /\ t.ok \in BOOLEAN /\ Epoch[t.block] \in Nat
         /\ \A d \in states : d.lt \in Nat /\ d.epoch \in Nat
         /\ \A u \in Uploaders : /\ msg[u] \in Nat /\ min_lt[u] \in Nat /\ epoch[u] \in Nat
                                 /\ faults[u] \in Nat
BY ConstTypes DEF TypeOK, DstState, Message, BridgeTx

\* What the bridge makes of a message, as one transaction.
LEMMA ReceiveFrame ==
  ASSUME Base, NEW m \in queue, BridgeReceive(m)
  PROVE  /\ m.kind = "key" /\ queue' = queue \ {m} /\ m \notin queue'
         /\ UNCHANGED <<mempool, executed, unfunded, next_id>>
         /\ dst'.lt = dst.lt + 1 /\ states' = states \cup {dst'}
         /\ dst'.epoch = IF Accepts(m.block) THEN Epoch[m.block] ELSE dst.epoch
         /\ \E t \in txs' : /\ txs' = txs \cup {t}
                            /\ t.lt = dst.lt + 1 /\ t.id = m.id /\ t.by = m.by
                            /\ t.block = m.block /\ t.ok = Accepts(m.block)
<1> DEFINE t0 == [lt |-> dst.lt + 1, id |-> m.id, by |-> m.by, block |-> m.block,
                  ok |-> Accepts(m.block), lib |-> Epoch[m.block] \in dst.libs]
<1>1. txs' = txs \cup {t0} /\ t0 \in txs'
  BY DEF BridgeReceive
<1>2. /\ t0.lt = dst.lt + 1 /\ t0.id = m.id /\ t0.by = m.by /\ t0.block = m.block
      /\ t0.ok = Accepts(m.block)
  OBVIOUS
<1>3. /\ dst'.lt = dst.lt + 1
      /\ dst'.epoch = IF Accepts(m.block) THEN Epoch[m.block] ELSE dst.epoch
  BY DEF BridgeReceive, Base, TypeOK, DstState
<1>4. /\ m.kind = "key" /\ queue' = queue \ {m} /\ states' = states \cup {dst'}
      /\ UNCHANGED <<mempool, executed, unfunded, next_id>>
  BY DEF BridgeReceive
<1> HIDE DEF t0
<1> QED
  BY <1>1, <1>2, <1>3, <1>4

LEMMA MailStep == ASSUME Base, IdsOnce, MailInv, [Next]_vars PROVE MailInv'
<1>1. ASSUME UNCHANGED <<queue, executed, unfunded, txs>> PROVE MailInv'
  BY <1>1 DEF MailInv
<1>2. ASSUME NEW m \in mempool, Execute(m) PROVE MailInv'
  <2>1. /\ queue' = queue \cup {m} /\ executed' = executed \cup {m.id}
        /\ UNCHANGED <<unfunded, txs>> /\ m.id \notin executed
    BY <1>2 DEF Execute, IdsOnce
  <2> QED
    BY <2>1 DEF MailInv
<1>3. ASSUME NEW m \in mempool, ExecuteUnfunded(m) PROVE MailInv'
  <2>1. /\ unfunded' = unfunded \cup {m.id} /\ executed' = executed \cup {m.id}
        /\ UNCHANGED <<queue, txs>> /\ m.id \notin executed
    BY <1>3 DEF ExecuteUnfunded, IdsOnce
  <2> QED
    BY <2>1 DEF MailInv
<1>4. ASSUME NEW m \in queue, DeployLib(m) PROVE MailInv'
  BY <1>4 DEF DeployLib, MailInv
<1>5. ASSUME NEW m \in queue, BridgeReceive(m) PROVE MailInv'
  <2>1. PICK t \in txs' : txs' = txs \cup {t} /\ t.id = m.id
    BY <1>5, ReceiveFrame
  <2>2. queue' = queue \ {m} /\ UNCHANGED <<executed, unfunded>>
    BY <1>5, ReceiveFrame
  <2> QED
    BY <2>1, <2>2 DEF MailInv
<1>6. CASE NewKeyBlock \/ Funding \/ UNCHANGED vars \/ \E m \in mempool : Lose(m)
  BY <1>1, <1>6 DEF NewKeyBlock, Funding, Drain, TopUp, vars, Lose
<1>7. ASSUME NEW u \in Uploaders, StepOf(u) PROVE MailInv'
  BY <1>1, <1>7, UploaderFrame
<1> QED
  BY <1>2, <1>3, <1>4, <1>5, <1>6, <1>7 DEF Next, NetworkNext, StepOf

\* The first key block of an epoch is the only one its predecessor has signed.
LEMMA FirstOfEpoch ==
  ASSUME NEW s \in Seqnos, NEW t \in Seqnos, SignedByPrev(s), SignedByPrev(t),
         Epoch[s] = Epoch[t]
  PROVE  s = t
<1>0. MaxSeqno \in Nat
  BY UploaderAssumption
<1>1. /\ s > 1 /\ s - 1 \in Seqnos /\ t > 1 /\ t - 1 \in Seqnos
      /\ Epoch[s - 1] + 1 = Epoch[s] /\ Epoch[t - 1] + 1 = Epoch[t]
  BY <1>0 DEF SignedByPrev, Seqnos
<1>2. Epoch[s] \in Nat /\ Epoch[s - 1] \in Nat /\ Epoch[t - 1] \in Nat
  BY <1>1, ConstTypes
<1>3. CASE s < t
  <2>1. s <= t - 1
    BY <1>3 DEF Seqnos
  <2>2. Epoch[s] <= Epoch[t - 1]
    BY <1>1, <2>1, UploaderAssumption
  <2> QED
    BY <1>1, <1>2, <2>2
<1>4. CASE t < s
  <2>1. t <= s - 1
    BY <1>4 DEF Seqnos
  <2>2. Epoch[t] <= Epoch[s - 1]
    BY <1>1, <2>1, UploaderAssumption
  <2> QED
    BY <1>1, <1>2, <2>2
<1> QED
  BY <1>3, <1>4 DEF Seqnos

\* It leads into an epoch after the first.
LEMMA LaterEpoch ==
  ASSUME NEW s \in Seqnos, SignedByPrev(s)
  PROVE  /\ Epoch[s] \in Nat /\ Epoch[s - 1] \in Nat /\ Epoch[1] \in Nat
         /\ Epoch[s] = Epoch[s - 1] + 1 /\ Epoch[1] <= Epoch[s - 1]
<1>0. MaxSeqno \in Nat
  BY UploaderAssumption
<1>1. s - 1 \in Seqnos /\ 1 \in Seqnos /\ 1 <= s - 1
  BY <1>0 DEF SignedByPrev, Seqnos
<1> QED
  BY <1>1, UploaderAssumption DEF SignedByPrev

LEMMA BridgeStep == ASSUME Base, SentInOrder, BridgeInv, [Next]_vars PROVE BridgeInv'
<1>1. ASSUME UNCHANGED <<dst, states, txs>> PROVE BridgeInv'
  BY <1>1 DEF BridgeInv
<1>2. ASSUME NEW m \in queue, DeployLib(m) PROVE BridgeInv'
  <2>1. /\ txs' = txs /\ states' = states \cup {dst'} /\ dst'.epoch = dst.epoch
        /\ dst'.lt = dst.lt + 1
    BY <1>2 DEF DeployLib, Base, TypeOK, DstState
  <2>2. dst \in states /\ \A t \in txs : t.lt <= dst.lt
    BY DEF Base, NetInv
  <2> QED
    BY <2>1, <2>2 DEF BridgeInv
<1>3. ASSUME NEW m \in queue, BridgeReceive(m) PROVE BridgeInv'
  <2>1. PICK t \in txs' : /\ txs' = txs \cup {t} /\ t.lt = dst.lt + 1
                          /\ t.block = m.block /\ t.ok = Accepts(m.block)
    BY <1>3, ReceiveFrame
  <2>2. /\ states' = states \cup {dst'} /\ dst'.lt = dst.lt + 1
        /\ dst'.epoch = IF Accepts(m.block) THEN Epoch[m.block] ELSE dst.epoch
    BY <1>3, ReceiveFrame
  <2>a. m.kind = "key"
    BY <1>3, ReceiveFrame
  <2>b. m.block \in Seqnos
    BY MessageTypes DEF Base
  <2>3. /\ m.block \in Seqnos /\ SignedByPrev(m.block) /\ Epoch[m.block - 1] <= dst.epoch
    BY <2>a, <2>b DEF SentInOrder
  <2>4. /\ Epoch[m.block] \in Nat /\ Epoch[m.block - 1] \in Nat /\ dst.epoch \in Nat
        /\ Epoch[m.block] = Epoch[m.block - 1] + 1 /\ Epoch[1] \in Nat
    BY <2>3, LaterEpoch, MessageTypes DEF Base
  <2>5. /\ Epoch[m.block] <= dst'.epoch /\ dst.epoch <= dst'.epoch
        /\ dst'.epoch # dst.epoch => /\ dst'.epoch = dst.epoch + 1
                                     /\ t.ok /\ Epoch[t.block] = dst'.epoch
    <3>1. CASE Accepts(m.block)
      <4>1. Epoch[m.block - 1] = dst.epoch /\ dst'.epoch = Epoch[m.block]
        BY <2>2, <3>1 DEF Accepts
      <4>2. t.ok /\ t.block = m.block
        BY <2>1, <3>1
      <4> QED
        BY <2>4, <4>1, <4>2
    <3>2. CASE ~Accepts(m.block)
      <4>1. dst'.epoch = dst.epoch
        BY <2>2, <3>2
      <4>2. m.block > 1
        BY <2>3 DEF SignedByPrev
      <4>3. Epoch[m.block - 1] # dst.epoch
        BY <2>4, <3>2, <4>2 DEF Accepts
      <4> QED
        BY <2>3, <2>4, <4>1, <4>3
    <3> QED
      BY <3>1, <3>2
  <2>6. IsFiniteSet(txs')
    BY <2>1, FS_AddElement DEF BridgeInv
  <2>7. \A x \in txs' : SignedByPrev(x.block)
    BY <2>1, <2>3 DEF BridgeInv
  <2>8. ASSUME NEW x \in txs', NEW d \in states', x.lt <= d.lt PROVE Epoch[x.block] <= d.epoch
    <3>1. dst \in states /\ (\A y \in txs : y.lt <= dst.lt) /\ \A y \in states : y.lt <= dst.lt
      BY DEF Base, NetInv
    <3>2. dst.lt \in Nat /\ \A y \in states : y.lt \in Nat
      BY MessageTypes DEF Base
    <3>3. CASE x \in txs /\ d \in states
      BY <2>8, <3>3 DEF BridgeInv
    <3>4. CASE x \in txs /\ d = dst'
      <4>1. Epoch[x.block] <= dst.epoch /\ Epoch[x.block] \in Nat
        BY <3>1, <3>4, MessageTypes DEF BridgeInv, Base
      <4>2. dst'.epoch \in Nat
        BY <2>2, <2>4
      <4> QED
        BY <3>4, <4>1, <4>2, <2>4, <2>5
    <3>5. CASE x = t /\ d \in states
      BY <2>1, <2>8, <3>1, <3>2, <3>5
    <3>6. CASE x = t /\ d = dst'
      BY <2>1, <2>5, <3>6
    <3> QED
      BY <2>1, <2>2, <3>3, <3>4, <3>5, <3>6
  <2>9. ASSUME NEW e \in Epoch[1] + 1..dst'.epoch
        PROVE  \E x \in txs' : x.ok /\ Epoch[x.block] = e
    <3>1. dst'.epoch \in Nat /\ e \in Int
      BY <2>2, <2>4
    <3>2. e \in Epoch[1] + 1..dst.epoch \/ (e = dst'.epoch /\ dst'.epoch # dst.epoch)
      BY <2>4, <2>5, <2>9, <3>1
    <3> QED
      BY <2>1, <2>5, <3>2 DEF BridgeInv
  <2> QED
    BY <2>6, <2>7, <2>8, <2>9 DEF BridgeInv
<1>4. CASE \/ NewKeyBlock \/ Funding \/ UNCHANGED vars
           \/ \E m \in mempool : Execute(m) \/ ExecuteUnfunded(m) \/ Lose(m)
  BY <1>1, <1>4 DEF NewKeyBlock, Funding, Drain, TopUp, vars, Execute, ExecuteUnfunded, Lose
<1>5. ASSUME NEW u \in Uploaders, StepOf(u) PROVE BridgeInv'
  BY <1>1, <1>5, UploaderFrame
<1> QED
  BY <1>2, <1>3, <1>4, <1>5 DEF Next, NetworkNext, StepOf

\* A message an uploader has just handed over is its own, with the next id.
LEMMA NewMail ==
  ASSUME NEW u \in Uploaders, StepOf(u), NEW m \in (mempool \cup queue)',
         m \notin mempool \cup queue
  PROVE  /\ m.id = next_id /\ m.by = u /\ m.block = cand[u]
         /\ m.kind = "key" => pc[u] = "send"
         /\ m.kind = "lib" => pc[u] = "deploy"
<1>1. queue' = queue /\ m \in mempool' \ mempool
  BY UploaderFrame
<1>2. PICK kind \in {"lib", "key"} :
        /\ m = [id |-> next_id, by |-> u, kind |-> kind, block |-> cand[u]]
        /\ pc[u] = (IF kind = "lib" THEN "deploy" ELSE "send")
  BY <1>1, PostFrame
<1> QED
  BY <1>2

\* The networks make no messages.
LEMMA NetworkMail ==
  ASSUME NetworkNext PROVE (mempool \cup queue)' \subseteq mempool \cup queue
BY DEF NetworkNext, NewKeyBlock, Funding, Drain, TopUp, Execute, ExecuteUnfunded, Lose,
     DeployLib, BridgeReceive

\* A block is sent with the epoch in hand, which the block before it carries.
LEMMA SentFrame ==
  ASSUME Base, NEW u \in Uploaders, StepOf(u), pc'[u] \in Sent
  PROVE  /\ cand'[u] = cand[u] /\ epoch'[u] = epoch[u] /\ min_lt'[u] = min_lt[u]
         /\ pc[u] \in Sent \/ Epoch[cand[u] - 1] = epoch[u]
<1> USE DEF TypeOK, mem, locals, kept, Base, Sent
<1>1. EndRound(u) => pc'[u] = "idle"
  BY DEF EndRound
<1>2. CASE Fail(u) \/ Crash(u) \/ Confirm(u)
  BY <1>1, <1>2 DEF Fail, Crash, Confirm
<1>3. CASE Walk(u)
  <2>1. /\ pc[u] = "walk" /\ Epoch[cursor[u]] = epoch[u] /\ SignedByPrev(cand[u])
        /\ cand' = cand /\ epoch' = epoch /\ min_lt' = min_lt
    BY <1>1, <1>3 DEF Walk
  <2>2. cursor[u] \in 0..MaxSeqno /\ MaxSeqno \in Nat /\ cand[u] # 0
    BY <2>1, ConstTypes DEF SignedByPrev
  <2>3. cand[u] = cursor[u] + 1
    BY <2>1, <2>2 DEF RoundInv
  <2>4. cand[u] - 1 = cursor[u]
    BY <2>2, <2>3
  <2> QED
    BY <2>1, <2>4
<1>4. CASE \/ FindLibraryError(u)
           \/ \E d \in states : FindLibrary(u, d) \/ AwaitLib(u, d) \/ ReadBridgeLt(u, d)
  BY <1>4 DEF FindLibrary, FindLibraryError, AwaitLib, ReadBridgeLt, Goto
<1>5. CASE \/ \E s \in 1..src_head : Latest(u, s)
           \/ \E d \in states : ReadBridge(u, d)
  BY <1>5 DEF Latest, ReadBridge, Goto
<1>6. CASE SendDeploy(u) \/ SendKeyBlock(u)
  BY <1>1, <1>6 DEF SendDeploy, SendKeyBlock, Post
<1>7. CASE DeploySent(u) \/ KeyBlockSent(u)
  BY <1>1, <1>7 DEF DeploySent, KeyBlockSent, Outcome
<1> QED
  BY <1>2, <1>3, <1>4, <1>5, <1>6, <1>7 DEF StepOf, Round

LEMMA ViewStep ==
  ASSUME Base, NEW u \in Uploaders, ViewInv(u), [Next]_vars PROVE ViewInv(u)'
<1>1. states \subseteq states'
  <2>1. CASE NetworkNext
    BY <2>1 DEF NetworkNext, NewKeyBlock, Funding, Drain, TopUp, Execute, ExecuteUnfunded,
         Lose, DeployLib, BridgeReceive
  <2>2. CASE UNCHANGED vars
    BY <2>2 DEF vars
  <2> QED
    BY <2>1, <2>2, UploaderFrame DEF Next, StepOf
<1>2. CASE Same(u)
  BY <1>1, <1>2 DEF ViewInv, Same
<1>3. CASE StepOf(u)
  <2>1. ASSUME pc'[u] # "idle"
        PROVE  \E d \in states' : d.lt >= min_lt'[u] /\ d.epoch = epoch'[u]
    <3>1. ASSUME NEW d \in states, ReadBridge(u, d)
          PROVE  d.lt >= min_lt'[u] /\ d.epoch = epoch'[u]
      BY <3>1 DEF ReadBridge, RecentEnough, Base, TypeOK, kept
    <3> QED
      BY <1>1, <1>3, <2>1, <3>1, RoundFrame DEF Base, ViewInv
  <2>2. ASSUME pc'[u] \in Sent PROVE Epoch[cand'[u] - 1] = epoch'[u]
    BY <1>3, <2>2, SentFrame DEF ViewInv
  <2> QED
    BY <2>1, <2>2 DEF ViewInv
<1> QED
  BY <1>2, <1>3, NetworkFrame, LocalFrame DEF Next, StepOf, Base, vars, Same

LEMMA FlightStep ==
  ASSUME Base, AnswerInv, NEW u \in Uploaders, FlightInv(u), [Next]_vars
  PROVE  FlightInv(u)'
<1>1. /\ next_id \in Nat /\ msg[u] \in Nat /\ dst.lt \in Nat /\ min_lt[u] \in Nat
      /\ min_lt[u] <= dst.lt
      /\ \A m \in mempool \cup queue : m.id \in Nat /\ m.id < next_id
      /\ \A t \in txs : t.id \in Nat /\ t.id < next_id
  BY MessageTypes DEF Base, IdInv, RoundInv
<1>2. pc[u] \in Sending => msg[u] < next_id
  BY DEF AnswerInv, OnItsWay
<1>3. CASE Same(u)
  <2> SUFFICES ASSUME pc[u] \in Sending PROVE FlightInv(u)'
    BY <1>3 DEF FlightInv, Same
  <2>1. ASSUME NEW m \in (mempool \cup queue)'
        PROVE  /\ m.id = msg[u] => m.kind = "key" /\ m.by = u /\ m.block = cand[u]
               /\ m.by = u => m.id <= msg[u]
    <3>1. CASE m \in mempool \cup queue
      BY <3>1 DEF FlightInv
    <3>2. ASSUME NEW v \in Uploaders, v # u, StepOf(v), m \notin mempool \cup queue
          PROVE  m.id = next_id /\ m.by # u
      BY <3>2, NewMail
    <3>3. CASE StepOf(u)
      <4>1. m \notin mempool \cup queue => pc[u] \in {"send", "deploy"}
        <5>1. ASSUME m \notin mempool \cup queue PROVE pc[u] \in {"send", "deploy"}
          BY <3>3, <5>1, PostFrame, UploaderFrame
        <5> QED
          BY <5>1
      <4> QED
        BY <3>1, <4>1 DEF Sending
    <3> QED
      BY <1>1, <1>2, <3>1, <3>2, <3>3, NetworkMail DEF Next, StepOf, vars
  <2>2. ASSUME NEW t \in txs'
        PROVE  /\ t.id = msg[u] => t.by = u /\ t.block = cand[u] /\ t.lt > min_lt[u]
               /\ t.by = u => t.id <= msg[u]
    <3>1. CASE t \in txs
      BY <3>1 DEF FlightInv
    <3>2. ASSUME NEW m \in queue, BridgeReceive(m), t \notin txs
          PROVE  t.id = m.id /\ t.by = m.by /\ t.block = m.block /\ t.lt > min_lt[u]
      BY <1>1, <3>2, ReceiveFrame
    <3>3. CASE \E m \in queue : BridgeReceive(m)
      BY <3>1, <3>2, <3>3 DEF FlightInv
    <3>4. CASE txs' = txs
      BY <3>1, <3>4
    <3>5. CASE \/ NewKeyBlock \/ Funding \/ UNCHANGED vars
               \/ \E m \in mempool : Execute(m) \/ ExecuteUnfunded(m) \/ Lose(m)
               \/ \E m \in queue : DeployLib(m)
      BY <3>4, <3>5 DEF NewKeyBlock, Funding, Drain, TopUp, Execute, ExecuteUnfunded, Lose,
           DeployLib, vars
    <3> QED
      BY <3>3, <3>4, <3>5, UploaderFrame DEF Next, NetworkNext, StepOf
  <2> QED
    BY <1>3, <2>1, <2>2 DEF FlightInv, Same
<1>4. CASE StepOf(u)
  <2> SUFFICES ASSUME pc'[u] \in Sending PROVE FlightInv(u)'
    BY DEF FlightInv
  <2>1. queue' = queue /\ txs' = txs
    BY <1>4, UploaderFrame
  <2>2. cand'[u] = cand[u] /\ min_lt'[u] = min_lt[u]
    BY <1>4, SentFrame DEF Sending, Sent
  <2>3. CASE msg'[u] = msg[u] /\ mempool' = mempool /\ pc[u] \in Sending
    BY <2>1, <2>2, <2>3 DEF FlightInv
  <2>4. CASE msg'[u] = next_id /\ \A m \in mempool' \ mempool : m.kind = "key"
    <3>1. \A m \in (mempool \cup queue)' \ (mempool \cup queue) :
            m.id = next_id /\ m.by = u /\ m.block = cand[u]
      BY <1>4, NewMail
    <3> QED
      BY <1>1, <2>1, <2>2, <2>4, <3>1 DEF FlightInv
  <2> QED
    BY <1>4, <2>3, <2>4, AwaitedFrame DEF Base, Sending, Delivering
<1> QED
  BY <1>3, <1>4, NetworkFrame, LocalFrame DEF Next, StepOf, Base, vars, Same

LEMMA TrafficInvariance == Spec => []Traffic
<1>1. Init => Traffic
  <2> SUFFICES ASSUME Init PROVE Traffic
    OBVIOUS
  <2>1. Base
    BY BaseInit
  <2>2. AnswerInv /\ SentInOrder
    BY DEF Init, AnswerInv, IdsOnce, OnItsWay, Delivering, Sending, SentInOrder
  <2>3. MailInv
    BY DEF Init, MailInv
  <2>4. BridgeInv
    <3>1. IsFiniteSet(txs) /\ txs = {}
      BY FS_EmptySet DEF Init
    <3>2. Epoch[1] \in Nat
      BY ConstTypes DEF Seqnos
    <3>3. Epoch[1] + 1..dst.epoch = {}
      BY <3>2 DEF Init
    <3> QED
      BY <3>1, <3>3 DEF BridgeInv
  <2>5. \A u \in Uploaders : FlightInv(u) /\ ViewInv(u)
    BY DEF Init, FlightInv, ViewInv, Sending, Sent
  <2> QED
    BY <2>1, <2>2, <2>3, <2>4, <2>5 DEF Traffic
<1>2. ASSUME Traffic, [Next]_vars PROVE Traffic'
  <2>1. Base' /\ AnswerInv'
    BY <1>2, BaseStep, AnswerStep DEF Traffic
  <2>2. SentInOrder' /\ MailInv' /\ BridgeInv'
    BY <1>2, SentStep, MailStep, BridgeStep DEF Traffic, AnswerInv
  <2>3. \A u \in Uploaders : FlightInv(u)' /\ ViewInv(u)'
    BY <1>2, FlightStep, ViewStep DEF Traffic
  <2> QED
    BY <2>1, <2>2, <2>3 DEF Traffic
<1> QED
  BY <1>1, <1>2, PTL DEF Spec

-------------------------------------------------------------------------------
(* Downloading a block again. *)

\* A block dropped from the cache is older than one whose acceptance the
\* uploader has seen.
FetchInv(u) ==
  \A s \in fetched[u] \ cache[u] :
    \E t \in txs : t.ok /\ t.lt <= min_lt[u] /\ Epoch[s] < Epoch[t.block]

LEMMA CacheFrame ==
  ASSUME TypeOK, NEW u \in Uploaders, StepOf(u)
  PROVE  /\ \A v \in Uploaders : v # u => cache'[v] = cache[v] /\ fetched'[v] = fetched[v]
         /\ Walk(u) \/ Confirm(u) \/ Crash(u) \/ UNCHANGED <<min_lt, cache, fetched>>
<1> USE DEF TypeOK, mem, locals, kept
<1>1. CASE Fail(u) \/ Crash(u)
  BY <1>1 DEF Fail, Crash
<1>2. CASE Walk(u)
  BY <1>2 DEF Walk
<1>3. CASE Confirm(u)
  BY <1>3 DEF Confirm
<1>4. CASE Round(u) /\ ~Walk(u) /\ ~Confirm(u)
  BY <1>4 DEF Round, ReadBridge, Latest, FindLibrary, FindLibraryError, SendDeploy,
       DeploySent, AwaitLib, ReadBridgeLt, SendKeyBlock, KeyBlockSent, Post, Outcome
<1> QED
  BY <1>1, <1>2, <1>3, <1>4 DEF StepOf

LEMMA ConfirmFetch ==
  ASSUME Traffic, NEW u \in Uploaders, FetchInv(u), Confirm(u)
  PROVE  FetchInv(u)'
<1>1. PICK t \in txs :
        /\ pc[u] = "confirm" /\ t.id = msg[u]
        /\ min_lt' = [min_lt EXCEPT ![u] = Witness(u, t)]
        /\ cache' = [cache EXCEPT ![u] = IF t.ok THEN Kept(u) ELSE @]
        /\ fetched' = fetched
  BY DEF Confirm
<1>2. txs' = txs
  BY UploaderFrame DEF StepOf, Round
<1>3. min_lt'[u] = t.lt /\ cache'[u] = (IF t.ok THEN Kept(u) ELSE cache[u])
  BY <1>1 DEF Traffic, Base, TypeOK, Witness
<1>4. t.block = cand[u] /\ t.lt > min_lt[u] /\ SignedByPrev(t.block)
  BY <1>1 DEF Traffic, FlightInv, Sending, BridgeInv
<1>5. /\ t.lt \in Nat /\ min_lt[u] \in Nat /\ t.block \in Seqnos
      /\ \A x \in txs : x.lt \in Nat
  BY MessageTypes DEF Traffic, Base
<1>6. \A s \in fetched[u] \ cache[u] :
        \E x \in txs : x.ok /\ x.lt <= min_lt'[u] /\ Epoch[s] < Epoch[x.block]
  BY <1>3, <1>4, <1>5 DEF FetchInv
<1>7. ASSUME NEW s \in cache[u], s \notin cache'[u]
      PROVE  t.ok /\ t.lt <= min_lt'[u] /\ Epoch[s] < Epoch[t.block]
  <2>1. t.ok /\ ~(s >= cand[u] - 1)
    BY <1>3, <1>7 DEF Kept
  <2>2. s \in Seqnos /\ MaxSeqno \in Nat
    BY ConstTypes DEF Traffic, Base, TypeOK
  <2>3. t.block - 1 \in Seqnos /\ s <= t.block - 1
    BY <1>4, <1>5, <2>1, <2>2 DEF SignedByPrev, Seqnos
  <2>4. Epoch[s] <= Epoch[t.block - 1] /\ Epoch[s] \in Nat
    BY <2>2, <2>3, UploaderAssumption
  <2>5. Epoch[t.block] = Epoch[t.block - 1] + 1 /\ Epoch[t.block - 1] \in Nat
    BY <1>4, <1>5, LaterEpoch
  <2> QED
    BY <1>3, <1>5, <2>1, <2>4, <2>5
<1> QED
  BY <1>1, <1>2, <1>6, <1>7 DEF FetchInv

LEMMA FetchStep ==
  ASSUME Traffic, Traffic', NEW u \in Uploaders, FetchInv(u), [Next]_vars
  PROVE  FetchInv(u)'
<1>1. txs \subseteq txs'
  <2>1. CASE NetworkNext
    BY <2>1 DEF NetworkNext, NewKeyBlock, Funding, Drain, TopUp, Execute, ExecuteUnfunded,
         Lose, DeployLib, BridgeReceive
  <2>2. CASE UNCHANGED vars
    BY <2>2 DEF vars
  <2> QED
    BY <2>1, <2>2, UploaderFrame DEF Next, StepOf
<1>2. CASE min_lt'[u] = min_lt[u] /\ cache'[u] = cache[u] /\ fetched'[u] = fetched[u]
  BY <1>1, <1>2 DEF FetchInv
<1>3. CASE NetworkNext
  BY <1>2, <1>3 DEF NetworkNext, NewKeyBlock, Funding, Drain, TopUp, Execute, ExecuteUnfunded,
       Lose, DeployLib, BridgeReceive, mem, kept
<1>4. CASE UNCHANGED vars
  BY <1>2, <1>4 DEF vars
<1>5. ASSUME NEW v \in Uploaders, v # u, StepOf(v) PROVE FetchInv(u)'
  BY <1>2, <1>5, CacheFrame, LocalFrame DEF Same, Traffic, Base
<1>6. CASE StepOf(u)
  <2>1. CASE Walk(u)
    <3>1. /\ min_lt' = min_lt /\ cache'[u] = cache[u] \cup {cursor[u]}
          /\ fetched'[u] \subseteq fetched[u] \cup {cursor[u]}
      BY <2>1 DEF Walk, Traffic, Base, TypeOK
    <3> QED
      BY <1>1, <3>1 DEF FetchInv
  <2>2. CASE Crash(u)
    <3>1. fetched'[u] = {}
      BY <2>2 DEF Crash, Traffic, Base, TypeOK
    <3> QED
      BY <3>1 DEF FetchInv
  <2> QED
    BY <1>2, <1>6, <2>1, <2>2, ConfirmFetch, CacheFrame DEF Traffic, Base
<1> QED
  BY <1>3, <1>4, <1>5, <1>6 DEF Next, StepOf

\* A block that is downloaded a second time is older than the epoch in hand,
\* which a walk through a lagging source may ask for again; what the next walks
\* need stays in the cache (key_blocks_cache.split_off).
THEOREM NoRefetchHolds == Spec => NoRefetch
<1> DEFINE Fetches == \A u \in Uploaders : FetchInv(u)
           Kind == \A u \in Uploaders :
             Walk(u) /\ cursor[u] \in fetched[u] \ cache[u] => Epoch[cursor[u]] < epoch[u]
<1>1. Init => Fetches
  BY DEF Init, FetchInv
<1>2. Traffic /\ Traffic' /\ Fetches /\ [Next]_vars => Fetches'
  BY FetchStep
<1>3. ASSUME Traffic, ReadsOwnWrites, Fetches PROVE Kind
  <2> SUFFICES ASSUME NEW u \in Uploaders, Walk(u), cursor[u] \in fetched[u] \ cache[u]
               PROVE  Epoch[cursor[u]] < epoch[u]
    OBVIOUS
  <2>1. PICK t \in txs : t.ok /\ t.lt <= min_lt[u] /\ Epoch[cursor[u]] < Epoch[t.block]
    BY <1>3 DEF FetchInv
  <2>2. epoch[u] >= Epoch[t.block]
    BY <1>3, <2>1 DEF Walk, ReadsOwnWrites
  <2>3. cursor[u] \in Seqnos /\ epoch[u] \in Nat /\ Epoch[t.block] \in Nat
    BY <1>3, MessageTypes DEF Traffic, Base, TypeOK
  <2>4. Epoch[cursor[u]] \in Nat
    BY <2>3, ConstTypes
  <2> QED
    BY <2>1, <2>2, <2>3, <2>4
<1>4. Traffic /\ ReadsOwnWrites /\ Fetches => [Kind]_vars
  BY <1>3
<1> HIDE DEF Fetches
<1> QED
  BY <1>1, <1>2, <1>4, TrafficInvariance, ReadsOwnWritesHolds, PTL DEF Spec, NoRefetch

-------------------------------------------------------------------------------
(* The price of faults. *)

\* u has sent, as message i, the key block s, and the message was not lost.
Posted(u, i, s) ==
  \/ \E m \in mempool \cup queue : m.kind = "key" /\ m.by = u /\ m.id = i /\ m.block = s
  \/ \E t \in txs : t.by = u /\ t.id = i /\ t.block = s

\* A block it had sent before.
Again(u, i) == \E s \in Seqnos : Posted(u, i, s) /\ \E j \in Nat : j < i /\ Posted(u, j, s)
Dups(u) == {i \in Nat : Again(u, i)}

\* The block it has in hand is not a forgotten one.
Flying(u) == pc[u] \in Sending /\ Posted(u, msg[u], cand[u])
Forgotten(u, s) == (\E i \in Nat : Posted(u, i, s)) /\ ~(Flying(u) /\ s = cand[u])

\* Forgotten blocks the bridge has not reached: it may send them once more.
Ahead(u) == {s \in Seqnos : Forgotten(u, s) /\ Epoch[s] > dst.epoch}

\* What it may yet be shown of the bridge at the start of a round.
Answers(u) == {t \in txs : pc[u] \in Sending /\ t.id = msg[u]}
Visible(u) == {d \in states : d.lt >= min_lt[u] /\ \A t \in Answers(u) : d.lt >= t.lt}

\* Forgotten blocks the bridge has reached, which an old state may hide: one of
\* them may be sent once more, for the verdict ends that, unless it just was.
Spent(u) ==
  Flying(u) /\ Answers(u) = {} /\ Epoch[cand[u]] <= dst.epoch /\ Again(u, msg[u])
Stale(u) ==
  /\ ~Spent(u)
  /\ \E s \in Seqnos : /\ Forgotten(u, s) /\ Epoch[s] <= dst.epoch
                       /\ \E d \in Visible(u) : d.epoch < Epoch[s]

\* Every message that repeats a block, and every one that may still come to, is
\* paid for by a fault.
Cost(u) == Cardinality(Dups(u)) + Cardinality(Ahead(u)) + (IF Stale(u) THEN 1 ELSE 0)
PriceInv == \A u \in Uploaders : Cost(u) <= 2 * faults[u]

LEMMA Counting ==
  ASSUME NEW S, IsFiniteSet(S), NEW T
  PROVE  /\ Cardinality(S) \in Nat
         /\ T \subseteq S =>
              IsFiniteSet(T) /\ Cardinality(T) \in Nat /\ Cardinality(T) <= Cardinality(S)
         /\ \A x : T \subseteq S \cup {x} =>
              IsFiniteSet(T) /\ Cardinality(T) \in Nat /\ Cardinality(T) <= Cardinality(S) + 1
         /\ \A x \in S : T \subseteq S \ {x} => Cardinality(T) + 1 <= Cardinality(S)
<1>1. \A x : T \subseteq x /\ IsFiniteSet(x) =>
        IsFiniteSet(T) /\ Cardinality(T) \in Nat /\ Cardinality(T) <= Cardinality(x)
  BY FS_Subset, FS_CardinalityType
<1>2. Cardinality(S) \in Nat
  BY FS_CardinalityType
<1>3. ASSUME NEW x
      PROVE  /\ IsFiniteSet(S \cup {x})
             /\ Cardinality(S \cup {x}) <= Cardinality(S) + 1
             /\ Cardinality(S \cup {x}) \in Nat
  BY <1>2, FS_AddElement
<1>4. ASSUME NEW x \in S
      PROVE  IsFiniteSet(S \ {x}) /\ Cardinality(S \ {x}) = Cardinality(S) - 1
  BY FS_RemoveElement
<1>5. ASSUME NEW x, T \subseteq S \cup {x}
      PROVE  IsFiniteSet(T) /\ Cardinality(T) \in Nat /\ Cardinality(T) <= Cardinality(S) + 1
  <2>1. IsFiniteSet(T) /\ Cardinality(T) \in Nat /\ Cardinality(T) <= Cardinality(S \cup {x})
    BY <1>1, <1>3, <1>5, Zenon
  <2>2. /\ Cardinality(S \cup {x}) <= Cardinality(S) + 1
        /\ Cardinality(S \cup {x}) \in Nat
    BY <1>3, Zenon
  <2> QED
    BY <1>2, <2>1, <2>2
<1>6. ASSUME NEW x \in S, T \subseteq S \ {x} PROVE Cardinality(T) + 1 <= Cardinality(S)
  <2>1. Cardinality(T) \in Nat /\ Cardinality(T) <= Cardinality(S \ {x})
    BY <1>1, <1>4, <1>6, Zenon
  <2> QED
    BY <1>2, <1>4, <2>1
<1> QED
  BY <1>1, <1>2, <1>5, <1>6

\* An id names one key block of one uploader, and is one already handed out.
LEMMA PostedOnce ==
  ASSUME Traffic, NEW u \in Uploaders, NEW i, NEW s, Posted(u, i, s)
  PROVE  /\ i \in Nat /\ i < next_id /\ s \in Seqnos
         /\ \A r : Posted(u, i, r) => r = s
<1>1. i \in Nat /\ i < next_id /\ s \in Seqnos
  BY MessageTypes DEF Traffic, Base, IdInv, Posted
<1>2. /\ \A m, n \in mempool \cup queue : m.id = n.id => m = n
      /\ \A m \in mempool \cup queue, t \in txs : m.id # t.id
      /\ \A t, x \in txs : t.id = x.id => t = x
  BY DEF Traffic, MailInv, AnswerInv, IdsOnce
<1> QED
  BY <1>1, <1>2 DEF Posted

LEMMA FiniteParts ==
  ASSUME Traffic, NEW u \in Uploaders
  PROVE  /\ IsFiniteSet(Dups(u)) /\ IsFiniteSet(Ahead(u))
         /\ Cardinality(Dups(u)) \in Nat /\ Cardinality(Ahead(u)) \in Nat
<1>1. next_id \in Nat /\ MaxSeqno \in Nat
  BY MessageTypes, ConstTypes DEF Traffic, Base
<1>2. IsFiniteSet(0..next_id) /\ IsFiniteSet(Seqnos)
  BY <1>1, FS_Interval DEF Seqnos
<1>3. Dups(u) \subseteq 0..next_id
  <2> SUFFICES ASSUME NEW i \in Nat, Again(u, i) PROVE i \in 0..next_id
    BY DEF Dups
  <2>1. i < next_id
    BY PostedOnce DEF Again
  <2> QED
    BY <1>1, <2>1
<1>4. Ahead(u) \subseteq Seqnos
  BY DEF Ahead
<1> QED
  BY <1>2, <1>3, <1>4, Counting

\* What may happen to the two sets and the one bit without raising the price.
LEMMA Sums ==
  ASSUME Traffic, NEW u \in Uploaders, PriceInv,
         \/ /\ faults'[u] = faults[u]
            /\ \/ /\ Dups(u)' \subseteq Dups(u) /\ Ahead(u)' \subseteq Ahead(u)
                  /\ Stale(u)' => Stale(u)
               \/ /\ \E i \in Dups(u) : Dups(u)' \subseteq Dups(u) \ {i}
                  /\ Ahead(u)' \subseteq Ahead(u)
               \/ /\ Dups(u)' \subseteq Dups(u)
                  /\ \E s \in Ahead(u) : Ahead(u)' \subseteq Ahead(u) \ {s}
               \/ /\ \E i \in Dups(u) : Dups(u)' \subseteq Dups(u) \ {i}
                  /\ \E s : Ahead(u)' \subseteq Ahead(u) \cup {s}
                  /\ Stale(u)' => Stale(u)
               \/ /\ \E i : Dups(u)' \subseteq Dups(u) \cup {i}
                  /\ \E s \in Ahead(u) : Ahead(u)' \subseteq Ahead(u) \ {s}
                  /\ Stale(u)' => Stale(u)
               \/ /\ \E i : Dups(u)' \subseteq Dups(u) \cup {i}
                  /\ Ahead(u)' \subseteq Ahead(u)
                  /\ Stale(u) /\ ~Stale(u)'
         \/ /\ faults'[u] = faults[u] + 1
            /\ \/ /\ \E i : Dups(u)' \subseteq Dups(u) \cup {i}
                  /\ Ahead(u)' \subseteq Ahead(u)
               \/ /\ Dups(u)' \subseteq Dups(u)
                  /\ \E s : Ahead(u)' \subseteq Ahead(u) \cup {s}
  PROVE  Cost(u)' <= 2 * faults'[u]
<1> DEFINE d == Cardinality(Dups(u))
           a == Cardinality(Ahead(u))
           e == Cardinality(Dups(u)')
           b == Cardinality(Ahead(u)')
<1>1. IsFiniteSet(Dups(u)) /\ IsFiniteSet(Ahead(u)) /\ d \in Nat /\ a \in Nat
  BY FiniteParts
<1>2. Dups(u)' \subseteq Dups(u) => e \in Nat /\ e <= d
  BY <1>1, Counting
<1>3. (\E i \in Dups(u) : Dups(u)' \subseteq Dups(u) \ {i}) => e \in Nat /\ e + 1 <= d
  <2>1. ASSUME NEW i \in Dups(u), Dups(u)' \subseteq Dups(u) \ {i} PROVE e \in Nat /\ e + 1 <= d
    BY <1>1, <1>2, <2>1, Counting
  <2> QED
    BY <2>1
<1>4. (\E i : Dups(u)' \subseteq Dups(u) \cup {i}) => e \in Nat /\ e <= d + 1
  BY <1>1, Counting
<1>5. Ahead(u)' \subseteq Ahead(u) => b \in Nat /\ b <= a
  BY <1>1, Counting
<1>6. (\E s \in Ahead(u) : Ahead(u)' \subseteq Ahead(u) \ {s}) => b \in Nat /\ b + 1 <= a
  <2>1. ASSUME NEW s \in Ahead(u), Ahead(u)' \subseteq Ahead(u) \ {s} PROVE b \in Nat /\ b + 1 <= a
    BY <1>1, <1>5, <2>1, Counting
  <2> QED
    BY <2>1
<1>7. (\E s : Ahead(u)' \subseteq Ahead(u) \cup {s}) => b \in Nat /\ b <= a + 1
  BY <1>1, Counting
<1>8. /\ d + a + (IF Stale(u) THEN 1 ELSE 0) <= 2 * faults[u]
      /\ faults[u] \in Nat
  BY MessageTypes DEF PriceInv, Cost, Traffic, Base
<1>9. Cost(u)' = e + b + (IF Stale(u)' THEN 1 ELSE 0)
  BY DEF Cost
<1> HIDE DEF d, a, e, b
<1>10. /\ e \in Nat /\ b \in Nat
       /\ \/ /\ faults'[u] = faults[u]
             /\ \/ e <= d /\ b <= a /\ (Stale(u)' => Stale(u))
                \/ e + 1 <= d /\ b <= a
                \/ e <= d /\ b + 1 <= a
                \/ e + 1 <= d /\ b <= a + 1 /\ (Stale(u)' => Stale(u))
                \/ e <= d + 1 /\ b + 1 <= a /\ (Stale(u)' => Stale(u))
                \/ e <= d + 1 /\ b <= a /\ Stale(u) /\ ~Stale(u)'
          \/ /\ faults'[u] = faults[u] + 1
             /\ \/ e <= d + 1 /\ b <= a
                \/ e <= d /\ b <= a + 1
  BY <1>2, <1>3, <1>4, <1>5, <1>6, <1>7, Zenon
<1> QED
  BY <1>1, <1>8, <1>9, <1>10

\* Steps that change nothing the price depends on, but perhaps add a fault.
SamePosts(u) == \A i, s : Posted(u, i, s)' <=> Posted(u, i, s)

LEMMA SamePrice ==
  ASSUME Traffic, NEW u \in Uploaders, PriceInv, SamePosts(u),
         dst' = dst, states' = states, min_lt'[u] = min_lt[u], Answers(u)' = Answers(u),
         faults'[u] = faults[u] \/ faults'[u] = faults[u] + 1,
         Flying(u)' <=> Flying(u),
         Flying(u) => msg'[u] = msg[u] /\ cand'[u] = cand[u]
  PROVE  Cost(u)' <= 2 * faults'[u]
<1>1. \A i : Again(u, i)' <=> Again(u, i)
  BY DEF Again, SamePosts
<1>2. Dups(u)' = Dups(u)
  BY <1>1 DEF Dups
<1>3. \A s : Forgotten(u, s)' <=> Forgotten(u, s)
  BY DEF Forgotten, SamePosts
<1>4. Ahead(u)' = Ahead(u)
  BY <1>3 DEF Ahead
<1>5. Visible(u)' = Visible(u)
  BY DEF Visible
<1>6. Spent(u)' <=> Spent(u)
  BY <1>1 DEF Spent
<1>7. Stale(u)' <=> Stale(u)
  BY <1>3, <1>5, <1>6 DEF Stale
<1> QED
  BY <1>2, <1>4, <1>7, Sums

\* A message that comes to nothing takes its repetition with it.
LEMMA LostPrice ==
  ASSUME Traffic, NEW u \in Uploaders, PriceInv, Same(u), faults'[u] = faults[u],
         NEW m \in mempool, mempool' = mempool \ {m},
         UNCHANGED <<dst, states, txs, queue>>
  PROVE  Cost(u)' <= 2 * faults'[u]
<1>1. /\ \A n \in mempool : n.id = m.id => n = m
      /\ \A n \in queue : n.id # m.id
      /\ \A t \in txs : t.id # m.id
      /\ m.id \in Nat
  BY MessageTypes DEF Traffic, Base, AnswerInv, IdsOnce, MailInv
<1>2. Answers(u)' = Answers(u)
  BY DEF Answers, Same
<1>3. Visible(u)' = Visible(u)
  BY <1>2 DEF Visible, Same
<1>4. CASE ~(m.kind = "key" /\ m.by = u)
  <2>1. SamePosts(u)
    BY <1>4 DEF SamePosts, Posted
  <2>2. Flying(u)' <=> Flying(u)
    BY <2>1 DEF Flying, SamePosts, Same
  <2> QED
    BY <1>2, <2>1, <2>2, SamePrice DEF Same
<1>5. CASE m.kind = "key" /\ m.by = u
  <2> DEFINE i0 == m.id
             s0 == m.block
  <2>1. \A i, s : Posted(u, i, s)' <=> Posted(u, i, s) /\ i # i0
    BY <1>1 DEF Posted
  <2>2. Posted(u, i0, s0)
    BY <1>5 DEF Posted
  <2> HIDE DEF i0, s0
  <2>3. \A i : Again(u, i)' => Again(u, i) /\ i # i0
    BY <2>1 DEF Again
  <2>4. Dups(u)' \subseteq Dups(u)
    BY <2>3 DEF Dups
  <2>5. CASE Flying(u) /\ msg[u] = i0
    <3>1. cand[u] = s0
      BY <2>2, <2>5, PostedOnce DEF Flying
    <3>2. ~Flying(u)'
      BY <2>1, <2>5 DEF Flying, Same
    <3>3. \A j, s : Posted(u, j, s) => j <= i0 /\ j \in Nat /\ i0 \in Nat
      <4>1. i0 \in Nat /\ msg[u] = i0 /\ pc[u] \in Sending
        BY <2>2, <2>5, PostedOnce DEF Flying
      <4>2. /\ \A n \in mempool \cup queue : n.by = u => n.id <= i0
            /\ \A t \in txs : t.by = u => t.id <= i0
        BY <4>1 DEF Traffic, FlightInv
      <4>3. \A j, s : Posted(u, j, s) => j \in Nat
        BY PostedOnce
      <4>4. \A j, s : Posted(u, j, s) => j <= i0
        BY <4>2 DEF Posted
      <4> QED
        BY <4>1, <4>3, <4>4
    <3>4. \A s : Forgotten(u, s)' => Forgotten(u, s) \/ s = s0
      BY <2>1, <3>1 DEF Forgotten
    <3>5. \A s : Forgotten(u, s) => s # s0
      BY <2>5, <3>1 DEF Forgotten
    <3>6. Ahead(u)' \subseteq Ahead(u) \cup {s0}
      BY <3>4 DEF Ahead
    <3>7. CASE Again(u, i0) /\ Epoch[s0] > dst.epoch
      <4>1. i0 \in Dups(u) /\ Dups(u)' \subseteq Dups(u) \ {i0}
        BY <2>3, <3>3, <3>7, <2>2, <2>4 DEF Dups
      <4>2. ~Spent(u)
        <5>1. Epoch[s0] \in Nat /\ dst.epoch \in Nat
          BY <2>2, PostedOnce, ConstTypes, MessageTypes DEF Traffic, Base
        <5> QED
          BY <3>1, <3>7, <5>1 DEF Spent
      <4>3. Stale(u)' => Stale(u)
        <5>1. \A s : Epoch[s] <= dst.epoch /\ s \in Seqnos => s # s0
          <6>1. s0 \in Seqnos => Epoch[s0] \in Nat /\ dst.epoch \in Nat
            BY ConstTypes, MessageTypes DEF Traffic, Base
          <6> QED
            BY <3>7, <6>1
        <5> QED
          BY <1>3, <3>4, <4>2, <5>1 DEF Stale
      <4> QED
        BY <3>6, <4>1, <4>3, Sums
    <3>8. CASE Again(u, i0) /\ ~(Epoch[s0] > dst.epoch)
      <4>1. i0 \in Dups(u) /\ Dups(u)' \subseteq Dups(u) \ {i0}
        BY <2>3, <3>3, <3>8, <2>2, <2>4 DEF Dups
      <4>2. Ahead(u)' \subseteq Ahead(u)
        BY <3>4, <3>8 DEF Ahead
      <4> QED
        BY <4>1, <4>2, Sums
    <3>9. CASE ~Again(u, i0)
      <4>1. ASSUME NEW j, Posted(u, j, s0), j # i0 PROVE FALSE
        <5>1. j < i0 /\ j \in Nat
          BY <3>3, <4>1
        <5>2. s0 \in Seqnos
          BY <2>2, PostedOnce
        <5> QED
          BY <2>2, <3>9, <4>1, <5>1, <5>2 DEF Again
      <4>2. \A s : Forgotten(u, s)' => Forgotten(u, s)
        BY <2>1, <3>4, <4>1 DEF Forgotten
      <4>3. Ahead(u)' \subseteq Ahead(u)
        BY <4>2 DEF Ahead
      <4>4. ~Spent(u)
        BY <2>5, <3>9 DEF Spent
      <4>5. Stale(u)' => Stale(u)
        BY <1>3, <4>2, <4>4 DEF Stale
      <4> QED
        BY <2>4, <4>3, <4>5, Sums
    <3> QED
      BY <3>7, <3>8, <3>9
  <2>6. CASE ~(Flying(u) /\ msg[u] = i0)
    <3>1. Flying(u)' <=> Flying(u)
      BY <2>1, <2>6 DEF Flying, Same
    <3>2. \A s : Forgotten(u, s)' => Forgotten(u, s)
      BY <2>1, <3>1 DEF Forgotten, Same
    <3>3. Ahead(u)' \subseteq Ahead(u)
      BY <3>2 DEF Ahead
    <3>4. CASE Spent(u) /\ ~Spent(u)'
      <4>1. Again(u, msg[u]) /\ ~Again(u, msg[u])'
        BY <1>2, <3>1, <3>4 DEF Spent, Same
      <4>2. msg[u] \in Nat /\ msg'[u] = msg[u]
        BY MessageTypes DEF Traffic, Base, Same
      <4>3. msg[u] \in Dups(u) /\ msg[u] \notin Dups(u)'
        BY <4>1, <4>2 DEF Dups
      <4> QED
        BY <2>4, <3>3, <4>3, Sums
    <3>5. CASE ~(Spent(u) /\ ~Spent(u)')
      <4>1. Stale(u)' => Stale(u)
        BY <1>3, <3>2, <3>5 DEF Stale
      <4> QED
        BY <2>4, <3>3, <4>1, Sums
    <3> QED
      BY <3>4, <3>5
  <2> QED
    BY <2>5, <2>6
<1> QED
  BY <1>4, <1>5

\* The bridge moving on takes forgotten blocks from those ahead to those hidden,
\* one at a time; the verdict on the block in hand ends what may be hidden.
LEMMA ReceivedPrice ==
  ASSUME Traffic, NEW u \in Uploaders, PriceInv, Same(u), faults'[u] = faults[u],
         SamePosts(u), dst'.lt = dst.lt + 1, dst'.epoch \in Nat, dst.epoch <= dst'.epoch,
         states' = states \cup {dst'}, txs \subseteq txs',
         \A t \in txs' : t \in txs \/ t.lt = dst.lt + 1
  PROVE  Cost(u)' <= 2 * faults'[u]
<1>1. /\ dst.epoch \in Nat /\ dst.lt \in Nat /\ min_lt[u] \in Nat
      /\ \A d \in states : d.lt \in Nat /\ d.epoch \in Nat /\ d.lt <= dst.lt
      /\ \A s \in Seqnos : Epoch[s] \in Nat
  BY MessageTypes, ConstTypes DEF Traffic, Base, NetInv
<1>2. \A i : Again(u, i)' <=> Again(u, i)
  BY DEF Again, SamePosts
<1>3. Dups(u)' = Dups(u)
  BY <1>2 DEF Dups
<1>4. Flying(u)' <=> Flying(u)
  BY DEF Flying, SamePosts, Same
<1>5. \A s : Forgotten(u, s)' <=> Forgotten(u, s)
  BY <1>4 DEF Forgotten, SamePosts, Same
<1>6. Ahead(u)' \subseteq Ahead(u)
  <2> SUFFICES ASSUME NEW s \in Seqnos, Forgotten(u, s), Epoch[s] > dst'.epoch
               PROVE  Epoch[s] > dst.epoch
    BY <1>5 DEF Ahead
  <2> QED
    BY <1>1
<1>7. CASE Answers(u)' = Answers(u)
  <2>1. ASSUME Stale(u)', ~Stale(u)
        PROVE  \E s \in Ahead(u) : Ahead(u)' \subseteq Ahead(u) \ {s}
    <3>1. PICK s \in Seqnos : /\ Forgotten(u, s) /\ Epoch[s] <= dst'.epoch
                              /\ \E d \in Visible(u)' : d.epoch < Epoch[s]
      BY <1>5, <2>1 DEF Stale
    <3>2. PICK d \in states' : /\ d.lt >= min_lt[u] /\ \A t \in Answers(u) : d.lt >= t.lt
                               /\ d.epoch < Epoch[s]
      BY <1>7, <3>1 DEF Visible, Same
    <3>3. d \in states
      <4>1. d # dst'
        BY <1>1, <3>1, <3>2
      <4> QED
        BY <4>1
    <3>4. d \in Visible(u)
      BY <3>2, <3>3 DEF Visible
    <3>5. ~Spent(u)
      <4>1. ASSUME Spent(u) PROVE Spent(u)'
        <5>2. cand[u] \in Seqnos /\ Epoch[cand[u]] <= dst.epoch
          BY <4>1, PostedOnce DEF Spent, Flying
        <5>3. Epoch[cand[u]] <= dst'.epoch
          BY <1>1, <5>2
        <5> QED
          BY <1>2, <1>4, <1>7, <4>1, <5>3 DEF Spent, Same
      <4> QED
        BY <2>1, <4>1 DEF Stale
    <3>6. Epoch[s] > dst.epoch
      <4>1. ~(Epoch[s] <= dst.epoch)
        BY <2>1, <3>1, <3>2, <3>4, <3>5 DEF Stale
      <4> QED
        BY <1>1, <4>1
    <3>7. s \in Ahead(u)
      BY <3>1, <3>6 DEF Ahead
    <3>8. s \notin Ahead(u)'
      BY <1>1, <3>1 DEF Ahead
    <3> QED
      BY <1>6, <3>7, <3>8
  <2> QED
    BY <1>3, <1>6, <2>1, Sums
<1>8. CASE Answers(u)' # Answers(u)
  <2>1. PICK t \in Answers(u)' : t.lt = dst.lt + 1
    BY <1>8 DEF Answers, Same
  <2>2. \A d \in Visible(u)' : d = dst'
    <3> SUFFICES ASSUME NEW d \in states, d.lt >= t.lt PROVE FALSE
      BY <2>1 DEF Visible
    <3> QED
      BY <1>1, <2>1
  <2>3. ~Stale(u)'
    <3> SUFFICES ASSUME NEW s \in Seqnos, Epoch[s] <= dst'.epoch, dst'.epoch < Epoch[s]
                 PROVE  FALSE
      BY <2>2 DEF Stale
    <3> QED
      BY <1>1
  <2> QED
    BY <1>3, <1>6, <2>3, Sums
<1> QED
  BY <1>7, <1>8

\* A block is sent with the next id, which no answer has yet.
LEMMA NextPost ==
  ASSUME Traffic, NEW u \in Uploaders, SendKeyBlock(u),
         NEW n, n = next_id, NEW c, c = cand[u]
  PROVE  /\ pc[u] = "send" /\ n \in Nat /\ c \in Seqnos
         /\ ~Flying(u) /\ Answers(u) = {}
         /\ min_lt' = min_lt /\ UNCHANGED <<dst, states, txs, queue>>
         /\ \A i, s : ~Posted(u, n, s) /\ (Posted(u, i, s) => i \in Nat /\ i < n)
         /\ \A i, s : Posted(u, i, s) => Posted(u, i, s)'
         /\ \A i, s : Posted(u, i, s)' => Posted(u, i, s) \/ (i = n /\ s = c)
         /\ \/ /\ pc'[u] = "sending" /\ msg'[u] = n /\ cand' = cand /\ faults' = faults
               /\ Posted(u, n, c)'
            \/ pc'[u] = "idle" /\ faults'[u] = faults[u] + 1
<1> DEFINE m == [id |-> n, by |-> u, kind |-> "key", block |-> c]
<1>1. /\ pc[u] = "send" /\ min_lt' = min_lt /\ UNCHANGED <<dst, states, txs, queue>>
      /\ mempool' \in {mempool, mempool \cup {m}}
      /\ \/ /\ pc'[u] = "sending" /\ msg'[u] = n /\ cand' = cand /\ faults' = faults
            /\ mempool' = mempool \cup {m}
         \/ pc'[u] = "idle" /\ faults'[u] = faults[u] + 1
  BY DEF SendKeyBlock, Post, EndRound, Traffic, Base, TypeOK, kept
<1>2. m.kind = "key" /\ m.by = u /\ m.id = n /\ m.block = c
  OBVIOUS
<1> HIDE DEF m
<1>3. n \in Nat /\ c \in 0..MaxSeqno /\ SignedByPrev(c)
  BY <1>1 DEF Traffic, Base, TypeOK, RoundInv, Sent
<1>4. c \in Seqnos
  BY <1>3, ConstTypes DEF SignedByPrev, Seqnos
<1>5. ~Flying(u) /\ Answers(u) = {}
  BY <1>1 DEF Flying, Answers, Sending
<1>6. \A i, s : Posted(u, i, s) => i \in Nat /\ i < n
  BY PostedOnce
<1>7. \A s : ~Posted(u, n, s)
  BY <1>3, <1>6
<1>8. \A i, s : Posted(u, i, s) => Posted(u, i, s)'
  BY <1>1 DEF Posted
<1>9. \A i, s : Posted(u, i, s)' => Posted(u, i, s) \/ (i = n /\ s = c)
  BY <1>1, <1>2 DEF Posted
<1>10. mempool' = mempool \cup {m} => Posted(u, n, c)'
  BY <1>2 DEF Posted
<1> QED
  BY <1>1, <1>3, <1>4, <1>5, <1>6, <1>7, <1>8, <1>9, <1>10

\* A block is sent a second time only if it was forgotten: then it was ahead of
\* the bridge, or an old state of the bridge was still to be seen.
LEMMA PostPrice ==
  ASSUME Traffic, NEW u \in Uploaders, PriceInv, SendKeyBlock(u)
  PROVE  Cost(u)' <= 2 * faults'[u]
<1>n. PICK n : n = next_id
  OBVIOUS
<1>c. PICK c : c = cand[u]
  OBVIOUS
<1> DEFINE Before == \E i \in Nat : Posted(u, i, c)
<1>1. /\ pc[u] = "send" /\ n \in Nat /\ c \in Seqnos
      /\ ~Flying(u) /\ Answers(u) = {}
      /\ min_lt' = min_lt /\ UNCHANGED <<dst, states, txs, queue>>
      /\ \A i, s : ~Posted(u, n, s) /\ (Posted(u, i, s) => i \in Nat /\ i < n)
      /\ \A i, s : Posted(u, i, s) => Posted(u, i, s)'
      /\ \A i, s : Posted(u, i, s)' => Posted(u, i, s) \/ (i = n /\ s = c)
      /\ \/ /\ pc'[u] = "sending" /\ msg'[u] = n /\ cand' = cand /\ faults' = faults
            /\ Posted(u, n, c)'
         \/ pc'[u] = "idle" /\ faults'[u] = faults[u] + 1
  BY <1>n, <1>c, NextPost
<1>2. dst.epoch \in Nat /\ Epoch[c] \in Nat
  BY <1>1, MessageTypes, ConstTypes DEF Traffic, Base
<1>3. ASSUME NEW i \in Nat, Again(u, i)' PROVE Again(u, i) \/ (i = n /\ Before)
  <2>1. PICK s \in Seqnos, j \in Nat : Posted(u, i, s)' /\ j < i /\ Posted(u, j, s)'
    BY <1>3 DEF Again
  <2>2. CASE i = n
    <3>1. Posted(u, i, c)' /\ s = c
      BY <1>1, <2>1, <2>2
    <3>2. Posted(u, j, c)
      BY <1>1, <2>1, <2>2, <3>1
    <3> QED
      BY <2>2, <3>2
  <2>3. CASE i # n
    <3>1. Posted(u, i, s) /\ i < n
      BY <1>1, <2>1, <2>3
    <3>2. Posted(u, j, s)
      BY <1>1, <2>1, <3>1
    <3> QED
      BY <2>1, <3>1, <3>2 DEF Again
  <2> QED
    BY <2>2, <2>3
<1>4. Dups(u)' \subseteq Dups(u) \cup {n}
  BY <1>3 DEF Dups
<1>5. ~Before => Dups(u)' \subseteq Dups(u)
  BY <1>3 DEF Dups
<1>6. \A s : Forgotten(u, s)' => Forgotten(u, s) \/ (s = c /\ ~Before)
  BY <1>1 DEF Forgotten
<1>7. CASE pc'[u] = "idle" /\ faults'[u] = faults[u] + 1
  <2>1. CASE Before
    <3>1. Ahead(u)' \subseteq Ahead(u)
      BY <1>1, <1>6, <2>1 DEF Ahead
    <3> QED
      BY <1>4, <1>7, <3>1, Sums
  <2>2. CASE ~Before
    <3>1. Ahead(u)' \subseteq Ahead(u) \cup {c}
      BY <1>1, <1>6 DEF Ahead
    <3> QED
      BY <1>5, <1>7, <2>2, <3>1, Sums
  <2> QED
    BY <2>1, <2>2
<1>8. CASE /\ pc'[u] = "sending" /\ msg'[u] = n /\ cand' = cand /\ faults' = faults
           /\ Posted(u, n, c)'
  <2>1. Flying(u)'
    BY <1>8, <1>c DEF Flying, Sending
  <2>2. \A s : Forgotten(u, s)' => Forgotten(u, s) /\ s # c
    BY <1>6, <1>8, <1>c, <2>1 DEF Forgotten
  <2>3. Ahead(u)' \subseteq Ahead(u) \ {c}
    BY <1>1, <2>2 DEF Ahead
  <2>4. Answers(u)' = {}
    <3>1. \A t \in txs : t.id # n
      <4>1. \A t \in txs : t.id \in Nat /\ t.id < n
        BY <1>n, MessageTypes DEF Traffic, Base, IdInv
      <4> QED
        BY <1>1, <4>1
    <3> QED
      BY <1>1, <1>8, <3>1 DEF Answers
  <2>5. Visible(u)' = Visible(u)
    BY <1>1, <2>4 DEF Visible
  <2>6. ~Spent(u)
    BY <1>1 DEF Spent
  <2>7. Stale(u)' => Stale(u)
    BY <1>1, <2>2, <2>5, <2>6 DEF Stale
  <2>8. CASE ~Before
    BY <1>5, <1>8, <2>3, <2>7, <2>8, Sums
  <2>9. CASE Before /\ Epoch[c] > dst.epoch
    <3>1. c \in Ahead(u)
      BY <1>1, <2>9 DEF Ahead, Forgotten
    <3> QED
      BY <1>4, <1>8, <2>3, <2>7, <3>1, Sums
  <2>10. CASE Before /\ ~(Epoch[c] > dst.epoch)
    <3>1. Epoch[c] <= dst.epoch
      BY <1>2, <2>10
    <3>2. Again(u, n)'
      BY <1>1, <1>8, <2>10 DEF Again
    <3>3. Spent(u)'
      BY <1>1, <1>8, <1>c, <2>1, <2>4, <3>1, <3>2 DEF Spent
    <3>4. \E d \in Visible(u) : d.epoch < Epoch[c]
      <4>1. PICK d \in states : d.lt >= min_lt[u] /\ d.epoch = epoch[u]
        BY <1>1 DEF Traffic, ViewInv
      <4>2. epoch[u] = Epoch[c - 1] /\ SignedByPrev(c)
        BY <1>1, <1>c DEF Traffic, ViewInv, Sent, Base, RoundInv
      <4>3. d.epoch < Epoch[c]
        BY <1>1, <1>2, <4>1, <4>2, LaterEpoch
      <4> QED
        BY <1>1, <4>1, <4>3 DEF Visible
    <3>5. Stale(u)
      BY <1>1, <2>6, <2>10, <3>1, <3>4 DEF Stale, Forgotten
    <3>6. ~Stale(u)'
      BY <3>3 DEF Stale
    <3> QED
      BY <1>4, <1>8, <2>3, <3>5, <3>6, Sums
  <2> QED
    BY <2>8, <2>9, <2>10
<1> QED
  BY <1>1, <1>7, <1>8

\* A crash forgets the block in hand, and how recent the bridge's state must be.
LEMMA CrashPrice ==
  ASSUME Traffic, NEW u \in Uploaders, PriceInv, Crash(u)
  PROVE  Cost(u)' <= 2 * faults'[u]
<1>1. /\ UNCHANGED <<dst, txs, mempool, queue>> /\ faults'[u] = faults[u] + 1
  BY DEF Crash, Traffic, Base, TypeOK, net
<1>2. \A i, s : Posted(u, i, s)' <=> Posted(u, i, s)
  BY <1>1 DEF Posted
<1>3. \A i : Again(u, i)' <=> Again(u, i)
  BY <1>2 DEF Again
<1>4. Dups(u)' = Dups(u)
  BY <1>3 DEF Dups
<1>5. \A s : Forgotten(u, s)' => Forgotten(u, s) \/ s = cand[u]
  BY <1>2 DEF Forgotten
<1>6. Ahead(u)' \subseteq Ahead(u) \cup {cand[u]}
  BY <1>1, <1>5 DEF Ahead
<1> QED
  BY <1>1, <1>4, <1>6, Sums

\* The verdict says how recent a state has to be that the next round starts from.
LEMMA ConfirmPrice ==
  ASSUME Traffic, NEW u \in Uploaders, PriceInv, Confirm(u)
  PROVE  Cost(u)' <= 2 * faults'[u]
<1>1. PICK t \in txs : /\ pc[u] = "confirm" /\ t.id = msg[u] /\ pc'[u] = "idle"
                       /\ min_lt'[u] = t.lt
                       /\ UNCHANGED <<dst, states, txs, mempool, queue, faults>>
  BY DEF Confirm, EndRound, Witness, Traffic, Base, TypeOK, net
<1>2. /\ t.by = u /\ t.block = cand[u] /\ t.lt > min_lt[u]
      /\ \A x \in txs : x.id = t.id => x = t
  BY <1>1 DEF Traffic, FlightInv, Sending, MailInv
<1>3. /\ t.lt \in Nat /\ min_lt[u] \in Nat /\ dst.lt \in Nat /\ dst.epoch \in Nat
      /\ Epoch[t.block] \in Nat
      /\ \A d \in states : d.lt \in Nat /\ d.epoch \in Nat
  BY MessageTypes DEF Traffic, Base
<1>4. \A d \in states : t.lt <= d.lt => Epoch[t.block] <= d.epoch
  BY DEF Traffic, BridgeInv
<1>5. dst \in states /\ t.lt <= dst.lt
  BY DEF Traffic, Base, NetInv
<1>6. \A i, s : Posted(u, i, s)' <=> Posted(u, i, s)
  BY <1>1 DEF Posted
<1>7. \A i : Again(u, i)' <=> Again(u, i)
  BY <1>6 DEF Again
<1>8. Dups(u)' = Dups(u)
  BY <1>7 DEF Dups
<1>9. Posted(u, msg[u], cand[u]) /\ ~Flying(u)'
  BY <1>1, <1>2 DEF Posted, Flying, Sending
<1>10. \A s : Forgotten(u, s)' => Forgotten(u, s) \/ s = cand[u]
  BY <1>6 DEF Forgotten
<1>11. Ahead(u)' \subseteq Ahead(u)
  <2>1. ~(Epoch[cand[u]] > dst.epoch)
    BY <1>2, <1>3, <1>4, <1>5
  <2> QED
    BY <1>1, <1>10, <2>1 DEF Ahead
<1>12. \A d : d \in Visible(u)' <=> d \in states /\ d.lt >= t.lt
  BY <1>1, <1>9 DEF Visible, Answers, Sending
<1>13. \A d : d \in Visible(u)' => d \in Visible(u)
  <2> SUFFICES ASSUME NEW d \in states, d.lt >= t.lt PROVE d \in Visible(u)
    BY <1>12
  <2>1. Answers(u) = {t}
    BY <1>1, <1>2 DEF Answers, Sending
  <2>2. d.lt >= min_lt[u]
    BY <1>2, <1>3
  <2> QED
    BY <2>1, <2>2 DEF Visible
<1>14. \A d \in Visible(u)' : ~(d.epoch < Epoch[cand[u]])
  <2> SUFFICES ASSUME NEW d \in states, d.lt >= t.lt PROVE ~(d.epoch < Epoch[cand[u]])
    BY <1>12
  <2>1. t.lt <= d.lt
    BY <1>3
  <2> QED
    BY <1>2, <1>3, <1>4, <2>1
<1>15. ~Spent(u)
  BY <1>1 DEF Spent, Answers, Sending
<1>16. Stale(u)' => Stale(u)
  BY <1>1, <1>10, <1>13, <1>14, <1>15 DEF Stale
<1> QED
  BY <1>1, <1>8, <1>11, <1>16, Sums

LEMMA QuietFrame ==
  ASSUME Base, NEW u \in Uploaders, StepOf(u), ~SendKeyBlock(u), ~Crash(u), ~Confirm(u)
  PROVE  /\ min_lt' = min_lt
         /\ faults' = faults \/ faults'[u] = faults[u] + 1
         /\ mempool \subseteq mempool' /\ \A m \in mempool' \ mempool : m.kind = "lib"
         /\ \/ pc[u] \notin Sending /\ pc'[u] \notin Sending
            \/ /\ pc[u] \in Sending /\ pc'[u] \in Sending
               /\ msg' = msg /\ cand' = cand
            \/ /\ pc[u] = "sending" /\ pc'[u] = "idle"
               /\ \/ msg[u] \in unfunded
                  \/ msg[u] \notin executed /\ \A m \in mempool : m.id # msg[u]
<1> USE DEF TypeOK, mem, locals, kept, net, Base, Sending
<1>1. EndRound(u) => pc'[u] = "idle"
  BY DEF EndRound
<1>2. CASE Fail(u)
  BY <1>1, <1>2 DEF Fail
<1>3. CASE Walk(u)
  BY <1>1, <1>3 DEF Walk
<1>4. CASE \/ FindLibraryError(u)
           \/ \E s \in 1..src_head : Latest(u, s)
           \/ \E d \in states : \/ ReadBridge(u, d) \/ FindLibrary(u, d)
                                \/ AwaitLib(u, d) \/ ReadBridgeLt(u, d)
  BY <1>4 DEF Latest, ReadBridge, FindLibrary, FindLibraryError, AwaitLib, ReadBridgeLt, Goto
<1>5. CASE SendDeploy(u)
  <2> DEFINE m == [id |-> next_id, by |-> u, kind |-> "lib", block |-> cand[u]]
  <2>1. /\ pc[u] = "deploy" /\ pc'[u] \in {"deploying", "idle"} /\ min_lt' = min_lt
        /\ faults' = faults \/ faults'[u] = faults[u] + 1
        /\ mempool' \in {mempool, mempool \cup {m}}
    BY <1>1, <1>5 DEF SendDeploy, Post
  <2>2. m.kind = "lib"
    OBVIOUS
  <2> HIDE DEF m
  <2> QED
    BY <2>1, <2>2
<1>6. CASE DeploySent(u)
  BY <1>1, <1>6 DEF DeploySent, Outcome
<1>7. CASE KeyBlockSent(u)
  BY <1>1, <1>7 DEF KeyBlockSent, Outcome
<1> QED
  BY <1>2, <1>3, <1>4, <1>5, <1>6, <1>7 DEF StepOf, Round

LEMMA FaultFrame ==
  ASSUME TypeOK, NEW u \in Uploaders, NEW v \in Uploaders, v # u, StepOf(v)
  PROVE  faults'[u] = faults[u]
<1> USE DEF TypeOK
<1>1. CASE Fail(v) \/ Crash(v)
  BY <1>1 DEF Fail, Crash
<1>2. CASE SendDeploy(v) \/ SendKeyBlock(v)
  BY <1>2 DEF SendDeploy, SendKeyBlock, Post
<1>3. CASE Round(v) /\ ~SendDeploy(v) /\ ~SendKeyBlock(v)
  BY <1>3 DEF Round, ReadBridge, Latest, Walk, FindLibrary, FindLibraryError,
       DeploySent, AwaitLib, ReadBridgeLt, KeyBlockSent, Confirm, Outcome
<1> QED
  BY <1>1, <1>2, <1>3 DEF StepOf

LEMMA OwnPrice ==
  ASSUME Traffic, NEW u \in Uploaders, PriceInv, StepOf(u)
  PROVE  Cost(u)' <= 2 * faults'[u]
<1>1. CASE SendKeyBlock(u) \/ Crash(u) \/ Confirm(u)
  BY <1>1, PostPrice, CrashPrice, ConfirmPrice
<1>2. CASE ~(SendKeyBlock(u) \/ Crash(u) \/ Confirm(u))
  <2>1. /\ min_lt' = min_lt
        /\ faults' = faults \/ faults'[u] = faults[u] + 1
        /\ mempool \subseteq mempool' /\ \A m \in mempool' \ mempool : m.kind = "lib"
        /\ \/ pc[u] \notin Sending /\ pc'[u] \notin Sending
           \/ /\ pc[u] \in Sending /\ pc'[u] \in Sending
              /\ msg' = msg /\ cand' = cand
           \/ /\ pc[u] = "sending" /\ pc'[u] = "idle"
              /\ \/ msg[u] \in unfunded
                 \/ msg[u] \notin executed /\ \A m \in mempool : m.id # msg[u]
    BY <1>2, QuietFrame DEF Traffic
  <2>2. UNCHANGED <<dst, states, txs, queue, executed, unfunded>>
    BY UploaderFrame
  <2>3. SamePosts(u)
    BY <2>1, <2>2 DEF SamePosts, Posted
  <2>4. CASE pc[u] \notin Sending /\ pc'[u] \notin Sending
    <3>1. ~Flying(u) /\ ~Flying(u)' /\ Answers(u) = {} /\ Answers(u)' = {}
      BY <2>4 DEF Flying, Answers
    <3> QED
      BY <2>1, <2>2, <2>3, <3>1, SamePrice
  <2>5. CASE pc[u] \in Sending /\ pc'[u] \in Sending /\ msg' = msg /\ cand' = cand
    <3>1. (Flying(u)' <=> Flying(u)) /\ Answers(u)' = Answers(u)
      BY <2>2, <2>3, <2>5 DEF Flying, Answers, SamePosts
    <3> QED
      BY <2>1, <2>2, <2>3, <2>5, <3>1, SamePrice
  <2>6. CASE /\ pc[u] = "sending" /\ pc'[u] = "idle"
             /\ \/ msg[u] \in unfunded
                \/ msg[u] \notin executed /\ \A m \in mempool : m.id # msg[u]
    <3>1. /\ \A m \in mempool \cup queue : m.id # msg[u]
          /\ \A t \in txs : t.id # msg[u]
      BY <2>6 DEF Traffic, MailInv, AnswerInv, IdsOnce
    <3>2. ~Flying(u) /\ Answers(u) = {}
      BY <3>1 DEF Flying, Posted, Answers
    <3>3. ~Flying(u)' /\ Answers(u)' = {}
      BY <2>6 DEF Flying, Answers, Sending
    <3> QED
      BY <2>1, <2>2, <2>3, <3>2, <3>3, SamePrice
  <2> QED
    BY <2>1, <2>4, <2>5, <2>6
<1> QED
  BY <1>1, <1>2

LEMMA PriceStep == ASSUME Traffic, PriceInv, [Next]_vars PROVE PriceInv'
<1> SUFFICES ASSUME NEW u \in Uploaders PROVE Cost(u)' <= 2 * faults'[u]
  BY DEF PriceInv
<1>1. ASSUME Same(u), SamePosts(u), UNCHANGED <<dst, states, txs>>, faults'[u] = faults[u]
      PROVE  Cost(u)' <= 2 * faults'[u]
  <2>1. (Flying(u)' <=> Flying(u)) /\ Answers(u)' = Answers(u)
    BY <1>1 DEF Flying, Answers, SamePosts, Same
  <2> QED
    BY <1>1, <2>1, SamePrice DEF Same
<1>2. CASE NewKeyBlock \/ Funding \/ UNCHANGED vars
  <2>1. UNCHANGED <<dst, states, txs, mempool, queue, faults, mem, pc>>
    BY <1>2 DEF NewKeyBlock, Funding, Drain, TopUp, vars, mem, locals, kept
  <2>2. SamePosts(u) /\ Same(u)
    BY <2>1 DEF SamePosts, Posted, Same, mem, locals, kept
  <2> QED
    BY <1>1, <2>1, <2>2
<1>3. ASSUME NEW m \in mempool, Execute(m) PROVE Cost(u)' <= 2 * faults'[u]
  <2>1. SamePosts(u)
    BY <1>3 DEF Execute, SamePosts, Posted
  <2>2. Same(u) /\ UNCHANGED <<dst, states, txs, faults>>
    BY <1>3 DEF Execute, Same, mem, locals, kept
  <2> QED
    BY <1>1, <2>1, <2>2
<1>4. ASSUME NEW m \in mempool, ExecuteUnfunded(m) \/ Lose(m) PROVE Cost(u)' <= 2 * faults'[u]
  <2>1. Same(u) /\ UNCHANGED <<dst, states, txs, queue, faults>> /\ mempool' = mempool \ {m}
    BY <1>4 DEF ExecuteUnfunded, Lose, Same, mem, locals, kept
  <2> QED
    BY <2>1, LostPrice
<1>5. ASSUME NEW m \in queue, DeployLib(m) PROVE Cost(u)' <= 2 * faults'[u]
  <2>1. SamePosts(u)
    BY <1>5 DEF DeployLib, SamePosts, Posted
  <2>2. /\ Same(u) /\ faults' = faults /\ txs' = txs /\ states' = states \cup {dst'}
        /\ dst'.lt = dst.lt + 1 /\ dst'.epoch = dst.epoch
    BY <1>5 DEF DeployLib, Same, mem, locals, kept, Traffic, Base, TypeOK, DstState
  <2>3. dst.epoch \in Nat
    BY MessageTypes DEF Traffic, Base
  <2> QED
    BY <2>1, <2>2, <2>3, ReceivedPrice
<1>6. ASSUME NEW m \in queue, BridgeReceive(m) PROVE Cost(u)' <= 2 * faults'[u]
  <2>1. PICK t \in txs' : /\ txs' = txs \cup {t} /\ t.lt = dst.lt + 1 /\ t.id = m.id
                          /\ t.by = m.by /\ t.block = m.block
    BY <1>6, ReceiveFrame DEF Traffic
  <2>2. /\ m.kind = "key" /\ queue' = queue \ {m} /\ mempool' = mempool
        /\ dst'.lt = dst.lt + 1 /\ states' = states \cup {dst'}
        /\ dst'.epoch = IF Accepts(m.block) THEN Epoch[m.block] ELSE dst.epoch
    BY <1>6, ReceiveFrame DEF Traffic
  <2>3. SamePosts(u)
    BY <2>1, <2>2 DEF SamePosts, Posted
  <2>4. Same(u) /\ faults' = faults
    BY <1>6 DEF BridgeReceive, Same, mem, locals, kept
  <2>5. dst.epoch \in Nat /\ Epoch[m.block] \in Nat
    BY MessageTypes DEF Traffic, Base
  <2>6. dst'.epoch \in Nat /\ dst.epoch <= dst'.epoch
    BY <2>2, <2>5 DEF Accepts
  <2> QED
    BY <2>1, <2>2, <2>3, <2>4, <2>6, ReceivedPrice
<1>7. ASSUME NEW v \in Uploaders, v # u, StepOf(v) PROVE Cost(u)' <= 2 * faults'[u]
  <2>1. Same(u) /\ UNCHANGED <<dst, states, txs, queue>>
    BY <1>7, LocalFrame, UploaderFrame DEF Traffic, Base
  <2>2. mempool \subseteq mempool' /\ \A m \in mempool' \ mempool : m.by # u
    <3>1. mempool \subseteq mempool'
      BY <1>7, PostFrame
    <3>2. ASSUME NEW m \in mempool' \ mempool PROVE m.by # u
      <4>1. CASE m \in queue
        <5>1. m.id < next_id /\ m.id \in Nat /\ m.id \in executed
          BY <4>1, MessageTypes DEF Traffic, Base, IdInv, MailInv
        <5>2. m.id = next_id
          BY <1>7, <3>2, PostFrame
        <5> QED
          BY <5>1, <5>2
      <4>2. CASE m \notin queue
        BY <1>7, <3>2, <4>2, NewMail
      <4> QED
        BY <4>1, <4>2
    <3> QED
      BY <3>1, <3>2
  <2>3. SamePosts(u)
    BY <2>1, <2>2 DEF SamePosts, Posted
  <2>4. faults'[u] = faults[u]
    BY <1>7, FaultFrame DEF Traffic, Base
  <2> QED
    BY <1>1, <2>1, <2>3, <2>4
<1>8. CASE StepOf(u)
  BY <1>8, OwnPrice
<1> QED
  BY <1>2, <1>3, <1>4, <1>5, <1>6, <1>7, <1>8 DEF Next, NetworkNext, StepOf

\* A rejected block that u had not sent before: the bridge has taken that block
\* from someone, and if from u then from a message that did repeat it.
LEMMA Excuse ==
  ASSUME Traffic, NEW u \in Uploaders, NEW r \in Rejected(u), r.id \notin Dups(u)
  PROVE  \E a \in txs : a.ok /\ a.block = r.block /\ (a.by = u => a.id \in Dups(u))
<1>1. /\ r \in txs /\ r.by = u /\ ~r.ok /\ r.block \in Seqnos /\ SignedByPrev(r.block)
      /\ r.id \in Nat /\ r.lt <= dst.lt /\ dst \in states /\ dst.epoch \in Nat
  BY MessageTypes DEF Rejected, Traffic, Base, NetInv, BridgeInv
<1>2. Epoch[r.block] \in Epoch[1] + 1..dst.epoch
  <2>1. Epoch[r.block] <= dst.epoch
    BY <1>1 DEF Traffic, BridgeInv
  <2>2. /\ Epoch[r.block] \in Nat /\ Epoch[1] \in Nat /\ Epoch[r.block - 1] \in Nat
        /\ Epoch[r.block] = Epoch[r.block - 1] + 1 /\ Epoch[1] <= Epoch[r.block - 1]
    BY <1>1, LaterEpoch
  <2> QED
    BY <1>1, <2>1, <2>2
<1>3. PICK a \in txs : a.ok /\ Epoch[a.block] = Epoch[r.block]
  BY <1>2 DEF Traffic, BridgeInv
<1>4. a.block \in Seqnos /\ a.id \in Nat /\ SignedByPrev(a.block)
  BY MessageTypes DEF Traffic, Base, BridgeInv
<1>5. a.block = r.block
  BY <1>1, <1>3, <1>4, FirstOfEpoch
<1>6. ASSUME a.by = u PROVE a.id \in Dups(u)
  <2>1. Posted(u, a.id, r.block) /\ Posted(u, r.id, r.block)
    BY <1>1, <1>5, <1>6 DEF Posted
  <2>2. a.id # r.id
    BY <1>1, <1>3 DEF Traffic, MailInv
  <2>3. ~(a.id < r.id)
    BY <1>1, <1>4, <2>1 DEF Dups, Again
  <2>4. r.id < a.id
    BY <1>1, <1>4, <2>2, <2>3
  <2> QED
    BY <1>1, <1>4, <2>1, <2>4 DEF Dups, Again
<1> QED
  BY <1>3, <1>5, <1>6

\* Rejections cost no more than the faults and the other uploaders excuse: each is
\* of a repeated message, or of a block the bridge took from another one.
THEOREM WasteIsExcusedHolds == Spec => []WasteIsExcused
<1>1. Init => PriceInv
  <2> SUFFICES ASSUME Init, NEW u \in Uploaders PROVE Cost(u) <= 2 * faults[u]
    BY DEF PriceInv
  <2>1. \A i, s : ~Posted(u, i, s)
    BY DEF Init, Posted
  <2>2. Dups(u) = {} /\ Ahead(u) = {} /\ ~Stale(u)
    BY <2>1 DEF Dups, Again, Ahead, Forgotten, Stale
  <2>3. Cardinality(Dups(u)) = 0 /\ Cardinality(Ahead(u)) = 0
    BY <2>2, FS_EmptySet
  <2>4. faults[u] = 0
    BY DEF Init
  <2> QED
    BY <2>2, <2>3, <2>4 DEF Cost
<1>2. Traffic /\ PriceInv /\ [Next]_vars => PriceInv'
  BY PriceStep
<1>3. ASSUME Traffic, PriceInv PROVE WasteIsExcused
  <2> SUFFICES ASSUME NEW u \in Uploaders
               PROVE  Cardinality(Rejected(u)) <= 2 * faults[u] + Cardinality(AcceptedOfOthers(u))
    BY DEF WasteIsExcused
  <2> DEFINE R == Rejected(u)
             O == AcceptedOfOthers(u)
             D == {t \in txs : t.by = u /\ t.id \in Dups(u)}
             f == [r \in R |-> IF r.id \in Dups(u) THEN r
                               ELSE CHOOSE a \in txs : /\ a.ok /\ a.block = r.block
                                                       /\ a.by = u => a.id \in Dups(u)]
             g == [t \in D |-> t.id]
  <2>1. IsFiniteSet(O) /\ IsFiniteSet(Dups(u))
    <3>1. IsFiniteSet(txs) /\ O \subseteq txs
      BY <1>3 DEF Traffic, BridgeInv, AcceptedOfOthers
    <3> QED
      BY <1>3, <3>1, FS_Subset, FiniteParts
  <2>2. \A r \in R : r.id \in Dups(u) => f[r] = r
    OBVIOUS
  <2>3. \A r \in R : r.id \notin Dups(u) =>
          /\ f[r] \in txs /\ f[r].ok /\ f[r].block = r.block
          /\ f[r].by = u => f[r].id \in Dups(u)
    <3> SUFFICES ASSUME NEW r \in R, r.id \notin Dups(u)
                 PROVE  /\ f[r] \in txs /\ f[r].ok /\ f[r].block = r.block
                        /\ f[r].by = u => f[r].id \in Dups(u)
      OBVIOUS
    <3>1. \E a \in txs : a.ok /\ a.block = r.block /\ (a.by = u => a.id \in Dups(u))
      BY <1>3, Excuse
    <3> QED
      BY <3>1
  <2>4. DOMAIN f = R /\ f = [r \in R |-> f[r]]
    OBVIOUS
  <2> HIDE DEF f
  <2>5. f \in [R -> D \cup O]
    <3>1. \A r \in R : f[r] \in D \cup O
      BY <2>2, <2>3 DEF Rejected, AcceptedOfOthers
    <3> QED
      BY <2>4, <3>1
  <2>6. ASSUME NEW r \in R, NEW q \in R, f[r] = f[q] PROVE r = q
    <3>1. CASE r.id \in Dups(u) /\ q.id \in Dups(u)
      BY <2>2, <2>6, <3>1
    <3>2. CASE r.id \in Dups(u) /\ q.id \notin Dups(u)
      BY <2>2, <2>3, <2>6, <3>2 DEF Rejected
    <3>3. CASE r.id \notin Dups(u) /\ q.id \in Dups(u)
      BY <2>2, <2>3, <2>6, <3>3 DEF Rejected
    <3>4. CASE r.id \notin Dups(u) /\ q.id \notin Dups(u)
      <4>1. r.block = q.block
        BY <2>3, <2>6, <3>4
      <4>2. /\ Posted(u, r.id, r.block) /\ Posted(u, q.id, r.block)
            /\ r.id \in Nat /\ q.id \in Nat /\ r.block \in Seqnos
        BY <1>3, <4>1, MessageTypes DEF Posted, Rejected, Traffic, Base
      <4>3. ~(r.id < q.id) /\ ~(q.id < r.id)
        BY <3>4, <4>2 DEF Dups, Again
      <4>4. r.id = q.id
        BY <4>2, <4>3
      <4> QED
        BY <1>3, <4>4 DEF Traffic, MailInv, Rejected
    <3> QED
      BY <3>1, <3>2, <3>3, <3>4
  <2>7. IsFiniteSet(D) /\ Cardinality(D) <= Cardinality(Dups(u))
    <3>1. g \in [D -> Dups(u)]
      OBVIOUS
    <3>2. ASSUME NEW s \in D, NEW t \in D, g[s] = g[t] PROVE s = t
      BY <1>3, <3>2 DEF Traffic, MailInv
    <3>3. g \in Injection(D, Dups(u))
      BY <3>1, <3>2 DEF Injection, IsInjective
    <3> HIDE DEF g, D
    <3> QED
      BY <2>1, <3>3, FS_Injection
  <2>8. f \in Injection(R, D \cup O)
    BY <2>5, <2>6 DEF Injection, IsInjective
  <2> HIDE DEF D, O, R
  <2>9. /\ IsFiniteSet(D \cup O) /\ Cardinality(D \cap O) \in Nat
        /\ Cardinality(D \cup O) = Cardinality(D) + Cardinality(O) - Cardinality(D \cap O)
    <3>1. IsFiniteSet(D \cap O)
      BY <2>1, FS_Subset
    <3> QED
      BY <2>1, <2>7, <3>1, FS_Union, FS_CardinalityType
  <2>10. IsFiniteSet(R) /\ Cardinality(R) <= Cardinality(D \cup O)
    BY <2>8, <2>9, FS_Injection
  <2>11. /\ Cardinality(R) \in Nat /\ Cardinality(D) \in Nat /\ Cardinality(O) \in Nat
         /\ Cardinality(Dups(u)) \in Nat /\ Cardinality(Ahead(u)) \in Nat
    BY <1>3, <2>1, <2>7, <2>10, FS_CardinalityType, FiniteParts
  <2>12. Cardinality(Dups(u)) <= 2 * faults[u]
    <3>1. Cost(u) <= 2 * faults[u] /\ faults[u] \in Nat
      BY <1>3, MessageTypes DEF PriceInv, Traffic, Base
    <3> QED
      BY <2>11, <3>1 DEF Cost
  <2>13. faults[u] \in Nat
    BY <1>3, MessageTypes DEF Traffic, Base
  <2>14. Cardinality(R) <= 2 * faults[u] + Cardinality(O)
    BY <2>7, <2>9, <2>10, <2>11, <2>12, <2>13
  <2> QED
    BY <2>14 DEF R, O
<1> QED
  BY <1>1, <1>2, <1>3, TrafficInvariance, PTL DEF Spec
===============================================================================
