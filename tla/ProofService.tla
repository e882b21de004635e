----------------------------- MODULE ProofService -----------------------------
(* What `proof-api-l2` promises those who ask it for proofs.  From some moment *)
(* on a transaction is promised, but for those whose chain of shard blocks it  *)
(* cannot pack, and it stays so until its time to live is over: whoever asks   *)
(* gets a proof, before and after a restart alike.  A refusal ("tx not found", *)
(* or an error) is given only for a transaction that is not promised or is     *)
(* stale, and so never after a proof that could still be had.  A request that  *)
(* a restart cuts off has no answer.                                           *)
CONSTANT Txs

VARIABLES promised, stale, request

svars == <<promised, stale, request>>

ServiceRequests == [status : {"none", "pending", "proof", "refused"}, tx : Txs]
Idle == [status : {"none"}, tx : Txs]

STypeOK ==
  /\ promised \subseteq Txs
  /\ stale \subseteq Txs
  /\ request \in ServiceRequests

SInit ==
  /\ promised = {}
  /\ stale \subseteq Txs
  /\ request \in Idle

\* What a request must be answered with a proof for.
Owed == promised \ stale

\* Time passes and blocks come; nothing is taken back but what is stale.  A
\* restart also drops the request.
Keep ==
  /\ request' = request \/ request' \in Idle
  /\ promised' \subseteq Txs
  /\ stale \subseteq stale' /\ stale' \subseteq Txs
  /\ promised \ stale' \subseteq promised'

Ask(t) ==
  /\ request.status = "none"
  /\ request' \in [status : {"pending", "refused"}, tx : {t}]
  /\ request'.status = "refused" => t \notin Owed
  /\ UNCHANGED <<promised, stale>>

Prove ==
  /\ request.status = "pending"
  /\ request.tx \in promised
  /\ request' = [request EXCEPT !.status = "proof"]
  /\ UNCHANGED <<promised, stale>>

Refuse ==
  /\ request.status = "pending"
  /\ request.tx \notin Owed
  /\ request' = [request EXCEPT !.status = "refused"]
  /\ UNCHANGED <<promised, stale>>

SNext == Keep \/ (\E t \in Txs : Ask(t)) \/ Prove \/ Refuse

SSpec == SInit /\ [][SNext]_svars
===============================================================================
