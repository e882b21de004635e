----------------------------- MODULE ReliableSend -----------------------------
(* One call of `Wallet::send_message` (sync-service): wait for the wallet's    *)
(* balance, sign with an expiry time, hand the message to an RPC node, and     *)
(* look for its transaction by polling the account and paging back through its *)
(* history (`send_message_reliable`, `find_transaction`).                      *)
(*                                                                             *)
(* The destination chain is external.  An account's transactions are numbered  *)
(* 1, 2, ... and the number stands for the logical time; `msg_lt` is the one   *)
(* that executed our message (0: none yet).  `blocks` holds every account      *)
(* state the chain has produced and any of them may be served by an RPC node,  *)
(* however old: the client goes round several nodes.  An RPC error where the   *)
(* code sleeps and repeats the same request is a stuttering step.              *)
EXTENDS Naturals

CONSTANTS
  BatchLen,     \* BATCH_LEN: transactions asked for in one page
  Expiries,     \* what `now + ttl` may come to, on the client's own clock
  MaxTime,      \* bound on block times
  MaxTxs,       \* bound on the account's transactions
  MaxFaults     \* bound on failed page requests

ASSUME ReliableSendAssumption ==
  /\ BatchLen \in Nat \ {0}
  /\ MaxTime \in Nat
  /\ MaxTxs \in Nat
  /\ MaxFaults \in Nat
  /\ Expiries \subseteq 0..(MaxTime + 1)

VARIABLES
  blocks,       \* account states some RPC node may serve
  head,         \* the newest of them
  msg_lt,       \* transaction that executed the message, 0 if none
  in_flight,    \* the message is in a mempool (or, for an internal one, queued)
  pc,           \* where the call stands
  wait_lt,      \* known_lt of wait_for_state, 0 for None
  known_lt,     \* known_lt of find_transaction: nothing up to it is our message
  view,         \* the account state being scanned
  cursor,       \* `last`: next transaction to be fetched
  expire_at,    \* MaxTime + 1 stands for None
  faults,       \* failed page requests so far
  answer        \* what the call returned

chain == <<blocks, head, msg_lt>>
client == <<pc, wait_lt, known_lt, view, cursor, expire_at, faults, answer>>
vars == <<blocks, head, msg_lt, in_flight, pc, wait_lt, known_lt, view, cursor,
          expire_at, faults, answer>>

-------------------------------------------------------------------------------
AccountBlock == [gen_utime : 0..MaxTime, last_lt : 0..MaxTxs]

\* How the balance found in a state compares with what the call needs.
Balances == {"Low", "Enough", "Frozen"}

\* No expiry: `find_transaction(.., None)`, as for the bridge's transaction.
Never == MaxTime + 1

TypeOK ==
  /\ blocks \subseteq AccountBlock
  /\ head \in AccountBlock
  /\ msg_lt \in 0..MaxTxs
  /\ in_flight \in BOOLEAN
  /\ pc \in {"wait", "send", "poll", "scan", "done"}
  /\ wait_lt \in 0..MaxTxs
  /\ known_lt \in 0..MaxTxs
  /\ view \in AccountBlock
  /\ cursor \in 0..MaxTxs
  /\ expire_at \in 0..Never
  /\ faults \in 0..MaxFaults
  /\ answer \in {"none", "found", "expired", "error"}

Init ==
  /\ \E b \in AccountBlock :
       /\ b.gen_utime = 0
       /\ b.last_lt <= 1
       /\ blocks = {b}
       /\ head = b
       /\ view = b
  /\ msg_lt = 0
  /\ in_flight = FALSE
  /\ pc = "wait"
  /\ wait_lt = 0
  /\ known_lt = 0
  /\ cursor = 0
  /\ expire_at = Never
  /\ faults = 0
  /\ answer = "none"

-------------------------------------------------------------------------------
(* The destination network. *)

\* A block without our message: up to two transactions of others, and time may
\* pass.  Room is left for ours.
OtherBlock(b) ==
  /\ b.gen_utime >= head.gen_utime
  /\ b.last_lt \in {head.last_lt, head.last_lt + 1, head.last_lt + 2}
  /\ b.last_lt + (IF msg_lt = 0 THEN 1 ELSE 0) <= MaxTxs
  /\ b # head
  /\ blocks' = blocks \cup {b}
  /\ head' = b
  /\ UNCHANGED <<msg_lt, in_flight, client>>

\* A block that executes our message, alone or after another transaction.  The
\* wallet contract refuses it past its expiry time, and executes it only once.
ExecuteBlock(b) ==
  /\ in_flight
  /\ msg_lt = 0
  /\ head.last_lt # 0
  /\ head.gen_utime <= b.gen_utime /\ b.gen_utime <= expire_at
  /\ b.last_lt \in {head.last_lt + 1, head.last_lt + 2}
  /\ blocks' = blocks \cup {b}
  /\ head' = b
  /\ msg_lt' = b.last_lt
  /\ in_flight' = FALSE
  /\ UNCHANGED client

\* An external message may be lost before any block takes it.
Lose ==
  /\ in_flight
  /\ expire_at # Never
  /\ in_flight' = FALSE
  /\ UNCHANGED <<chain, client>>

-------------------------------------------------------------------------------
(* The client. *)

\* What `get_account_state(_, known)` answers from state b.  TON compares the
\* two times for equality, a Tycho node may also answer so when it is behind.
Responses(b, known) ==
  IF b.last_lt = 0 THEN {"NotExists"}
  ELSE IF b.last_lt > known THEN {"Exists"}
  ELSE IF b.last_lt = known THEN {"Unchanged"}
  ELSE {"Exists", "Unchanged"}

\* `timings.gen_utime > expire_at`
Outdated(b) == b.gen_utime > expire_at

\* wait_for_state sees an existing account (any other answer: poll again), and
\* with enough balance the message is signed in the same step.
WaitForState(b, balance) ==
  /\ pc = "wait"
  /\ "Exists" \in Responses(b, wait_lt)
  /\ wait_lt' = b.last_lt
  /\ \/ /\ balance = "Frozen"
        /\ pc' = "done"
        /\ answer' = "error"
        /\ UNCHANGED <<known_lt, expire_at>>
     \/ /\ balance = "Enough"
        /\ pc' = "send"
        /\ known_lt' = b.last_lt
        /\ expire_at' \in Expiries
        /\ UNCHANGED answer
     \/ /\ balance = "Low"
        /\ wait_lt # b.last_lt
        /\ UNCHANGED <<pc, known_lt, expire_at, answer>>
  /\ UNCHANGED <<chain, in_flight, view, cursor, faults>>

\* `send_message`: on an error the node may still have taken the message.
Send ==
  /\ pc = "send"
  /\ \/ /\ pc' = "poll"
        /\ in_flight' = TRUE
        /\ UNCHANGED answer
     \/ /\ pc' = "done"
        /\ in_flight' \in BOOLEAN
        /\ answer' = "error"
  /\ UNCHANGED <<chain, wait_lt, known_lt, view, cursor, expire_at, faults>>

\* The end of one round of find_transaction: give up once the scanned state is
\* later than the expiry time, or sleep and poll again.
CheckExpired(b) ==
  IF Outdated(b) THEN pc' = "done" /\ answer' = "expired"
                 ELSE pc' = "poll" /\ UNCHANGED answer

\* A polled state with new transactions is scanned from its last one.
PollNew(b) ==
  /\ pc = "poll"
  /\ "Exists" \in Responses(b, known_lt)
  /\ b.last_lt > known_lt
  /\ pc' = "scan"
  /\ view' = b
  /\ cursor' = b.last_lt
  /\ UNCHANGED <<chain, in_flight, wait_lt, known_lt, expire_at, faults, answer>>

\* Mutation: the age of a state is looked at before its transactions are.
PollOldUnscanned(b) ==
  /\ pc = "poll"
  /\ Outdated(b)
  /\ CheckExpired(b)
  /\ UNCHANGED <<chain, in_flight, wait_lt, known_lt, view, cursor, expire_at, faults>>

\* A polled state without any: its age alone is looked at.
PollOld(b) ==
  /\ pc = "poll"
  /\ b.last_lt <= known_lt
  /\ Outdated(b)
  /\ CheckExpired(b)
  /\ UNCHANGED <<chain, in_flight, wait_lt, known_lt, view, cursor, expire_at, faults>>

\* Mutation: the loop leaves out the last transaction of a page.
ExaminedShort(n) == {l \in 1..cursor : l > known_lt /\ l + n > cursor + 1}

\* The n transactions of a page down from the cursor, as far as the loop over
\* them goes: it stops after the first whose predecessor is not above known_lt.
Examined(n) == {l \in 1..cursor : l > known_lt /\ l + n > cursor}

\* Mutation: the next page starts one transaction too far down.
NextCursorGap(n) == cursor - n - 1

\* Where `last` stands after that page.
NextCursor(n) == IF cursor - n > known_lt THEN cursor - n ELSE known_lt

\* One page, of up to BATCH_LEN transactions, from a node that has them.
ScanPage(b, n) ==
  /\ pc = "scan"
  /\ b.last_lt >= cursor
  /\ n <= cursor
  /\ cursor' = NextCursor(n)
  /\ \/ /\ msg_lt \in Examined(n)
        /\ pc' = "done"
        /\ answer' = "found"
        /\ UNCHANGED known_lt
     \/ /\ msg_lt \notin Examined(n)
        /\ NextCursor(n) > known_lt
        /\ UNCHANGED <<pc, known_lt, answer>>
     \/ /\ msg_lt \notin Examined(n)
        /\ NextCursor(n) <= known_lt
        /\ known_lt' = view.last_lt
        /\ CheckExpired(view)
  /\ UNCHANGED <<chain, in_flight, wait_lt, view, expire_at, faults>>

\* A failed page request, an empty page or one that does not start at the
\* cursor's transaction: the scan starts over from the state's last transaction.
ScanFault ==
  /\ pc = "scan"
  /\ faults < MaxFaults
  /\ faults' = faults + 1
  /\ cursor' = view.last_lt
  /\ UNCHANGED <<chain, in_flight, pc, wait_lt, known_lt, view, expire_at, answer>>

-------------------------------------------------------------------------------
Next ==
  \/ \E b \in AccountBlock : OtherBlock(b)
  \/ \E b \in AccountBlock : ExecuteBlock(b)
  \/ Lose
  \/ \E b \in blocks, balance \in Balances : WaitForState(b, balance)
  \/ Send
  \/ \E b \in blocks : PollNew(b)
  \/ \E b \in blocks : PollOld(b)
  \/ \E b \in blocks, n \in 1..BatchLen : ScanPage(b, n)
  \/ ScanFault

Spec == Init /\ [][Next]_vars

\* A later block comes and block time moves on; a message that stays in flight
\* is executed; a node that is up to date answers now and then (SF: a stale one
\* may answer in between); requests fail a bounded number of times.
Fairness ==
  /\ WF_vars(\E b \in AccountBlock : OtherBlock(b) /\ b.gen_utime > head.gen_utime)
  /\ WF_vars(\E b \in AccountBlock : ExecuteBlock(b))
  /\ SF_vars(PollNew(head))
  /\ SF_vars(PollOld(head))
  /\ WF_vars(ScanPage(head, 1))

FairSpec == Spec /\ Fairness

-------------------------------------------------------------------------------
(* Properties. *)

\* The call promises what Delivery says: "expired" is final, "found" is true.
\* (`find_transaction`: the expiry check follows the scan of the same state.)
Promise ==
  INSTANCE Delivery WITH
    fate <- IF msg_lt # 0 THEN "executed"
            ELSE IF head.gen_utime > expire_at THEN "dead" ELSE "open"

DeliverySpec == Promise!DSpec

\* No transaction that can still hold the message is ever put behind known_lt,
\* nor dropped between two pages of one scan, whatever states were served and
\* in whatever order (the updates of `known_lt` and `last` in find_transaction).
NothingSkipped ==
  pc \in {"poll", "scan"} /\ msg_lt # 0 =>
    /\ msg_lt > known_lt
    /\ pc = "scan" => (msg_lt <= cursor \/ msg_lt > view.last_lt)

\* Once the message is handed over, the call comes back: with its transaction
\* if it was executed, or as expired (find_transaction's outer loop).
CallReturns == (pc = "poll" /\ (expire_at < MaxTime \/ in_flight)) ~> (pc = "done")
===============================================================================
