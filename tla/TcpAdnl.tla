------------------------------- MODULE TcpAdnl --------------------------------
(* TcpAdnl of ton-lite-client: queries that share one encrypted connection.    *)
(* Each is registered under its id, handed to a detached task that encrypts    *)
(* and writes it under a lock, and waits for the answer that the socket reader *)
(* finds an entry for; its caller may give it up at any await.                 *)
(*                                                                             *)
(* External: the server and TCP.  The server can read a packet if the stream   *)
(* up to its end is whole packets in cipher order, and then answers it at any  *)
(* time, or not.  A packet takes two writes.  What is written after the        *)
(* connection has closed reaches no one.  Reading an answer off the stream is  *)
(* PacketReader.  Ids never wrap, so no entry is replaced and DuplicateQuery   *)
(* does not occur.                                                             *)
EXTENDS Integers, Sequences

CONSTANT Callers    \* calls of `query`

VARIABLES
  query_id,     \* the next id
  id,           \* the id of each query
  pc,           \* what the caller awaits, or how the query ended
  sender,       \* its detached task
  lock,         \* who holds the Mutex<Sender>: nobody or one query
  encrypted,    \* packets the cipher has gone over
  wire,         \* pieces of packets written
  queries,      \* QueriesCache: ids with the query their oneshot belongs to
  data,         \* whose answer each query's oneshot holds
  up,           \* the connection has not closed
  reader,       \* socket_reader
  closed,       \* the flag of Closed
  waiter,       \* the call of wait_closed
  notified      \* its Notified has been woken

calls == <<query_id, id, pc, queries, data>>
tasks == <<sender, lock, encrypted, wire>>
closing == <<reader, closed, waiter, notified>>
vars == <<query_id, id, pc, sender, lock, encrypted, wire, queries, data, up,
          reader, closed, waiter, notified>>

Waiting == {"select", "recv"}
Over == {"answered", "io_error", "gave_up"}

Pieces == [from : Callers, pos : Nat, part : {1, 2}]

TypeOK ==
  /\ query_id \in Nat
  /\ id \in [Callers -> Nat]
  /\ pc \in [Callers -> {"idle"} \cup Waiting \cup Over]
  /\ sender \in [Callers -> {"none", "spawned", "queued", "first", "second",
                             "sent", "failed", "skipped"}]
  /\ lock \in {{}} \cup {{c} : c \in Callers}
  /\ encrypted \in Nat
  /\ wire \in Seq(Pieces)
  /\ queries \subseteq [id : Nat, to : Callers]
  /\ data \in [Callers -> SUBSET Callers]
  /\ up \in BOOLEAN
  /\ reader \in {"running", "closing", "ended"}
  /\ closed \in BOOLEAN
  /\ waiter \in {"start", "created", "checked", "waiting", "returned"}
  /\ notified \in BOOLEAN

Init ==
  /\ query_id = 0
  /\ id = [c \in Callers |-> 0]
  /\ pc = [c \in Callers |-> "idle"]
  /\ sender = [c \in Callers |-> "none"]
  /\ lock = {}
  /\ encrypted = 0
  /\ wire = <<>>
  /\ queries = {}
  /\ data = [c \in Callers |-> {}]
  /\ up = TRUE
  /\ reader = "running"
  /\ closed = FALSE
  /\ waiter = "start"
  /\ notified = FALSE

-------------------------------------------------------------------------------
(* query. *)

\* Mutation: the counter is read and not moved.
SameId == query_id

\* fetch_add
NextQueryId == query_id + 1

\* PendingAdnlQuery::drop
Unregistered(c) == {e \in queries : e.id # id[c]}

\* From the id to the first await: the task is spawned, the entry is there.
Query(c) ==
  /\ pc[c] = "idle"
  /\ pc' = [pc EXCEPT ![c] = "select"]
  /\ id' = [id EXCEPT ![c] = query_id]
  /\ query_id' = NextQueryId
  /\ queries' = {e \in queries : e.id # query_id} \cup {[id |-> query_id, to |-> c]}
  /\ sender' = [sender EXCEPT ![c] = "spawned"]
  /\ UNCHANGED <<lock, encrypted, wire, data, up, closing>>

\* select: the packet has been written.
Sent(c) ==
  /\ pc[c] = "select"
  /\ sender[c] = "sent"
  /\ pc' = [pc EXCEPT ![c] = "recv"]
  /\ UNCHANGED <<query_id, id, queries, data, tasks, up, closing>>

\* select: ConnectionError; the pending query is dropped.
SendFailed(c) ==
  /\ pc[c] = "select"
  /\ sender[c] = "failed"
  /\ pc' = [pc EXCEPT ![c] = "io_error"]
  /\ queries' = Unregistered(c)
  /\ UNCHANGED <<query_id, id, data, tasks, up, closing>>

\* The oneshot has a value, which is then decoded.
Receive(c) ==
  /\ pc[c] \in Waiting
  /\ data[c] # {}
  /\ pc' = [pc EXCEPT ![c] = "answered"]
  /\ UNCHANGED <<query_id, id, queries, data, tasks, up, closing>>

\* Mutation: the task is cut off with its caller.
GiveUpAborts(c) ==
  /\ pc[c] \in Waiting
  /\ pc' = [pc EXCEPT ![c] = "gave_up"]
  /\ queries' = Unregistered(c)
  /\ lock' = lock \ {c}
  /\ sender' = [sender EXCEPT ![c] = "skipped"]
  /\ UNCHANGED <<query_id, id, data, encrypted, wire, up, closing>>

\* Mutation: the entry stays.
GiveUpLeaks(c) ==
  /\ pc[c] \in Waiting
  /\ pc' = [pc EXCEPT ![c] = "gave_up"]
  /\ UNCHANGED <<query_id, id, queries, data, tasks, up, closing>>

\* The caller drops the future, on a timeout or otherwise; the task lives on.
GiveUp(c) ==
  /\ pc[c] \in Waiting
  /\ pc' = [pc EXCEPT ![c] = "gave_up"]
  /\ queries' = Unregistered(c)
  /\ UNCHANGED <<query_id, id, data, tasks, up, closing>>

-------------------------------------------------------------------------------
(* The task that sends a query. *)

\* The CancellationFlag is set when `query` is left, in whichever way.
Cancelled(c) == pc[c] \in Over

BeginSend(c) ==
  /\ sender[c] = "spawned"
  /\ sender' = [sender EXCEPT ![c] = IF Cancelled(c) THEN "skipped" ELSE "queued"]
  /\ UNCHANGED <<lock, encrypted, wire, calls, up, closing>>

\* Mutation: more than one may hold the lock.
EncryptShared(c) ==
  /\ sender[c] = "queued"
  /\ sender' = [sender EXCEPT ![c] = IF Cancelled(c) THEN "skipped" ELSE "first"]
  /\ lock' = IF Cancelled(c) THEN lock ELSE lock \cup {c}
  /\ encrypted' = IF Cancelled(c) THEN encrypted ELSE encrypted + 1
  /\ UNCHANGED <<wire, calls, up, closing>>

\* The lock is taken, and the flag checked again before the cipher moves.
Encrypt(c) ==
  /\ sender[c] = "queued"
  /\ lock = {}
  /\ IF Cancelled(c)
     THEN /\ sender' = [sender EXCEPT ![c] = "skipped"]
          /\ UNCHANGED <<lock, encrypted>>
     ELSE /\ sender' = [sender EXCEPT ![c] = "first"]
          /\ lock' = {c}
          /\ encrypted' = encrypted + 1
  /\ UNCHANGED <<wire, calls, up, closing>>

Written(c, part) ==
  IF up THEN Append(wire, [from |-> c, pos |-> encrypted, part |-> part]) ELSE wire

\* write_all
WriteFirst(c) ==
  /\ sender[c] = "first"
  /\ sender' = [sender EXCEPT ![c] = "second"]
  /\ wire' = Written(c, 1)
  /\ UNCHANGED <<lock, encrypted, calls, up, closing>>

WriteSecond(c) ==
  /\ sender[c] = "second"
  /\ sender' = [sender EXCEPT ![c] = "sent"]
  /\ wire' = Written(c, 2)
  /\ lock' = {}
  /\ UNCHANGED <<encrypted, calls, up, closing>>

WriteFails(c) ==
  /\ sender[c] \in {"first", "second"}
  /\ ~up
  /\ sender' = [sender EXCEPT ![c] = "failed"]
  /\ lock' = {}
  /\ UNCHANGED <<encrypted, wire, calls, up, closing>>

-------------------------------------------------------------------------------
(* The socket reader and wait_closed. *)

\* Whole packets in cipher order.
Readable(w) ==
  \A k \in 1..Len(w) :
    /\ w[k].pos = (k + 1) \div 2
    /\ w[k].part = 2 - (k % 2)

\* The server has read the packet of c.
Served(c) ==
  \E k \in 1..Len(wire) :
    wire[k].from = c /\ wire[k].part = 2 /\ Readable(SubSeq(wire, 1, k))

\* update_query with the answer to c; answers without an entry are ignored.
ReadAnswer(c) ==
  /\ reader = "running"
  /\ Served(c)
  /\ \E e \in queries :
       /\ e.id = id[c]
       /\ queries' = queries \ {e}
       /\ data' = [data EXCEPT ![e.to] = {c}]
  /\ UNCHANGED <<query_id, id, pc, tasks, up, closing>>

\* The server closes the connection, or the network breaks it.
Disconnect ==
  /\ up
  /\ up' = FALSE
  /\ UNCHANGED <<calls, tasks, closing>>

\* socket_reader returns: Closed::close sets the flag, then wakes.
SetClosed ==
  /\ reader = "running"
  /\ ~up
  /\ reader' = "closing"
  /\ closed' = TRUE
  /\ UNCHANGED <<calls, tasks, up, waiter, notified>>

\* Mutation: a Notified counts only once it is awaited.
AwaitedOnly == {"waiting"}

\* Every Notified that has been created.
Listening == {"created", "checked", "waiting"}

NotifyWaiters ==
  /\ reader = "closing"
  /\ reader' = "ended"
  /\ notified' = (notified \/ waiter \in Listening)
  /\ UNCHANGED <<calls, tasks, up, closed, waiter>>

\* wait_closed: "Aquire `Notified` future before the flag check."
CreateNotified ==
  /\ waiter = "start"
  /\ waiter' = "created"
  /\ UNCHANGED <<calls, tasks, up, reader, closed, notified>>

CheckClosed ==
  /\ waiter = "created"
  /\ waiter' = IF closed THEN "returned" ELSE "checked"
  /\ UNCHANGED <<calls, tasks, up, reader, closed, notified>>

\* The Notified is polled for the first time.
Await ==
  /\ waiter = "checked"
  /\ waiter' = "waiting"
  /\ UNCHANGED <<calls, tasks, up, reader, closed, notified>>

Woken ==
  /\ waiter = "waiting"
  /\ notified
  /\ waiter' = "returned"
  /\ UNCHANGED <<calls, tasks, up, reader, closed, notified>>

-------------------------------------------------------------------------------
Call(c) == Query(c) \/ Sent(c) \/ SendFailed(c) \/ Receive(c) \/ GiveUp(c)
Send(c) == BeginSend(c) \/ Encrypt(c) \/ WriteFirst(c) \/ WriteSecond(c) \/ WriteFails(c)
Close == SetClosed \/ NotifyWaiters
WaitClosed == CreateNotified \/ CheckClosed \/ Await \/ Woken

Next ==
  \/ \E c \in Callers : Call(c) \/ Send(c) \/ ReadAnswer(c)
  \/ Disconnect \/ Close \/ WaitClosed

Spec == Init /\ [][Next]_vars

\* The runtime runs the reader and the reconnect task; no query has to be made,
\* written or answered.
FairSpec == Spec /\ WF_vars(Close) /\ WF_vars(WaitClosed)

-------------------------------------------------------------------------------
(* Properties. *)

\* The server can decode everything it has been sent: packets are written whole
\* and in the order they were encrypted, also when callers give up while theirs
\* is being written (the lock, and the detached task of `query`).
WireInOrder == Readable(wire)

\* A query is only ever given the answer to itself (query_id, QueriesCache).
AnswersOwn == \A c \in Callers : data[c] \subseteq {c}

\* The cache holds the queries that are waited for and not answered, and no
\* others: none is forgotten, none is left behind by a caller that gave up.
CacheIsExact ==
  queries = {[id |-> id[c], to |-> c] :
               c \in {x \in Callers : pc[x] \in Waiting /\ data[x] = {}}}

\* wait_closed returns once the connection has closed, however the flag check and
\* the wake-up fall.
CloseIsSeen == ~up ~> waiter = "returned"
===============================================================================
