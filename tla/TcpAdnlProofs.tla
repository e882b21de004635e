---------------------------- MODULE TcpAdnlProofs -----------------------------
(* Proofs about TcpAdnl for any number of queries on a connection.             *)
EXTENDS TcpAdnl, PacketReader, TLAPS

\* Ids are handed out once, and a query has a task once it has begun.
IdInv ==
  /\ \A c \in Callers : pc[c] # "idle" => id[c] < query_id
  /\ \A c, d \in Callers : pc[c] # "idle" /\ pc[d] # "idle" /\ c # d => id[c] # id[d]
  /\ \A c \in Callers : pc[c] = "idle" => sender[c] = "none" /\ data[c] = {}
  /\ \A k \in 1..Len(wire) : pc[wire[k].from] # "idle"

\* Whoever writes has the lock, and the stream ends where the writer is.
Writing(c) == sender[c] \in {"first", "second"}

LockInv ==
  /\ \A c \in Callers : Writing(c) <=> lock = {c}
  /\ up => /\ lock = {} => Len(wire) = 2 * encrypted
           /\ \A c \in Callers :
                /\ sender[c] = "first" => Len(wire) = 2 * encrypted - 2
                /\ sender[c] = "second" => Len(wire) = 2 * encrypted - 1

IInv == TypeOK /\ IdInv /\ LockInv /\ WireInOrder /\ AnswersOwn /\ CacheIsExact

-------------------------------------------------------------------------------
LEMMA TypeStep == ASSUME TypeOK, [Next]_vars PROVE TypeOK'
<1> DEFINE Locks == {{}} \cup {{c} : c \in Callers}
<1>1. ASSUME NEW c \in Callers, Call(c) PROVE TypeOK'
  <2>1. UNCHANGED <<tasks, up, closing, data>> \/ Query(c)
    BY <1>1 DEF Call, Sent, SendFailed, Receive, GiveUp
  <2>2. CASE Query(c)
    <3>1. queries' \subseteq [id : Nat, to : Callers] /\ query_id' \in Nat
      BY <2>2 DEF TypeOK, Query, NextQueryId
    <3> QED
      BY <2>2, <3>1 DEF TypeOK, Query, Waiting, closing
  <2>3. CASE Sent(c) \/ SendFailed(c) \/ Receive(c) \/ GiveUp(c)
    <3>1. queries' \subseteq [id : Nat, to : Callers]
      BY <2>3 DEF TypeOK, Sent, SendFailed, Receive, GiveUp, Unregistered
    <3>2. pc' \in [Callers -> {"idle"} \cup Waiting \cup Over]
      BY <2>3 DEF TypeOK, Sent, SendFailed, Receive, GiveUp, Waiting, Over
    <3>3. UNCHANGED <<query_id, id, data, tasks, up, closing>>
      BY <2>3 DEF Sent, SendFailed, Receive, GiveUp
    <3> QED
      BY <3>1, <3>2, <3>3 DEF TypeOK, tasks, closing
  <2> QED
    BY <1>1, <2>2, <2>3 DEF Call
<1>2. ASSUME NEW c \in Callers, Send(c) PROVE TypeOK'
  <2>1. sender' \in [Callers -> {"none", "spawned", "queued", "first", "second",
                                 "sent", "failed", "skipped"}]
    BY <1>2 DEF TypeOK, Send, BeginSend, Encrypt, WriteFirst, WriteSecond, WriteFails
  <2>2. lock' \in Locks
    BY <1>2 DEF TypeOK, Send, BeginSend, Encrypt, WriteFirst, WriteSecond, WriteFails
  <2>3. encrypted' \in Nat
    BY <1>2 DEF TypeOK, Send, BeginSend, Encrypt, WriteFirst, WriteSecond, WriteFails
  <2>4. wire' \in Seq(Pieces)
    <3>1. \A part \in {1, 2} : [from |-> c, pos |-> encrypted, part |-> part] \in Pieces
      BY DEF TypeOK, Pieces
    <3>2. \A part \in {1, 2} : Written(c, part) \in Seq(Pieces)
      BY <3>1 DEF TypeOK, Written
    <3> QED
      BY <1>2, <3>2 DEF TypeOK, Send, BeginSend, Encrypt, WriteFirst, WriteSecond, WriteFails
  <2>5. UNCHANGED <<calls, up, closing>>
    BY <1>2 DEF Send, BeginSend, Encrypt, WriteFirst, WriteSecond, WriteFails
  <2> QED
    BY <2>1, <2>2, <2>3, <2>4, <2>5 DEF TypeOK, calls, closing
<1>3. ASSUME NEW c \in Callers, ReadAnswer(c) PROVE TypeOK'
  <2>1. PICK e \in queries : queries' = queries \ {e} /\ data' = [data EXCEPT ![e.to] = {c}]
    BY <1>3 DEF ReadAnswer
  <2>2. data' \in [Callers -> SUBSET Callers]
    BY <2>1 DEF TypeOK
  <2> QED
    BY <1>3, <2>1, <2>2 DEF TypeOK, ReadAnswer, tasks, closing
<1>4. ASSUME Disconnect \/ Close \/ WaitClosed PROVE TypeOK'
  <2>1. UNCHANGED <<calls, tasks>>
    BY <1>4 DEF Disconnect, Close, WaitClosed, SetClosed, NotifyWaiters, CreateNotified,
                CheckClosed, Await, Woken
  <2>2. up' \in BOOLEAN /\ reader' \in {"running", "closing", "ended"}
    BY <1>4 DEF TypeOK, Disconnect, Close, WaitClosed, SetClosed, NotifyWaiters,
                CreateNotified, CheckClosed, Await, Woken, closing
  <2>3. waiter' \in {"start", "created", "checked", "waiting", "returned"}
    BY <1>4 DEF TypeOK, Disconnect, Close, WaitClosed, SetClosed, NotifyWaiters,
                CreateNotified, CheckClosed, Await, Woken, closing
  <2>4. closed' \in BOOLEAN /\ notified' \in BOOLEAN
    BY <1>4 DEF TypeOK, Disconnect, Close, WaitClosed, SetClosed, NotifyWaiters,
                CreateNotified, CheckClosed, Await, Woken, closing
  <2> QED
    BY <2>1, <2>2, <2>3, <2>4 DEF TypeOK, calls, tasks
<1>5. CASE UNCHANGED vars
  BY <1>5 DEF TypeOK, vars
<1> QED
  BY <1>1, <1>2, <1>3, <1>4, <1>5 DEF Next

-------------------------------------------------------------------------------
(* The stream. *)

\* The two pieces of a packet follow what is there.
LEMMA Halves == \A e \in Nat : /\ (2 * e - 1 + 1) \div 2 = e /\ 2 - ((2 * e - 1) % 2) = 1
                               /\ (2 * e + 1) \div 2 = e /\ 2 - ((2 * e) % 2) = 2
OBVIOUS

LEMMA Extend ==
  ASSUME TypeOK, Readable(wire), NEW c \in Callers, NEW part \in {1, 2},
         up => Len(wire) = 2 * encrypted + part - 3
  PROVE  Readable(Written(c, part))
<1> DEFINE piece == [from |-> c, pos |-> encrypted, part |-> part]
<1>1. CASE ~up
  BY <1>1 DEF Written
<1>2. CASE up
  <2>1. wire \in Seq(Pieces) /\ encrypted \in Nat /\ Len(wire) \in Nat
    BY DEF TypeOK
  <2>2. Written(c, part) = Append(wire, piece)
    BY <1>2 DEF Written
  <2>3. ASSUME NEW k \in 1..Len(wire) + 1
        PROVE  Append(wire, piece)[k] = IF k = Len(wire) + 1 THEN piece ELSE wire[k]
    BY <2>1
  <2>4. Len(Append(wire, piece)) = Len(wire) + 1
    BY <2>1
  <2>5. /\ piece.pos = (Len(wire) + 1 + 1) \div 2
        /\ piece.part = 2 - ((Len(wire) + 1) % 2)
    <3>1. piece.pos = encrypted /\ piece.part = part
      OBVIOUS
    <3>2. CASE part = 1
      <4>1. Len(wire) + 1 = 2 * encrypted - 1
        BY <1>2, <2>1, <3>2
      <4> QED
        BY <2>1, <3>1, <3>2, <4>1, Halves
    <3>3. CASE part = 2
      <4>1. Len(wire) + 1 = 2 * encrypted
        BY <1>2, <2>1, <3>3
      <4> QED
        BY <2>1, <3>1, <3>3, <4>1, Halves
    <3> QED
      BY <3>2, <3>3
  <2>6. ASSUME NEW k \in 1..Len(wire) + 1
        PROVE  /\ Append(wire, piece)[k].pos = (k + 1) \div 2
               /\ Append(wire, piece)[k].part = 2 - (k % 2)
    <3> HIDE DEF piece
    <3>1. CASE k = Len(wire) + 1
      BY <2>3, <2>5, <3>1
    <3>2. CASE k # Len(wire) + 1
      <4>1. k \in 1..Len(wire)
        BY <2>1, <3>2
      <4> QED
        BY <2>3, <3>2, <4>1 DEF Readable
    <3> QED
      BY <3>1, <3>2
  <2> HIDE DEF piece
  <2> QED
    BY <2>2, <2>4, <2>6 DEF Readable
<1> QED
  BY <1>1, <1>2

\* A task's own step writes at the end of the stream or leaves it.
LEMMA SendStep ==
  ASSUME TypeOK, IdInv, LockInv, WireInOrder, NEW c \in Callers, Send(c)
  PROVE  LockInv' /\ WireInOrder'
<1>1. UNCHANGED <<pc, id, up>>
  BY DEF Send, BeginSend, Encrypt, WriteFirst, WriteSecond, WriteFails, calls
<1>2. /\ encrypted \in Nat /\ Len(wire) \in Nat /\ wire \in Seq(Pieces)
      /\ \A d \in Callers : d # c => sender'[d] = sender[d]
  BY DEF TypeOK, Send, BeginSend, Encrypt, WriteFirst, WriteSecond, WriteFails
<1>3. \A part : up => Len(Written(c, part)) = Len(wire) + 1
  BY <1>2 DEF Written
<1>4. \A d \in Callers : Writing(d) /\ d # c => lock = {d} /\ ~Writing(c)
  BY DEF LockInv
<1>5. CASE BeginSend(c)
  <2>1. /\ sender[c] = "spawned" /\ sender'[c] \in {"skipped", "queued"}
        /\ UNCHANGED <<lock, encrypted, wire>>
    BY <1>5 DEF TypeOK, BeginSend
  <2> QED
    BY <1>1, <1>2, <2>1 DEF LockInv, Writing, WireInOrder, Readable
<1>6. CASE Encrypt(c)
  <2>1. sender[c] = "queued" /\ lock = {} /\ wire' = wire
    BY <1>6 DEF Encrypt
  <2>2. WireInOrder'
    BY <2>1 DEF WireInOrder, Readable
  <2>3. \A d \in Callers : ~Writing(d)
    BY <2>1 DEF LockInv
  <2>4. CASE Cancelled(c)
    <3>1. sender'[c] = "skipped" /\ UNCHANGED <<lock, encrypted>>
      BY <1>6, <2>4 DEF TypeOK, Encrypt
    <3> QED
      BY <1>1, <1>2, <2>1, <2>2, <3>1 DEF LockInv, Writing
  <2>5. CASE ~Cancelled(c)
    <3>1. sender'[c] = "first" /\ lock' = {c} /\ encrypted' = encrypted + 1
      BY <1>6, <2>5 DEF TypeOK, Encrypt
    <3>2. \A d \in Callers : Writing(d)' <=> lock' = {d}
      BY <1>2, <2>3, <3>1 DEF Writing
    <3>3. up => Len(wire) = 2 * (encrypted + 1) - 2
      BY <1>2, <2>1 DEF LockInv
    <3>4. \A d \in Callers : d # c => ~(sender'[d] \in {"first", "second"})
      BY <1>2, <2>3 DEF Writing
    <3> QED
      BY <1>1, <2>1, <2>2, <3>1, <3>2, <3>3, <3>4 DEF LockInv
  <2> QED
    BY <2>4, <2>5
<1>7. CASE WriteFirst(c)
  <2>1. /\ sender[c] = "first" /\ sender'[c] = "second" /\ UNCHANGED <<lock, encrypted>>
        /\ wire' = Written(c, 1)
    BY <1>7 DEF TypeOK, WriteFirst
  <2>2. Writing(c) /\ lock = {c}
    BY <2>1 DEF LockInv, Writing
  <2>3. up => Len(wire) = 2 * encrypted - 2
    BY <2>1 DEF LockInv
  <2>4. WireInOrder'
    <3>1. up => Len(wire) = 2 * encrypted + 1 - 3
      BY <1>2, <2>3
    <3>2. Readable(Written(c, 1))
      BY <3>1, Extend DEF WireInOrder
    <3> QED
      BY <2>1, <3>2 DEF WireInOrder, Readable
  <2>5. up => Len(wire') = 2 * encrypted - 1
    BY <1>2, <1>3, <2>1, <2>3
  <2>6. \A d \in Callers : Writing(d)' <=> lock' = {d}
    BY <1>2, <2>1, <2>2 DEF LockInv, Writing
  <2>7. \A d \in Callers : d # c => ~(sender'[d] \in {"first", "second"})
    BY <1>2, <2>2 DEF LockInv, Writing
  <2> QED
    BY <1>1, <2>1, <2>2, <2>4, <2>5, <2>6, <2>7 DEF LockInv
<1>8. CASE WriteSecond(c)
  <2>1. /\ sender[c] = "second" /\ sender'[c] = "sent" /\ lock' = {} /\ UNCHANGED encrypted
        /\ wire' = Written(c, 2)
    BY <1>8 DEF TypeOK, WriteSecond
  <2>2. Writing(c) /\ lock = {c}
    BY <2>1 DEF LockInv, Writing
  <2>3. up => Len(wire) = 2 * encrypted - 1
    BY <2>1 DEF LockInv
  <2>4. WireInOrder'
    <3>1. up => Len(wire) = 2 * encrypted + 2 - 3
      BY <1>2, <2>3
    <3>2. Readable(Written(c, 2))
      BY <3>1, Extend DEF WireInOrder
    <3> QED
      BY <2>1, <3>2 DEF WireInOrder, Readable
  <2>5. up => Len(wire') = 2 * encrypted
    BY <1>2, <1>3, <2>1, <2>3
  <2>6. \A d \in Callers : ~(sender'[d] \in {"first", "second"})
    BY <1>2, <2>1, <2>2 DEF LockInv, Writing
  <2> QED
    BY <1>1, <2>1, <2>4, <2>5, <2>6 DEF LockInv, Writing
<1>9. CASE WriteFails(c)
  <2>1. /\ sender[c] \in {"first", "second"} /\ ~up /\ sender'[c] = "failed" /\ lock' = {}
        /\ wire' = wire
    BY <1>9 DEF TypeOK, WriteFails
  <2>2. Writing(c) /\ lock = {c}
    BY <2>1 DEF LockInv, Writing
  <2>3. \A d \in Callers : ~(sender'[d] \in {"first", "second"})
    BY <1>2, <2>1, <2>2 DEF LockInv, Writing
  <2> QED
    BY <1>1, <2>1, <2>3 DEF LockInv, Writing, WireInOrder, Readable
<1> QED
  BY <1>5, <1>6, <1>7, <1>8, <1>9 DEF Send

LEMMA WireStep ==
  ASSUME TypeOK, IdInv, LockInv, WireInOrder, [Next]_vars
  PROVE  LockInv' /\ WireInOrder'
<1>1. ASSUME UNCHANGED tasks, up' => up PROVE LockInv' /\ WireInOrder'
  BY <1>1 DEF tasks, LockInv, Writing, WireInOrder, Readable
<1>2. ASSUME NEW c \in Callers, Query(c) PROVE LockInv' /\ WireInOrder'
  <2>1. sender[c] = "none" /\ sender'[c] = "spawned" /\ UNCHANGED <<lock, encrypted, wire, up>>
    BY <1>2 DEF TypeOK, IdInv, Query
  <2>2. \A d \in Callers : d # c => sender'[d] = sender[d]
    BY <1>2 DEF TypeOK, Query
  <2> QED
    BY <2>1, <2>2 DEF LockInv, Writing, WireInOrder, Readable
<1>3. ASSUME NEW c \in Callers, Sent(c) \/ SendFailed(c) \/ Receive(c) \/ GiveUp(c) \/ ReadAnswer(c)
      PROVE  LockInv' /\ WireInOrder'
  <2>1. UNCHANGED <<tasks, up>>
    BY <1>3 DEF Sent, SendFailed, Receive, GiveUp, ReadAnswer
  <2> QED
    BY <1>1, <2>1
<1>4. CASE Disconnect \/ Close \/ WaitClosed
  <2>1. UNCHANGED tasks /\ (up' => up)
    BY <1>4 DEF Disconnect, Close, WaitClosed, SetClosed, NotifyWaiters, CreateNotified,
                CheckClosed, Await, Woken
  <2> QED
    BY <1>1, <2>1
<1>5. CASE UNCHANGED vars
  BY <1>1, <1>5 DEF vars, tasks
<1> QED
  BY <1>2, <1>3, <1>4, <1>5, SendStep DEF Next, Call

-------------------------------------------------------------------------------
(* Ids and the cache. *)

\* Registered, and by whom.
Registered(c) == pc[c] \in Waiting /\ data[c] = {}

LEMMA CacheMembers ==
  ASSUME CacheIsExact
  PROVE  \A e : e \in queries <=> \E c \in Callers : Registered(c) /\ e = [id |-> id[c], to |-> c]
BY DEF CacheIsExact, Registered

LEMMA CacheFrom ==
  ASSUME \A e : e \in queries <=> \E c \in Callers : Registered(c) /\ e = [id |-> id[c], to |-> c]
  PROVE  CacheIsExact
BY DEF CacheIsExact, Registered

\* A query's entry is the only one under its id.
LEMMA OwnEntry ==
  ASSUME TypeOK, IdInv, CacheIsExact, NEW c \in Callers, pc[c] # "idle",
         NEW e \in queries, e.id = id[c]
  PROVE  e.to = c /\ Registered(c)
<1>1. PICK d \in Callers : Registered(d) /\ e = [id |-> id[d], to |-> d]
  BY CacheMembers
<1>2. pc[d] # "idle" /\ id[d] = id[c] /\ e.to = d
  BY <1>1 DEF Registered, Waiting
<1>3. d = c
  BY <1>2 DEF IdInv
<1> QED
  BY <1>1, <1>2, <1>3

\* The packets that are served are those of queries that have begun.
LEMMA ServedBegun == ASSUME IdInv, NEW c \in Callers, Served(c) PROVE pc[c] # "idle"
BY DEF IdInv, Served

LEMMA IdStep == ASSUME TypeOK, IdInv, CacheIsExact, [Next]_vars PROVE IdInv'
<1>1. ASSUME NEW c \in Callers, Query(c) PROVE IdInv'
  <2>1. /\ pc[c] = "idle" /\ pc' = [pc EXCEPT ![c] = "select"]
        /\ id' = [id EXCEPT ![c] = query_id] /\ query_id' = query_id + 1
        /\ sender' = [sender EXCEPT ![c] = "spawned"] /\ UNCHANGED <<data, wire>>
    BY <1>1 DEF Query, NextQueryId
  <2>2. query_id \in Nat /\ \A d \in Callers : id[d] \in Nat
    BY DEF TypeOK
  <2>3. \A d \in Callers : /\ pc'[d] = IF d = c THEN "select" ELSE pc[d]
                           /\ id'[d] = IF d = c THEN query_id ELSE id[d]
                           /\ sender'[d] = IF d = c THEN "spawned" ELSE sender[d]
    BY <2>1 DEF TypeOK
  <2>4. \A d \in Callers : pc'[d] # "idle" => id'[d] < query_id'
    BY <2>1, <2>2, <2>3 DEF IdInv
  <2>5. \A d, f \in Callers : pc'[d] # "idle" /\ pc'[f] # "idle" /\ d # f => id'[d] # id'[f]
    <3>1. \A d \in Callers : pc[d] # "idle" => id[d] # query_id
      BY <2>2 DEF IdInv
    <3> QED
      BY <2>3, <3>1 DEF IdInv
  <2>6. \A d \in Callers : pc'[d] = "idle" => sender'[d] = "none" /\ data'[d] = {}
    BY <2>1, <2>3 DEF IdInv
  <2>7. \A k \in 1..Len(wire) : pc'[wire[k].from] # "idle"
    BY <2>1 DEF IdInv, TypeOK
  <2> QED
    BY <2>1, <2>4, <2>5, <2>6, <2>7 DEF IdInv
<1>2. ASSUME NEW c \in Callers, Sent(c) \/ SendFailed(c) \/ Receive(c) \/ GiveUp(c) PROVE IdInv'
  <2>1. UNCHANGED <<query_id, id, data, sender, wire>>
    BY <1>2 DEF Sent, SendFailed, Receive, GiveUp, tasks
  <2>2. PICK p \in Over \cup {"recv"} : pc[c] # "idle" /\ pc' = [pc EXCEPT ![c] = p]
    BY <1>2 DEF Sent, SendFailed, Receive, GiveUp, Waiting, Over
  <2>3. \A d \in Callers : pc'[d] = "idle" <=> pc[d] = "idle"
    BY <2>2 DEF TypeOK, Over
  <2>4. \A k \in 1..Len(wire) : wire[k].from \in Callers
    <3>1. \A k \in 1..Len(wire) : wire[k] \in Pieces
      BY DEF TypeOK
    <3> QED
      BY <3>1 DEF Pieces
  <2> QED
    BY <2>1, <2>3, <2>4 DEF IdInv
<1>3. ASSUME NEW c \in Callers, Send(c) PROVE IdInv'
  <2>1. pc[c] # "idle" /\ UNCHANGED <<query_id, id, pc, data>>
    BY <1>3 DEF IdInv, Send, BeginSend, Encrypt, WriteFirst, WriteSecond, WriteFails, calls
  <2>2. \A d \in Callers : d # c => sender'[d] = sender[d]
    BY <1>3 DEF TypeOK, Send, BeginSend, Encrypt, WriteFirst, WriteSecond, WriteFails
  <2>3. wire' = wire \/ \E part \in {1, 2} : wire' = Append(wire, [from |-> c, pos |-> encrypted, part |-> part])
    BY <1>3 DEF Send, BeginSend, Encrypt, WriteFirst, WriteSecond, WriteFails, Written
  <2>4. \A k \in 1..Len(wire') : pc[wire'[k].from] # "idle"
    <3>1. CASE wire' = wire
      BY <3>1 DEF IdInv
    <3>2. ASSUME NEW part \in {1, 2},
                 wire' = Append(wire, [from |-> c, pos |-> encrypted, part |-> part]),
                 NEW k \in 1..Len(wire')
          PROVE  pc[wire'[k].from] # "idle"
      <4>1. wire \in Seq(Pieces)
        BY DEF TypeOK
      <4>2. CASE k \in 1..Len(wire)
        BY <3>2, <4>1, <4>2 DEF IdInv
      <4>3. CASE k = Len(wire) + 1
        <5>1. wire'[k] = [from |-> c, pos |-> encrypted, part |-> part]
          BY <3>2, <4>1, <4>3
        <5> QED
          BY <2>1, <5>1
      <4> QED
        BY <3>2, <4>1, <4>2, <4>3
    <3> QED
      BY <2>3, <3>1, <3>2
  <2> QED
    BY <2>1, <2>2, <2>4 DEF IdInv
<1>4. ASSUME NEW c \in Callers, ReadAnswer(c) PROVE IdInv'
  <2>1. PICK e \in queries : data' = [data EXCEPT ![e.to] = {c}]
    BY <1>4 DEF ReadAnswer
  <2>2. pc[e.to] # "idle"
    BY CacheMembers DEF Registered, Waiting
  <2>3. UNCHANGED <<query_id, id, pc, sender, wire>>
    BY <1>4 DEF ReadAnswer, tasks
  <2>4. \A d \in Callers : d # e.to => data'[d] = data[d]
    BY <2>1 DEF TypeOK
  <2> QED
    BY <2>2, <2>3, <2>4 DEF IdInv
<1>5. CASE Disconnect \/ Close \/ WaitClosed \/ UNCHANGED vars
  <2>1. UNCHANGED <<calls, tasks>>
    BY <1>5 DEF Disconnect, Close, WaitClosed, SetClosed, NotifyWaiters, CreateNotified,
                CheckClosed, Await, Woken, vars, calls, tasks
  <2> QED
    BY <2>1 DEF IdInv, calls, tasks
<1> QED
  BY <1>1, <1>2, <1>3, <1>4, <1>5 DEF Next, Call

LEMMA CacheStep ==
  ASSUME TypeOK, IdInv, CacheIsExact, AnswersOwn, [Next]_vars
  PROVE  CacheIsExact' /\ AnswersOwn'
<1> DEFINE Exact == \A e : e \in queries <=>
                      \E c \in Callers : Registered(c) /\ e = [id |-> id[c], to |-> c]
<1>1. Exact
  BY CacheMembers
<1>2. Exact' => CacheIsExact'
  BY DEF CacheIsExact, Registered
<1>3. ASSUME NEW c \in Callers, Query(c) PROVE Exact' /\ AnswersOwn'
  <2>1. /\ pc[c] = "idle" /\ pc' = [pc EXCEPT ![c] = "select"]
        /\ id' = [id EXCEPT ![c] = query_id] /\ data' = data
        /\ queries' = {e \in queries : e.id # query_id} \cup {[id |-> query_id, to |-> c]}
    BY <1>3 DEF Query
  <2>2. query_id \in Nat /\ \A d \in Callers : id[d] \in Nat
    BY DEF TypeOK
  <2>3. \A e \in queries : e.id # query_id
    BY <1>1, <2>2 DEF IdInv, Registered, Waiting
  <2>4. queries' = queries \cup {[id |-> query_id, to |-> c]}
    BY <2>1, <2>3
  <2>5. Registered(c)' /\ ~Registered(c) /\ id'[c] = query_id
    BY <2>1 DEF TypeOK, IdInv, Registered, Waiting
  <2>6. \A d \in Callers : d # c => (Registered(d)' <=> Registered(d)) /\ id'[d] = id[d]
    BY <2>1 DEF TypeOK, Registered
  <2> QED
    BY <1>1, <2>1, <2>4, <2>5, <2>6 DEF AnswersOwn
<1>4. ASSUME NEW c \in Callers, Sent(c) \/ Receive(c) PROVE Exact' /\ AnswersOwn'
  <2>1. UNCHANGED <<id, data, queries>>
    BY <1>4 DEF Sent, Receive
  <2>2. \A d \in Callers : Registered(d)' <=> Registered(d)
    BY <1>4 DEF TypeOK, Sent, Receive, Registered, Waiting
  <2> QED
    BY <1>1, <2>1, <2>2 DEF AnswersOwn
<1>5. ASSUME NEW c \in Callers, SendFailed(c) \/ GiveUp(c) PROVE Exact' /\ AnswersOwn'
  <2>1. pc[c] # "idle" /\ UNCHANGED <<id, data>> /\ queries' = {e \in queries : e.id # id[c]}
    BY <1>5 DEF SendFailed, GiveUp, Unregistered, Waiting
  <2>2. ~Registered(c)' /\ \A d \in Callers : d # c => (Registered(d)' <=> Registered(d))
    BY <1>5 DEF TypeOK, SendFailed, GiveUp, Registered, Waiting
  <2>3. \A e \in queries : e.id = id[c] <=> e.to = c
    <3>1. ASSUME NEW e \in queries, e.id = id[c] PROVE e.to = c
      BY <2>1, <3>1, OwnEntry
    <3>2. ASSUME NEW e \in queries, e.to = c PROVE e.id = id[c]
      BY <1>1, <3>2
    <3> QED
      BY <3>1, <3>2
  <2>4. queries' = {e \in queries : e.to # c}
    BY <2>1, <2>3
  <2> QED
    BY <1>1, <2>1, <2>2, <2>4 DEF AnswersOwn
<1>6. ASSUME NEW c \in Callers, ReadAnswer(c) PROVE Exact' /\ AnswersOwn'
  <2>1. PICK e \in queries : /\ e.id = id[c]
                             /\ queries' = queries \ {e}
                             /\ data' = [data EXCEPT ![e.to] = {c}]
    BY <1>6 DEF ReadAnswer
  <2>2. pc[c] # "idle"
    BY <1>6, ServedBegun DEF ReadAnswer
  <2>3. e.to = c /\ Registered(c)
    BY <2>1, <2>2, OwnEntry
  <2>4. UNCHANGED <<id, pc>>
    BY <1>6 DEF ReadAnswer
  <2>5. data'[c] = {c} /\ \A d \in Callers : d # c => data'[d] = data[d]
    BY <2>1, <2>3 DEF TypeOK
  <2>6. ~Registered(c)' /\ \A d \in Callers : d # c => (Registered(d)' <=> Registered(d))
    BY <2>4, <2>5 DEF Registered
  <2>7. \A f \in queries : f = e <=> f.to = c
    BY <1>1, <2>3
  <2>8. AnswersOwn'
    BY <2>5 DEF AnswersOwn
  <2> QED
    BY <1>1, <2>1, <2>4, <2>6, <2>7, <2>8
<1>7. ASSUME UNCHANGED calls PROVE Exact' /\ AnswersOwn'
  BY <1>1, <1>7 DEF calls, Registered, AnswersOwn
<1>8. ASSUME NEW c \in Callers, Send(c) PROVE UNCHANGED calls
  BY <1>8 DEF Send, BeginSend, Encrypt, WriteFirst, WriteSecond, WriteFails
<1>9. CASE Disconnect \/ Close \/ WaitClosed \/ UNCHANGED vars
  <2>1. UNCHANGED calls
    BY <1>9 DEF Disconnect, Close, WaitClosed, SetClosed, NotifyWaiters, CreateNotified,
                CheckClosed, Await, Woken, vars, calls
  <2> QED
    BY <1>2, <1>7, <2>1
<1> HIDE DEF Exact
<1> QED
  BY <1>2, <1>3, <1>4, <1>5, <1>6, <1>7, <1>8, <1>9 DEF Next, Call

-------------------------------------------------------------------------------
LEMMA Inductive == Spec => []IInv
<1>1. Init => IInv
  <2> SUFFICES ASSUME Init PROVE IInv
    OBVIOUS
  <2>1. TypeOK
    <3>1. wire \in Seq(Pieces)
      BY DEF Init
    <3>2. id \in [Callers -> Nat] /\ query_id \in Nat /\ encrypted \in Nat
      BY DEF Init
    <3>3. data \in [Callers -> SUBSET Callers]
      BY DEF Init
    <3> QED
      BY <3>1, <3>2, <3>3 DEF Init, TypeOK
  <2>2. IdInv
    BY DEF Init, IdInv
  <2>3. LockInv /\ WireInOrder
    BY DEF Init, LockInv, Writing, WireInOrder, Readable
  <2>4. AnswersOwn /\ CacheIsExact
    BY DEF Init, AnswersOwn, CacheIsExact, Waiting
  <2> QED
    BY <2>1, <2>2, <2>3, <2>4 DEF IInv
<1>2. IInv /\ [Next]_vars => IInv'
  BY TypeStep, IdStep, WireStep, CacheStep DEF IInv
<1> QED
  BY <1>1, <1>2, PTL DEF Spec

\* The type invariant: one query at most has the lock of the sender.
THEOREM AdnlTypeCorrect == Spec => []TypeOK
<1>1. IInv => TypeOK
  BY DEF IInv
<1> QED
  BY <1>1, Inductive, PTL

\* The stream stays decodable: no packet is cut off by a caller's timeout, and
\* none overtakes another between its encryption and its write (`query`).
THEOREM WireInOrderHolds == Spec => []WireInOrder
<1>1. IInv => WireInOrder
  BY DEF IInv
<1> QED
  BY <1>1, Inductive, PTL

\* No query is given another's answer, in whatever order answers, errors and
\* timeouts come (QueriesCache).
THEOREM AnswersOwnHolds == Spec => []AnswersOwn
<1>1. IInv => AnswersOwn
  BY DEF IInv
<1> QED
  BY <1>1, Inductive, PTL

\* The cache holds exactly the unanswered queries someone waits for
\* (PendingAdnlQuery::drop, update_query).
THEOREM CacheIsExactHolds == Spec => []CacheIsExact
<1>1. IInv => CacheIsExact
  BY DEF IInv
<1> QED
  BY <1>1, Inductive, PTL

-------------------------------------------------------------------------------
(* The packets that the socket reader cuts out of the stream: PacketReader.    *)

Boundaries == 1..Count + 1

\* Exactly the answers before the front have been passed on.
DoneInv == updated = {k \in Answers : Start[k + 1] <= taken}

\* A target is the length of the packet at the front.
TargetInv == target_len # 0 => \A k \in Front : target_len = Length[k]

\* The reader waits only while the packet at the front is incomplete, or too
\* little of it is there to tell.
WaitInv ==
  reading = "read" => \A k \in Front : Buffered < MinLength \/ Buffered < Length[k]

ReaderInv == ReaderTypeOK /\ DoneInv /\ TargetInv /\ WaitInv

-------------------------------------------------------------------------------
LEMMA StreamConsts ==
  /\ Count \in Nat \ {0} /\ LengthField \in Nat \ {0} /\ MinLength \in Nat
  /\ ReadSize \in Nat \ {0}
  /\ \A k \in Packets : Length[k] \in Nat /\ Length[k] >= LengthField
  /\ \A k \in Boundaries : Start[k] \in Nat
  /\ Answers \subseteq Packets
BY PacketReaderAssumption DEF Boundaries, Packets

LEMMA Neighbours ==
  ASSUME NEW k \in Packets
  PROVE  /\ k \in Boundaries /\ k + 1 \in Boundaries /\ Count + 1 \in Boundaries
         /\ Start[k] \in Nat /\ Start[k + 1] \in Nat /\ Start[Count + 1] \in Nat
         /\ Start[k + 1] = Start[k] + Length[k]
         /\ Start[k] < Start[k + 1] /\ Start[k + 1] <= Start[Count + 1]
<1>1. k \in Boundaries /\ k + 1 \in Boundaries /\ Count + 1 \in Boundaries /\ k + 1 <= Count + 1
  BY StreamConsts DEF Packets, Boundaries
<1>2. Start[k] \in Nat /\ Start[k + 1] \in Nat /\ Start[Count + 1] \in Nat
  BY <1>1, StreamConsts
<1>3. Start[k + 1] = Start[k] + Length[k] /\ Length[k] \in Nat /\ Length[k] > 0
  <2>1. Length[k] \in Nat /\ Length[k] >= LengthField /\ LengthField > 0
    BY StreamConsts
  <2> QED
    BY <2>1, PacketReaderAssumption
<1>4. Start[k + 1] <= Start[Count + 1]
  BY <1>1, PacketReaderAssumption DEF Boundaries
<1> QED
  BY <1>1, <1>2, <1>3, <1>4

\* A packet ends where the next one starts, or later ones do.
LEMMA Ordered ==
  ASSUME NEW j \in Packets, NEW k \in Packets
  PROVE  /\ j < k => Start[j + 1] <= Start[k]
         /\ Start[j] = Start[k] => j = k
<1>1. ASSUME NEW a \in Packets, NEW b \in Packets, a < b PROVE Start[a + 1] <= Start[b]
  <2>1. a + 1 \in 1..Count + 1 /\ b \in 1..Count + 1 /\ a + 1 <= b
    BY <1>1, StreamConsts DEF Packets
  <2> QED
    BY <2>1, PacketReaderAssumption
<1>2. ASSUME NEW a \in Packets, NEW b \in Packets, a < b PROVE Start[a] # Start[b]
  BY <1>1, <1>2, Neighbours
<1>3. j \in Int /\ k \in Int
  BY DEF Packets
<1> QED
  BY <1>1, <1>2, <1>3

LEMMA ReaderTypeStep == ASSUME ReaderTypeOK, [ReaderNext]_readerVars PROVE ReaderTypeOK'
<1>1. Start[Count + 1] \in Nat /\ got \in Nat /\ taken \in Nat /\ target_len \in Nat
  <2>1. Count + 1 \in Boundaries
    BY StreamConsts DEF Boundaries
  <2>2. taken \in Nat
    BY StreamConsts DEF ReaderTypeOK, Boundaries
  <2> QED
    BY <2>1, <2>2, StreamConsts DEF ReaderTypeOK
<1>2. CASE Read
  <2>1. got' \in 0..Start[Count + 1] /\ got <= got'
    BY <1>1, <1>2, StreamConsts DEF Read
  <2> QED
    BY <1>1, <1>2, <2>1 DEF ReaderTypeOK, Read
<1>3. CASE End \/ Leave
  BY <1>3 DEF ReaderTypeOK, End, Leave
<1>4. ASSUME NEW k \in Front, Incomplete(k) PROVE ReaderTypeOK'
  <2>1. k \in Packets
    BY DEF Front
  <2>2. Length[k] \in 0..Start[Count + 1]
    BY <2>1, Neighbours, StreamConsts
  <2> QED
    BY <1>4, <2>2 DEF ReaderTypeOK, Incomplete
<1>5. ASSUME NEW k \in Front, Handle(k) PROVE ReaderTypeOK'
  <2>1. k \in Packets /\ Start[k] = taken
    BY DEF Front
  <2>2. taken' = Start[k + 1] /\ k + 1 \in 1..Count + 1
    BY <1>5, <2>1, Neighbours DEF Handle, Skipped, Boundaries
  <2>3. taken' <= got
    <3>1. Length[k] \in Nat /\ got - taken >= Length[k] /\ taken' = taken + Length[k]
      BY <1>5, <2>1, StreamConsts DEF Handle, Skipped, Buffered
    <3> QED
      BY <1>1, <3>1
  <2>4. updated' \subseteq Packets
    BY <1>5, <2>1 DEF ReaderTypeOK, Handle
  <2>5. target_len' \in 0..Start[Count + 1]
    BY <1>1, <1>5 DEF Handle, TargetReset
  <2> QED
    BY <1>5, <2>2, <2>3, <2>4, <2>5 DEF ReaderTypeOK, Handle
<1>6. CASE UNCHANGED readerVars
  BY <1>6 DEF ReaderTypeOK, readerVars
<1> QED
  BY <1>2, <1>3, <1>4, <1>5, <1>6 DEF ReaderNext

LEMMA ReaderWorkStep ==
  ASSUME ReaderTypeOK, DoneInv, TargetInv, WaitInv, [ReaderNext]_readerVars
  PROVE  DoneInv' /\ TargetInv' /\ WaitInv'
<1>1. CASE Read
  BY <1>1 DEF Read, DoneInv, TargetInv, WaitInv, Front
<1>2. CASE End
  BY <1>2 DEF End, DoneInv, TargetInv, WaitInv, Front
<1>3. CASE Leave
  <2>1. Buffered < Needed
    BY <1>3 DEF Leave
  <2>2. \A k \in Front : Buffered < MinLength \/ Buffered < Length[k]
    BY <2>1 DEF Needed, TargetInv
  <2> QED
    BY <1>3, <2>2 DEF Leave, DoneInv, TargetInv, WaitInv, Front, Buffered
<1>4. ASSUME NEW k \in Front, Incomplete(k) PROVE DoneInv' /\ TargetInv' /\ WaitInv'
  <2>1. \A j \in Front : j = k
    BY Ordered DEF Front
  <2>2. Buffered < Length[k] /\ target_len' = Length[k] /\ UNCHANGED <<got, taken, updated>>
    BY <1>4 DEF Incomplete
  <2> QED
    BY <2>1, <2>2 DEF DoneInv, TargetInv, WaitInv, Front, Buffered
<1>5. ASSUME NEW k \in Front, Handle(k) PROVE DoneInv' /\ TargetInv' /\ WaitInv'
  <2>1. k \in Packets /\ Start[k] = taken
    BY DEF Front
  <2>2. taken' = Start[k + 1] /\ Start[k + 1] \in Nat /\ taken \in Nat /\ taken < Start[k + 1]
    BY <1>5, <2>1, Neighbours DEF Handle, Skipped
  <2>3. \A j \in Packets : Start[j + 1] <= taken' <=> (Start[j + 1] <= taken \/ j = k)
    <3> SUFFICES ASSUME NEW j \in Packets
                 PROVE  Start[j + 1] <= taken' <=> (Start[j + 1] <= taken \/ j = k)
      OBVIOUS
    <3>1. Start[j + 1] \in Nat /\ Start[j] < Start[j + 1] /\ Start[j] \in Nat
      BY Neighbours
    <3>2. CASE j < k
      <4>1. Start[j + 1] <= Start[k]
        BY <2>1, <3>2, Ordered
      <4> QED
        BY <2>1, <2>2, <3>1, <4>1
    <3>3. CASE k < j
      <4>1. Start[k + 1] <= Start[j]
        BY <2>1, <3>3, Ordered
      <4> QED
        BY <2>1, <2>2, <3>1, <3>3, <4>1 DEF Packets
    <3>4. CASE j = k
      BY <2>2, <3>1, <3>4
    <3> QED
      BY <2>1, <3>2, <3>3, <3>4 DEF Packets
  <2>4. DoneInv'
    <3>1. updated' = IF k \in Answers THEN updated \cup {k} ELSE updated
      BY <1>5 DEF Handle
    <3> QED
      BY <2>3, <3>1, StreamConsts DEF DoneInv
  <2>5. target_len' = 0 /\ reading' = "parse"
    BY <1>5 DEF Handle, TargetReset
  <2> QED
    BY <2>4, <2>5 DEF TargetInv, WaitInv
<1>6. CASE UNCHANGED readerVars
  BY <1>6 DEF DoneInv, TargetInv, WaitInv, Front, Buffered, readerVars
<1> QED
  BY <1>1, <1>2, <1>3, <1>4, <1>5, <1>6 DEF ReaderNext

\* No whole answer waits behind what is incomplete.
LEMMA NothingBehind == ASSUME ReaderTypeOK, DoneInv, WaitInv PROVE AnswersPassedOn
<1> SUFFICES ASSUME reading = "read", NEW k \in Answers
             PROVE  Start[k + 1] <= taken <=> Start[k + 1] <= got
  BY DEF AnswersPassedOn, DoneInv
<1>1. /\ k \in Packets /\ MinLength \in Nat /\ Length[k] \in Nat /\ Length[k] >= MinLength
  BY StreamConsts, PacketReaderAssumption
<1>2. Start[k + 1] \in Nat /\ Start[k] \in Nat /\ Start[k + 1] = Start[k] + Length[k]
  BY <1>1, Neighbours
<1>3. PICK j \in Boundaries : taken = Start[j]
  BY DEF ReaderTypeOK, Boundaries
<1>4. taken \in Nat /\ got \in Nat /\ taken <= got /\ got <= Start[Count + 1] /\ Start[Count + 1] \in Nat
  <2>1. Start[Count + 1] \in Nat
    BY <1>1, Neighbours
  <2>2. taken \in Nat
    BY <1>3, StreamConsts
  <2> QED
    BY <2>1, <2>2 DEF ReaderTypeOK
<1>5. ASSUME Start[k + 1] <= got PROVE Start[k + 1] <= taken
  <2>1. CASE j = Count + 1
    BY <1>2, <1>3, <1>4, <1>5, <2>1
  <2>2. CASE j # Count + 1
    <3>1. j \in Packets /\ j \in Front
      BY <1>3, <2>2, StreamConsts DEF Boundaries, Packets, Front
    <3>2. Buffered < MinLength \/ Buffered < Length[j]
      BY <3>1 DEF WaitInv
    <3>3. Start[j + 1] = Start[j] + Length[j] /\ Start[j + 1] \in Nat /\ Length[j] \in Nat
      BY <3>1, Neighbours, StreamConsts
    <3>4. CASE k < j
      BY <1>1, <1>3, <3>1, <3>4, Ordered
    <3>5. CASE k = j
      <4>1. Buffered >= Length[j] /\ Buffered >= MinLength
        BY <1>1, <1>2, <1>3, <1>4, <1>5, <3>5 DEF Buffered
      <4>2. Buffered \in Int
        BY <1>4 DEF Buffered
      <4> QED
        BY <1>1, <3>2, <3>3, <4>1, <4>2
    <3>6. CASE j < k
      <4>1. Start[j + 1] <= Start[k]
        BY <1>1, <3>1, <3>6, Ordered
      <4>2. Buffered >= Length[j] /\ Buffered >= MinLength
        BY <1>1, <1>2, <1>3, <1>4, <1>5, <3>3, <4>1 DEF Buffered
      <4>3. Buffered \in Int
        BY <1>4 DEF Buffered
      <4> QED
        BY <1>1, <3>2, <3>3, <4>2, <4>3
    <3> QED
      BY <1>1, <3>1, <3>4, <3>5, <3>6 DEF Packets
  <2> QED
    BY <2>1, <2>2
<1>6. ASSUME Start[k + 1] <= taken PROVE Start[k + 1] <= got
  BY <1>2, <1>4, <1>6
<1> QED
  BY <1>5, <1>6

-------------------------------------------------------------------------------
LEMMA ReaderInitially == ReaderInit => ReaderInv
<1> SUFFICES ASSUME ReaderInit PROVE ReaderInv
  OBVIOUS
<1>1. ReaderTypeOK
  <2>1. Start[Count + 1] \in Nat /\ 1 \in 1..Count + 1 /\ Start[1] = 0
    BY StreamConsts, PacketReaderAssumption DEF Boundaries
  <2> QED
    BY <2>1 DEF ReaderInit, ReaderTypeOK
<1>2. DoneInv
  <2>1. \A k \in Answers : ~(Start[k + 1] <= 0)
    BY StreamConsts, Neighbours
  <2> QED
    BY <2>1 DEF ReaderInit, DoneInv
<1>3. TargetInv
  BY DEF ReaderInit, TargetInv
<1>4. WaitInv
  <2>1. 0 < MinLength
    BY PacketReaderAssumption
  <2> QED
    BY <2>1 DEF ReaderInit, WaitInv, Buffered
<1> QED
  BY <1>1, <1>2, <1>3, <1>4 DEF ReaderInv

LEMMA ReaderInductive == ReaderSpec => []ReaderInv
<1>1. ReaderInv /\ [ReaderNext]_readerVars => ReaderInv'
  BY ReaderTypeStep, ReaderWorkStep DEF ReaderInv
<1> QED
  BY <1>1, ReaderInitially, PTL DEF ReaderSpec

\* The type invariant: the buffer always starts at a packet, so no length is ever
\* read from the middle of one (socket_reader).
THEOREM ReaderTypeCorrect == ReaderSpec => []ReaderTypeOK
<1>1. ReaderInv => ReaderTypeOK
  BY DEF ReaderInv
<1> QED
  BY <1>1, ReaderInductive, PTL

\* For every stream and every way it is cut into reads, an answer that is there
\* as a whole is passed on before the reader waits (socket_reader's target_len).
THEOREM AnswersPassedOnHolds == ReaderSpec => []AnswersPassedOn
<1>1. ReaderInv => AnswersPassedOn
  BY NothingBehind DEF ReaderInv
<1> QED
  BY <1>1, ReaderInductive, PTL
===============================================================================
