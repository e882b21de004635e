------------------------------ MODULE LiteClient ------------------------------
(* ton-lite-client: a task per server keeps a connection in the server's slot, *)
(* and queries go round the servers until one answers.                         *)
(*                                                                             *)
(* External: the servers.  One may refuse or break connections, answer with an *)
(* error, or be silent until the query times out; the `reliable` ones do none  *)
(* of this.  From TcpAdnl: a query on a live connection is answered, fails or  *)
(* times out, one on a connection that has closed fails or times out, and      *)
(* wait_closed returns.  At least one server is configured; active_count and   *)
(* any_connected are written but never read, and delays are not counted.       *)
EXTENDS Integers

CONSTANTS
  ServerCount,  \* connections.len()
  Queries,      \* callers of `query`, each with one call at a time
  MaxAttempts,  \* MAX_ATTEMPTS
  MaxErrors     \* MAX_ERRORS

Servers == 0..ServerCount - 1

ASSUME LiteClientAssumption ==
  /\ ServerCount \in Nat \ {0}
  /\ MaxAttempts \in Nat
  /\ MaxErrors \in Nat

VARIABLES
  reliable,     \* servers that always answer in time
  task,         \* what each server's reconnect task awaits
  alive,        \* the connection in the slot has not closed
  counter,      \* the server the next query starts with
  pc,           \* what each query does
  id,           \* the server it is at
  live,         \* it waits on a connection that has not closed
  attempts,
  errors,       \* error_count
  due           \* a reliable server was connected when it began (history)

servers == <<reliable, task, alive>>
query == <<pc, id, live, attempts, errors, due>>
vars == <<reliable, task, alive, counter, pc, id, live, attempts, errors, due>>

Results == {"answered", "failed", "no_connections"}

TypeOK ==
  /\ reliable \subseteq Servers
  /\ task \in [Servers -> {"connect", "wait_closed", "sleep"}]
  /\ alive \in [Servers -> BOOLEAN]
  /\ counter \in Servers
  /\ pc \in [Queries -> {"idle", "try", "wait"} \cup Results]
  /\ id \in [Queries -> Servers]
  /\ live \in [Queries -> BOOLEAN]
  /\ attempts \in [Queries -> 0..MaxAttempts + 1]
  /\ errors \in [Queries -> 0..MaxErrors + 1]
  /\ due \in [Queries -> BOOLEAN]

Init ==
  /\ reliable \in SUBSET Servers
  /\ task = [s \in Servers |-> "connect"]
  /\ alive = [s \in Servers |-> FALSE]
  /\ counter = 0
  /\ pc = [q \in Queries |-> "idle"]
  /\ id = [q \in Queries |-> 0]
  /\ live = [q \in Queries |-> FALSE]
  /\ attempts = [q \in Queries |-> 0]
  /\ errors = [q \in Queries |-> 0]
  /\ due = [q \in Queries |-> FALSE]

-------------------------------------------------------------------------------
(* spawn_connections: the task of server s. *)

\* connection.client is set from connect's success to wait_closed's return.
Ready(s) == task[s] = "wait_closed"

Connected(s) ==
  /\ task[s] = "connect"
  /\ task' = [task EXCEPT ![s] = "wait_closed"]
  /\ alive' = [alive EXCEPT ![s] = TRUE]
  /\ UNCHANGED <<reliable, counter, query>>

\* An error, or connection_timeout.
ConnectFailed(s) ==
  /\ task[s] = "connect"
  /\ s \notin reliable
  /\ task' = [task EXCEPT ![s] = "sleep"]
  /\ UNCHANGED <<reliable, alive, counter, query>>

\* The connection closes; the task has not noticed yet.
Break(s) ==
  /\ Ready(s)
  /\ alive[s]
  /\ s \notin reliable
  /\ alive' = [alive EXCEPT ![s] = FALSE]
  /\ live' = [q \in Queries |-> live[q] /\ id[q] # s]
  /\ UNCHANGED <<reliable, task, counter, pc, id, attempts, errors, due>>

\* Mutation: a closed connection is only replaced when a query uses it.
ClosedIfAsked(s) ==
  /\ Ready(s)
  /\ ~alive[s]
  /\ \E q \in Queries : pc[q] = "wait" /\ id[q] = s
  /\ task' = [task EXCEPT ![s] = "sleep"]
  /\ UNCHANGED <<reliable, alive, counter, query>>

\* wait_closed returns: the slot is emptied.
Closed(s) ==
  /\ Ready(s)
  /\ ~alive[s]
  /\ task' = [task EXCEPT ![s] = "sleep"]
  /\ UNCHANGED <<reliable, alive, counter, query>>

\* reconnect_interval is over.
Reconnect(s) ==
  /\ task[s] = "sleep"
  /\ task' = [task EXCEPT ![s] = "connect"]
  /\ UNCHANGED <<reliable, alive, counter, query>>

-------------------------------------------------------------------------------
(* query. *)

\* Mutation: the modulus is forgotten.
NextIdUnwrapped(i) == i + 1

\* (id + 1) % connection_count
NextId(i) == IF i + 1 = ServerCount THEN 0 ELSE i + 1

\* A call, after the caller has the result of the one before.
Begin(q) ==
  /\ pc[q] \in {"idle"} \cup Results
  /\ pc' = [pc EXCEPT ![q] = "try"]
  /\ id' = [id EXCEPT ![q] = counter]
  /\ counter' = NextId(counter)
  /\ attempts' = [attempts EXCEPT ![q] = 0]
  /\ errors' = [errors EXCEPT ![q] = 0]
  /\ due' = [due EXCEPT ![q] = \E s \in reliable : Ready(s)]
  /\ UNCHANGED <<servers, live>>

\* The slot has a client: the query is sent to it.
Ask(q) ==
  /\ pc[q] = "try"
  /\ Ready(id[q])
  /\ pc' = [pc EXCEPT ![q] = "wait"]
  /\ live' = [live EXCEPT ![q] = alive[id[q]]]
  /\ UNCHANGED <<servers, counter, id, attempts, errors, due>>

\* "Client is still connecting."
Skip(q) ==
  /\ pc[q] = "try"
  /\ ~Ready(id[q])
  /\ id' = [id EXCEPT ![q] = NextId(@)]
  /\ attempts' = [attempts EXCEPT ![q] = @ + 1]
  /\ pc' = [pc EXCEPT ![q] = IF attempts'[q] > MaxAttempts THEN "no_connections" ELSE "try"]
  /\ UNCHANGED <<servers, counter, live, errors, due>>

Answered(q) ==
  /\ pc[q] = "wait"
  /\ live[q]
  /\ pc' = [pc EXCEPT ![q] = "answered"]
  /\ live' = [live EXCEPT ![q] = FALSE]
  /\ UNCHANGED <<servers, counter, id, attempts, errors, due>>

\* Mutation: one error too early.
TooManyAtLimit(n) == n >= MaxErrors

TooMany(n) == n > MaxErrors

\* ErrorResponse or QueryFailed.
Failed(q) ==
  /\ pc[q] = "wait"
  /\ id[q] \notin reliable
  /\ id' = [id EXCEPT ![q] = NextId(@)]
  /\ errors' = [errors EXCEPT ![q] = @ + 1]
  /\ pc' = [pc EXCEPT ![q] = IF TooMany(errors'[q]) THEN "failed" ELSE "try"]
  /\ live' = [live EXCEPT ![q] = FALSE]
  /\ UNCHANGED <<servers, counter, attempts, due>>

\* Mutation: the query stays with the silent server.
TimedOutInPlace(q) ==
  /\ pc[q] = "wait"
  /\ id[q] \notin reliable
  /\ pc' = [pc EXCEPT ![q] = "try"]
  /\ live' = [live EXCEPT ![q] = FALSE]
  /\ UNCHANGED <<servers, counter, id, attempts, errors, due>>

\* query_timeout: on to the next server, without end.
TimedOut(q) ==
  /\ pc[q] = "wait"
  /\ id[q] \notin reliable
  /\ pc' = [pc EXCEPT ![q] = "try"]
  /\ id' = [id EXCEPT ![q] = NextId(@)]
  /\ live' = [live EXCEPT ![q] = FALSE]
  /\ UNCHANGED <<servers, counter, attempts, errors, due>>

-------------------------------------------------------------------------------
Task(s) == Connected(s) \/ ConnectFailed(s) \/ Closed(s) \/ Reconnect(s)
Step(q) == Ask(q) \/ Skip(q) \/ Answered(q) \/ Failed(q) \/ TimedOut(q)

Next ==
  \/ \E s \in Servers : Task(s) \/ Break(s)
  \/ \E q \in Queries : Begin(q) \/ Step(q)

Spec == Init /\ [][Next]_vars

\* The tasks and the queries that have begun are run; nothing has to break.
FairSpec ==
  /\ Spec
  /\ \A s \in Servers : WF_vars(Task(s))
  /\ \A q \in Queries : WF_vars(Step(q))

-------------------------------------------------------------------------------
(* Properties. *)

\* A query begun while a reliable server was connected does not fail, whatever
\* the others do and whoever else queries: the limits of `query` leave room for
\* one round of the servers.
ReliableAnswers ==
  ServerCount <= MaxErrors + 1 /\ ServerCount <= MaxAttempts + 1 =>
    \A q \in Queries : due[q] => pc[q] \notin {"failed", "no_connections"}

\* A connection that has closed leaves its slot and is tried again, used or not
\* (spawn_connections).
ClosedIsReplaced ==
  \A s \in Servers : Ready(s) /\ ~alive[s] ~> task[s] = "connect"

\* A query returns if some server is reliable, connected or not: timeouts are not
\* counted, but they lead on to the next server.
QueryReturns ==
  reliable # {} =>
    \A q \in Queries : pc[q] = "try" ~> pc[q] \in Results
===============================================================================
