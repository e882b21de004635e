--------------------------- MODULE LiteClientProofs ---------------------------
(* Proofs about LiteClient for any number of servers and callers.              *)
EXTENDS LiteClient, TLAPS

\* How many servers on from i server s is.
Distance(i, s) == IF s >= i THEN s - i ELSE s - i + ServerCount

\* A query that goes on has not passed its limits.
LimitInv ==
  \A q \in Queries : pc[q] \in {"try", "wait"} =>
    attempts[q] <= MaxAttempts /\ errors[q] <= MaxErrors

\* The connection of a reliable server stays.
ReliableInv == \A s \in reliable : Ready(s) => alive[s]

\* A due query reaches a reliable server before its limits: every error and every
\* attempt has brought it one server closer.
Reaches(q) ==
  \E s \in reliable : /\ Ready(s)
                      /\ errors[q] + Distance(id[q], s) <= ServerCount - 1
                      /\ attempts[q] + Distance(id[q], s) <= ServerCount - 1

ReachInv == \A q \in Queries : due[q] => \/ pc[q] = "answered"
                                         \/ pc[q] \in {"try", "wait"} /\ Reaches(q)

EnoughRoom == ServerCount <= MaxErrors + 1 /\ ServerCount <= MaxAttempts + 1

IInv == TypeOK /\ LimitInv /\ ReliableInv /\ (EnoughRoom => ReachInv)

-------------------------------------------------------------------------------
LEMMA Consts == ServerCount \in Nat \ {0} /\ MaxAttempts \in Nat /\ MaxErrors \in Nat
BY LiteClientAssumption

LEMMA NextType == \A i \in Servers : NextId(i) \in Servers
BY Consts DEF NextId, Servers

LEMMA DistanceType ==
  \A i, s \in Servers : Distance(i, s) \in 0..ServerCount - 1
BY Consts DEF Distance, Servers

\* One server on is one server closer to every other server.
LEMMA Closer == ASSUME NEW i \in Servers, NEW s \in Servers, i # s
                PROVE  Distance(NextId(i), s) = Distance(i, s) - 1
BY Consts DEF Distance, NextId, Servers

-------------------------------------------------------------------------------
LEMMA TypeStep == ASSUME TypeOK, LimitInv, [Next]_vars PROVE TypeOK'
<1>1. ASSUME NEW s \in Servers, Task(s) \/ Break(s) PROVE TypeOK'
  <2>1. task' \in [Servers -> {"connect", "wait_closed", "sleep"}]
    BY <1>1 DEF TypeOK, Task, Connected, ConnectFailed, Closed, Reconnect, Break
  <2>2. alive' \in [Servers -> BOOLEAN]
    BY <1>1 DEF TypeOK, Task, Connected, ConnectFailed, Closed, Reconnect, Break
  <2>3. live' \in [Queries -> BOOLEAN]
    <3>1. CASE Task(s)
      BY <3>1 DEF TypeOK, Task, Connected, ConnectFailed, Closed, Reconnect, query
    <3>2. CASE Break(s)
      <4>1. live' = [q \in Queries |-> live[q] /\ id[q] # s]
        BY <3>2 DEF Break
      <4>2. \A q \in Queries : (live[q] /\ id[q] # s) \in BOOLEAN
        OBVIOUS
      <4> QED
        BY <4>1, <4>2
    <3> QED
      BY <1>1, <3>1, <3>2
  <2>4. UNCHANGED <<reliable, counter, pc, id, attempts, errors, due>>
    BY <1>1 DEF Task, Connected, ConnectFailed, Closed, Reconnect, Break, query
  <2> QED
    BY <2>1, <2>2, <2>3, <2>4 DEF TypeOK
<1>2. ASSUME NEW q \in Queries, Begin(q) PROVE TypeOK'
  <2>1. due' \in [Queries -> BOOLEAN]
    BY <1>2 DEF TypeOK, Begin
  <2>2. 0 \in 0..MaxAttempts + 1 /\ 0 \in 0..MaxErrors + 1
    BY Consts
  <2> QED
    BY <1>2, <2>1, <2>2, NextType DEF TypeOK, Begin, servers, Results
<1>3. ASSUME NEW q \in Queries, Ask(q) PROVE TypeOK'
  BY <1>3 DEF TypeOK, Ask, servers
<1>4. ASSUME NEW q \in Queries, Skip(q) PROVE TypeOK'
  <2>1. attempts[q] + 1 \in 0..MaxAttempts + 1
    BY <1>4, Consts DEF TypeOK, LimitInv, Skip
  <2>2. NextId(id[q]) \in Servers
    BY NextType DEF TypeOK
  <2>3. pc' \in [Queries -> {"idle", "try", "wait"} \cup Results]
    BY <1>4 DEF TypeOK, Skip, Results
  <2> QED
    BY <1>4, <2>1, <2>2, <2>3 DEF TypeOK, Skip, servers
<1>5. ASSUME NEW q \in Queries, Answered(q) PROVE TypeOK'
  BY <1>5 DEF TypeOK, Answered, servers, Results
<1>6. ASSUME NEW q \in Queries, Failed(q) PROVE TypeOK'
  <2>1. errors[q] + 1 \in 0..MaxErrors + 1
    BY <1>6, Consts DEF TypeOK, LimitInv, Failed
  <2>2. NextId(id[q]) \in Servers
    BY NextType DEF TypeOK
  <2>3. pc' \in [Queries -> {"idle", "try", "wait"} \cup Results]
    BY <1>6 DEF TypeOK, Failed, Results
  <2> QED
    BY <1>6, <2>1, <2>2, <2>3 DEF TypeOK, Failed, servers
<1>7. ASSUME NEW q \in Queries, TimedOut(q) PROVE TypeOK'
  BY <1>7, NextType DEF TypeOK, TimedOut, servers, Results
<1>8. CASE UNCHANGED vars
  BY <1>8 DEF TypeOK, vars
<1> QED
  BY <1>1, <1>2, <1>3, <1>4, <1>5, <1>6, <1>7, <1>8 DEF Next, Step

\* What a step of another caller, or of a server, leaves alone.
LEMMA Own ==
  ASSUME TypeOK, [Next]_vars, NEW q \in Queries, ~Begin(q), ~Step(q)
  PROVE  /\ pc'[q] = pc[q] /\ id'[q] = id[q] /\ due'[q] = due[q]
         /\ attempts'[q] = attempts[q] /\ errors'[q] = errors[q]
<1>1. ASSUME NEW o \in Queries, o # q, Begin(o) \/ Step(o)
      PROVE  /\ pc'[q] = pc[q] /\ id'[q] = id[q] /\ due'[q] = due[q]
             /\ attempts'[q] = attempts[q] /\ errors'[q] = errors[q]
  BY <1>1 DEF TypeOK, Begin, Step, Ask, Skip, Answered, Failed, TimedOut
<1>2. ASSUME NEW s \in Servers, Task(s) \/ Break(s)
      PROVE  UNCHANGED <<pc, id, attempts, errors, due>>
  BY <1>2 DEF Task, Connected, ConnectFailed, Closed, Reconnect, Break, query
<1> QED
  BY <1>1, <1>2 DEF Next, vars

LEMMA LimitStep == ASSUME TypeOK, LimitInv, [Next]_vars PROVE LimitInv'
<1> SUFFICES ASSUME NEW q \in Queries, pc'[q] \in {"try", "wait"}
             PROVE  attempts'[q] <= MaxAttempts /\ errors'[q] <= MaxErrors
  BY DEF LimitInv
<1>1. CASE Begin(q)
  BY <1>1, Consts DEF TypeOK, Begin
<1>2. CASE Skip(q)
  <2>1. attempts'[q] = attempts[q] + 1 /\ attempts[q] \in Nat /\ ~(attempts'[q] > MaxAttempts)
    BY <1>2 DEF TypeOK, Skip
  <2>2. errors'[q] = errors[q] /\ errors[q] <= MaxErrors
    BY <1>2 DEF LimitInv, Skip
  <2> QED
    BY <2>1, <2>2, Consts
<1>3. CASE Failed(q)
  <2>1. errors'[q] = errors[q] + 1 /\ errors[q] \in Nat /\ ~(errors'[q] > MaxErrors)
    BY <1>3 DEF TypeOK, Failed, TooMany
  <2>2. attempts'[q] = attempts[q] /\ attempts[q] <= MaxAttempts
    BY <1>3 DEF LimitInv, Failed
  <2> QED
    BY <2>1, <2>2, Consts
<1>4. CASE Ask(q) \/ TimedOut(q) \/ Answered(q)
  BY <1>4 DEF TypeOK, LimitInv, Ask, TimedOut, Answered
<1>5. CASE ~Begin(q) /\ ~Step(q)
  BY <1>5, Own DEF LimitInv
<1> QED
  BY <1>1, <1>2, <1>3, <1>4, <1>5 DEF Step

LEMMA ReliableStep ==
  ASSUME TypeOK, ReliableInv, [Next]_vars
  PROVE  ReliableInv' /\ reliable' = reliable /\ \A s \in reliable : Ready(s) => Ready(s)'
<1>1. ASSUME NEW s \in Servers, Task(s) \/ Break(s)
      PROVE  ReliableInv' /\ reliable' = reliable /\ \A r \in reliable : Ready(r) => Ready(r)'
  <2>1. CASE Connected(s) \/ ConnectFailed(s) \/ Reconnect(s)
    BY <2>1 DEF TypeOK, ReliableInv, Ready, Connected, ConnectFailed, Reconnect
  <2>2. CASE Closed(s)
    BY <2>2 DEF TypeOK, ReliableInv, Ready, Closed
  <2>3. CASE Break(s)
    BY <2>3 DEF TypeOK, ReliableInv, Ready, Break
  <2> QED
    BY <1>1, <2>1, <2>2, <2>3 DEF Task
<1>2. ASSUME UNCHANGED servers
      PROVE  ReliableInv' /\ reliable' = reliable /\ \A r \in reliable : Ready(r) => Ready(r)'
  BY <1>2 DEF servers, ReliableInv, Ready
<1>3. ASSUME NEW q \in Queries, Begin(q) \/ Step(q) PROVE UNCHANGED servers
  BY <1>3 DEF Begin, Step, Ask, Skip, Answered, Failed, TimedOut
<1>4. CASE UNCHANGED vars
  BY <1>2, <1>4 DEF vars, servers
<1> QED
  BY <1>1, <1>2, <1>3, <1>4 DEF Next

\* One server on, with one more error or attempt at most, and the limits not
\* reached.
LEMMA OneOn ==
  ASSUME TypeOK, EnoughRoom, NEW q \in Queries, NEW s \in reliable, s # id[q],
         NEW e \in Nat, NEW a \in Nat, e <= errors[q] + 1, a <= attempts[q] + 1,
         errors[q] + Distance(id[q], s) <= ServerCount - 1,
         attempts[q] + Distance(id[q], s) <= ServerCount - 1
  PROVE  /\ e + Distance(NextId(id[q]), s) <= ServerCount - 1
         /\ a + Distance(NextId(id[q]), s) <= ServerCount - 1
         /\ e <= MaxErrors /\ a <= MaxAttempts
<1>1. id[q] \in Servers /\ s \in Servers /\ errors[q] \in Nat /\ attempts[q] \in Nat
  BY DEF TypeOK
<1>2. Distance(NextId(id[q]), s) = Distance(id[q], s) - 1
  BY <1>1, Closer
<1>3. Distance(NextId(id[q]), s) \in 0..ServerCount - 1 /\ Distance(id[q], s) \in Int
  BY <1>1, NextType, DistanceType
<1> QED
  BY <1>1, <1>2, <1>3, Consts DEF EnoughRoom

LEMMA ReachStep ==
  ASSUME TypeOK, ReliableInv, EnoughRoom, ReachInv, [Next]_vars
  PROVE  ReachInv'
<1> SUFFICES ASSUME NEW q \in Queries, due'[q]
             PROVE  pc'[q] = "answered" \/ (pc'[q] \in {"try", "wait"} /\ Reaches(q)')
  BY DEF ReachInv
<1>1. reliable' = reliable /\ \A s \in reliable : Ready(s) => Ready(s)'
  BY ReliableStep
<1>2. CASE Begin(q)
  <2>1. PICK s \in reliable : Ready(s)
    BY <1>2 DEF TypeOK, Begin
  <2>2. pc'[q] = "try" /\ id'[q] = counter /\ errors'[q] = 0 /\ attempts'[q] = 0
    BY <1>2 DEF TypeOK, Begin
  <2>3. Distance(counter, s) \in 0..ServerCount - 1
    BY DistanceType DEF TypeOK
  <2>4. 0 + Distance(counter, s) <= ServerCount - 1
    BY <2>3, Consts
  <2>5. Reaches(q)'
    BY <1>1, <2>1, <2>2, <2>4 DEF Reaches, Distance
  <2> QED
    BY <2>2, <2>5
<1>3. CASE ~Begin(q) /\ ~Step(q)
  <2>1. /\ pc'[q] = pc[q] /\ id'[q] = id[q] /\ due'[q] = due[q]
        /\ attempts'[q] = attempts[q] /\ errors'[q] = errors[q]
    BY <1>3, Own
  <2> QED
    BY <1>1, <2>1 DEF ReachInv, Reaches, Distance
<1>4. CASE Step(q)
  <2>1. due[q] /\ pc[q] \in {"try", "wait"}
    BY <1>4 DEF Step, Ask, Skip, Answered, Failed, TimedOut
  <2>2. PICK s \in reliable : /\ Ready(s)
                              /\ errors[q] + Distance(id[q], s) <= ServerCount - 1
                              /\ attempts[q] + Distance(id[q], s) <= ServerCount - 1
    BY <2>1 DEF ReachInv, Reaches
  <2>3. errors[q] \in Nat /\ attempts[q] \in Nat
    BY DEF TypeOK
  <2>4. CASE Ask(q)
    <3>1. /\ pc'[q] = "wait" /\ id'[q] = id[q]
          /\ errors'[q] = errors[q] /\ attempts'[q] = attempts[q]
      BY <2>4 DEF TypeOK, Ask
    <3> QED
      BY <1>1, <2>2, <3>1 DEF Reaches, Distance
  <2>5. CASE Answered(q)
    BY <2>5 DEF TypeOK, Answered
  <2>6. ASSUME s # id[q], id'[q] = NextId(id[q]), errors'[q] \in Nat, attempts'[q] \in Nat,
               errors'[q] <= errors[q] + 1, attempts'[q] <= attempts[q] + 1
        PROVE  Reaches(q)' /\ errors'[q] <= MaxErrors /\ attempts'[q] <= MaxAttempts
    <3>1. /\ errors'[q] + Distance(NextId(id[q]), s) <= ServerCount - 1
          /\ attempts'[q] + Distance(NextId(id[q]), s) <= ServerCount - 1
          /\ errors'[q] <= MaxErrors /\ attempts'[q] <= MaxAttempts
      BY <2>2, <2>6, OneOn
    <3>2. Reaches(q)'
      BY <1>1, <2>2, <2>6, <3>1 DEF Reaches, Distance
    <3> QED
      BY <3>1, <3>2
  <2>7. CASE Skip(q)
    <3>1. /\ s # id[q] /\ id'[q] = NextId(id[q])
          /\ errors'[q] = errors[q] /\ attempts'[q] = attempts[q] + 1
          /\ pc'[q] = IF attempts'[q] > MaxAttempts THEN "no_connections" ELSE "try"
      BY <2>2, <2>7 DEF TypeOK, Skip
    <3>2. Reaches(q)' /\ attempts'[q] <= MaxAttempts
      BY <2>3, <2>6, <3>1
    <3> QED
      BY <2>3, <3>1, <3>2, Consts
  <2>8. CASE Failed(q)
    <3>1. /\ s # id[q] /\ id'[q] = NextId(id[q])
          /\ errors'[q] = errors[q] + 1 /\ attempts'[q] = attempts[q]
          /\ pc'[q] = IF errors'[q] > MaxErrors THEN "failed" ELSE "try"
      BY <2>2, <2>8 DEF TypeOK, Failed, TooMany
    <3>2. Reaches(q)' /\ errors'[q] <= MaxErrors
      BY <2>3, <2>6, <3>1
    <3> QED
      BY <2>3, <3>1, <3>2, Consts
  <2>9. CASE TimedOut(q)
    <3>1. /\ s # id[q] /\ id'[q] = NextId(id[q]) /\ pc'[q] = "try"
          /\ errors'[q] = errors[q] /\ attempts'[q] = attempts[q]
      BY <2>2, <2>9 DEF TypeOK, TimedOut
    <3> QED
      BY <2>3, <2>6, <3>1
  <2> QED
    BY <1>4, <2>4, <2>5, <2>7, <2>8, <2>9 DEF Step
<1> QED
  BY <1>2, <1>3, <1>4

-------------------------------------------------------------------------------
LEMMA Initially == Init => IInv
<1> SUFFICES ASSUME Init PROVE IInv
  OBVIOUS
<1>1. TypeOK
  <2>1. 0 \in Servers /\ 0 \in 0..MaxAttempts + 1 /\ 0 \in 0..MaxErrors + 1
    BY Consts DEF Servers
  <2> QED
    BY <2>1 DEF Init, TypeOK
<1>2. LimitInv /\ ReliableInv /\ ReachInv
  BY DEF Init, LimitInv, ReliableInv, Ready, ReachInv
<1> QED
  BY <1>1, <1>2 DEF IInv

LEMMA Inductive == Spec => []IInv
<1>1. IInv /\ [Next]_vars => IInv'
  <2> SUFFICES ASSUME IInv, [Next]_vars PROVE IInv'
    OBVIOUS
  <2>1. TypeOK' /\ LimitInv' /\ ReliableInv'
    BY TypeStep, LimitStep, ReliableStep DEF IInv
  <2>2. EnoughRoom => ReachInv'
    BY ReachStep DEF IInv
  <2> QED
    BY <2>1, <2>2 DEF IInv, EnoughRoom
<1> QED
  BY <1>1, Initially, PTL DEF Spec

\* The type invariant: with it, no query counts past its limits.
THEOREM LiteTypeCorrect == Spec => []TypeOK
<1>1. IInv => TypeOK
  BY DEF IInv
<1> QED
  BY <1>1, Inductive, PTL

\* With no more servers than MAX_ERRORS and MAX_ATTEMPTS leave room for, a query
\* never fails if a reliable server was connected when it began.
THEOREM ReliableAnswersHolds == Spec => []ReliableAnswers
<1>1. IInv => ReliableAnswers
  BY DEF IInv, ReliableAnswers, ReachInv, EnoughRoom
<1> QED
  BY <1>1, Inductive, PTL
===============================================================================
