-------------------------- MODULE ReliableSendProofs --------------------------
(* Proofs about ReliableSend for every page length, bound and set of expiry    *)
(* times: the type invariant, that no transaction is skipped, and that the     *)
(* call implements Delivery.                                                   *)
EXTENDS ReliableSend, TLAPS

-------------------------------------------------------------------------------
\* The chain: its head is the newest state served, and a state past the expiry
\* time already shows the message's transaction if there ever is one.
ChainInv ==
  /\ head \in blocks
  /\ \A b \in blocks : b.gen_utime <= head.gen_utime /\ b.last_lt <= head.last_lt
  /\ msg_lt <= head.last_lt
  /\ \A b \in blocks : msg_lt # 0 /\ b.gen_utime > expire_at => msg_lt <= b.last_lt

\* The call before and after the message is handed over.
CallInv ==
  /\ pc \in {"wait", "send"} => msg_lt = 0 /\ ~in_flight
  /\ pc = "wait" => expire_at = Never
  /\ pc # "done" => answer = "none"
  /\ view \in blocks
  /\ known_lt <= head.last_lt
  /\ pc = "scan" => known_lt < cursor /\ cursor <= view.last_lt

\* What an answer means.
AnswerInv ==
  /\ answer = "expired" => msg_lt = 0 /\ head.gen_utime > expire_at
  /\ answer = "found" => msg_lt # 0

IInv == TypeOK /\ ChainInv /\ CallInv /\ AnswerInv /\ NothingSkipped

-------------------------------------------------------------------------------
(* Each step preserves the type invariant. *)

LEMMA TypeStep == ASSUME TypeOK, CallInv, [Next]_vars PROVE TypeOK'
<1> USE ReliableSendAssumption DEF TypeOK, AccountBlock, Never, chain, client
<1>1. CASE \E b \in AccountBlock : OtherBlock(b)
  BY <1>1 DEF OtherBlock
<1>2. CASE \E b \in AccountBlock : ExecuteBlock(b)
  BY <1>2 DEF ExecuteBlock
<1>3. CASE Lose
  BY <1>3 DEF Lose
<1>4. CASE \E b \in blocks, balance \in Balances : WaitForState(b, balance)
  BY <1>4 DEF WaitForState
<1>5. CASE Send
  BY <1>5 DEF Send
<1>6. CASE \E b \in blocks : PollNew(b)
  BY <1>6 DEF PollNew
<1>7. CASE \E b \in blocks : PollOld(b)
  BY <1>7 DEF PollOld, CheckExpired
<1>8. CASE \E b \in blocks, n \in 1..BatchLen : ScanPage(b, n)
  BY <1>8 DEF ScanPage, CheckExpired, NextCursor
<1>9. CASE ScanFault
  BY <1>9 DEF ScanFault
<1>10. CASE UNCHANGED vars
  BY <1>10 DEF vars
<1> QED
  BY <1>1, <1>2, <1>3, <1>4, <1>5, <1>6, <1>7, <1>8, <1>9, <1>10 DEF Next

-------------------------------------------------------------------------------
(* Each step preserves the rest of the inductive invariant. *)

\* New blocks are later than all others, and the message enters the chain only
\* in a block that is not past the expiry time.
LEMMA ChainStep == ASSUME IInv, [Next]_vars PROVE ChainInv'
<1> USE ReliableSendAssumption
    DEF IInv, TypeOK, AccountBlock, Never, ChainInv, CallInv, chain, client
<1>1. CASE \E b \in AccountBlock : OtherBlock(b)
  BY <1>1 DEF OtherBlock
<1>2. CASE \E b \in AccountBlock : ExecuteBlock(b)
  BY <1>2 DEF ExecuteBlock
<1>3. CASE \E b \in blocks, balance \in Balances : WaitForState(b, balance)
  BY <1>3 DEF WaitForState
<1>4. CASE Lose \/ Send \/ ScanFault \/ UNCHANGED vars
  BY <1>4 DEF Lose, Send, ScanFault, vars
<1>5. CASE \E b \in blocks : PollNew(b)
  BY <1>5 DEF PollNew
<1>6. CASE \E b \in blocks : PollOld(b)
  BY <1>6 DEF PollOld
<1>7. CASE \E b \in blocks, n \in 1..BatchLen : ScanPage(b, n)
  BY <1>7 DEF ScanPage
<1> QED
  BY <1>1, <1>2, <1>3, <1>4, <1>5, <1>6, <1>7 DEF Next

LEMMA CallStep == ASSUME IInv, [Next]_vars PROVE CallInv'
<1> USE ReliableSendAssumption
    DEF IInv, TypeOK, AccountBlock, Never, ChainInv, CallInv, chain, client
<1>1. CASE \E b \in AccountBlock : OtherBlock(b)
  BY <1>1 DEF OtherBlock
<1>2. CASE \E b \in AccountBlock : ExecuteBlock(b)
  BY <1>2 DEF ExecuteBlock
<1>3. CASE \E b \in blocks, balance \in Balances : WaitForState(b, balance)
  BY <1>3 DEF WaitForState
<1>4. CASE Lose \/ Send \/ ScanFault \/ UNCHANGED vars
  BY <1>4 DEF Lose, Send, ScanFault, vars
<1>5. CASE \E b \in blocks : PollNew(b)
  BY <1>5 DEF PollNew
<1>6. CASE \E b \in blocks : PollOld(b)
  BY <1>6 DEF PollOld, CheckExpired
<1>7. CASE \E b \in blocks, n \in 1..BatchLen : ScanPage(b, n)
  BY <1>7 DEF ScanPage, CheckExpired, NextCursor
<1> QED
  BY <1>1, <1>2, <1>3, <1>4, <1>5, <1>6, <1>7 DEF Next

\* The heart of the argument.  A page removes from the search only what it has
\* examined, and the state that moves known_lt up was scanned to its end.
LEMMA SkipStep == ASSUME IInv, [Next]_vars PROVE NothingSkipped'
<1> USE ReliableSendAssumption
    DEF IInv, TypeOK, AccountBlock, Never, ChainInv, CallInv, NothingSkipped,
        chain, client
<1>1. CASE \E b \in AccountBlock : OtherBlock(b)
  BY <1>1 DEF OtherBlock
<1>2. CASE \E b \in AccountBlock : ExecuteBlock(b)
  BY <1>2 DEF ExecuteBlock
<1>3. CASE \E b \in blocks, balance \in Balances : WaitForState(b, balance)
  BY <1>3 DEF WaitForState
<1>4. CASE Lose \/ Send \/ ScanFault \/ UNCHANGED vars
  BY <1>4 DEF Lose, Send, ScanFault, vars
<1>5. CASE \E b \in blocks : PollNew(b)
  BY <1>5 DEF PollNew
<1>6. CASE \E b \in blocks : PollOld(b)
  BY <1>6 DEF PollOld, CheckExpired
<1>7. CASE \E b \in blocks, n \in 1..BatchLen : ScanPage(b, n)
  BY <1>7 DEF ScanPage, CheckExpired, NextCursor, Examined
<1> QED
  BY <1>1, <1>2, <1>3, <1>4, <1>5, <1>6, <1>7 DEF Next

\* "expired" is answered after a scan of a state past the expiry time, which by
\* ChainInv shows the message's transaction if there is one.
LEMMA AnswerStep == ASSUME IInv, [Next]_vars PROVE AnswerInv'
<1> USE ReliableSendAssumption
    DEF IInv, TypeOK, AccountBlock, Never, ChainInv, CallInv, AnswerInv, chain, client
<1>1. CASE \E b \in AccountBlock : OtherBlock(b)
  BY <1>1 DEF OtherBlock
<1>2. CASE \E b \in AccountBlock : ExecuteBlock(b)
  BY <1>2 DEF ExecuteBlock
<1>3. CASE \E b \in blocks, balance \in Balances : WaitForState(b, balance)
  BY <1>3 DEF WaitForState
<1>4. CASE Lose \/ Send \/ ScanFault \/ UNCHANGED vars
  BY <1>4 DEF Lose, Send, ScanFault, vars
<1>5. CASE \E b \in blocks : PollNew(b)
  BY <1>5 DEF PollNew
<1>6. CASE \E b \in blocks : PollOld(b)
  BY <1>6 DEF PollOld, CheckExpired, Outdated, NothingSkipped
<1>7. CASE \E b \in blocks, n \in 1..BatchLen : ScanPage(b, n)
  BY <1>7 DEF ScanPage, CheckExpired, Outdated, NextCursor, Examined, NothingSkipped
<1> QED
  BY <1>1, <1>2, <1>3, <1>4, <1>5, <1>6, <1>7 DEF Next

LEMMA InitIInv == ASSUME Init PROVE IInv
<1> USE ReliableSendAssumption DEF Init, AccountBlock, Never
<1>1. PICK b \in AccountBlock : blocks = {b} /\ head = b /\ view = b
  OBVIOUS
<1>2. TypeOK
  <2>1. blocks \subseteq AccountBlock /\ head \in AccountBlock /\ view \in AccountBlock
    BY <1>1
  <2>2. in_flight \in BOOLEAN
    OBVIOUS
  <2> QED
    BY <2>1, <2>2 DEF TypeOK
<1>3. ChainInv
  BY <1>1 DEF ChainInv
<1>4. CallInv
  BY <1>1 DEF CallInv
<1> QED
  BY <1>2, <1>3, <1>4 DEF IInv, AnswerInv, NothingSkipped

LEMMA StepIInv == ASSUME IInv, [Next]_vars PROVE IInv'
<1>1. TypeOK /\ CallInv
  BY DEF IInv
<1>2. TypeOK'
  BY <1>1, TypeStep
<1> QED
  BY <1>2, ChainStep, CallStep, SkipStep, AnswerStep DEF IInv

-------------------------------------------------------------------------------
LEMMA Invariance == Spec => []IInv
BY InitIInv, StepIInv, PTL DEF Spec

\* The type invariant, for every page length, set of expiry times and bound.
THEOREM TypeCorrect == Spec => []TypeOK
<1>1. IInv => TypeOK
  BY DEF IInv
<1> QED
  BY Invariance, <1>1, PTL

\* find_transaction never puts the message's transaction behind known_lt or
\* drops it between two pages, whatever states and pages it is served.
THEOREM NeverSkips == Spec => []NothingSkipped
<1>1. IInv => NothingSkipped
  BY DEF IInv
<1> QED
  BY Invariance, <1>1, PTL

-------------------------------------------------------------------------------
(* The call implements Delivery. *)

LEMMA PromiseInit == ASSUME Init PROVE Promise!DInit
BY ReliableSendAssumption DEF Init, Promise!DInit, AccountBlock, Never

LEMMA PromiseStep ==
  ASSUME IInv, IInv', [Next]_vars PROVE [Promise!DNext]_(Promise!dvars)
<1> USE ReliableSendAssumption
    DEF IInv, TypeOK, AccountBlock, Never, ChainInv, CallInv, AnswerInv,
        chain, client, Promise!DNext, Promise!dvars, Promise!Settle, Promise!Return
<1>1. CASE \E b \in AccountBlock : OtherBlock(b)
  BY <1>1 DEF OtherBlock
<1>2. CASE \E b \in AccountBlock : ExecuteBlock(b)
  BY <1>2 DEF ExecuteBlock
<1>3. CASE \E b \in blocks, balance \in Balances : WaitForState(b, balance)
  BY <1>3 DEF WaitForState
<1>4. CASE Lose \/ Send \/ ScanFault \/ UNCHANGED vars
  BY <1>4 DEF Lose, Send, ScanFault, vars
<1>5. CASE \E b \in blocks : PollNew(b)
  BY <1>5 DEF PollNew
<1>6. CASE \E b \in blocks : PollOld(b)
  BY <1>6 DEF PollOld, CheckExpired
<1>7. CASE \E b \in blocks, n \in 1..BatchLen : ScanPage(b, n)
  BY <1>7 DEF ScanPage, CheckExpired
<1> QED
  BY <1>1, <1>2, <1>3, <1>4, <1>5, <1>6, <1>7 DEF Next

\* `send_message_reliable` keeps its promise: an answer "expired" is final (the
\* message was not executed and never will be) and "found" is true.
THEOREM KeepsPromise == Spec => DeliverySpec
<1>1. IInv /\ IInv' /\ [Next]_vars => [Promise!DNext]_(Promise!dvars)
  BY PromiseStep
<1> QED
  BY PromiseInit, <1>1, Invariance, PTL DEF Spec, DeliverySpec, Promise!DSpec
===============================================================================
