------------------------------- MODULE Delivery -------------------------------
(* What `NetworkClient::send_message_reliable` promises its caller about one    *)
(* message.  The message has a fate on the destination chain, which the caller *)
(* cannot see, and the call returns at most one answer.  The promise is that   *)
(* "found" is given only for an executed message and "expired" only for one    *)
(* that is dead: it was not executed and never will be, so sending it again is *)
(* safe.  An "error" says nothing about the fate.                              *)
VARIABLES fate, answer

dvars == <<fate, answer>>

Fates == {"open", "executed", "dead"}
Answers == {"none", "found", "expired", "error"}

DTypeOK ==
  /\ fate \in Fates
  /\ answer \in Answers

DInit ==
  /\ fate = "open"
  /\ answer = "none"

\* The chain settles the fate once; it never revises it.
Settle ==
  /\ fate = "open"
  /\ fate' \in {"executed", "dead"}
  /\ UNCHANGED answer

\* The call returns once, and only with an answer its promise allows.
Return ==
  /\ answer = "none"
  /\ answer' \in {"error"} \cup (IF fate = "executed" THEN {"found"} ELSE {})
                           \cup (IF fate = "dead" THEN {"expired"} ELSE {})
  /\ UNCHANGED fate

DNext == Settle \/ Return

DSpec == DInit /\ [][DNext]_dvars
===============================================================================
