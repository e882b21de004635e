----------------------------- MODULE PacketReader -----------------------------
(* socket_reader of ton-lite-client: packets are cut out of a stream that      *)
(* arrives in pieces of any size.  A packet is its total length, as its first  *)
(* bytes say, and whether it is an answer that can be decoded.  Positions in   *)
(* the stream stand for its (decrypted) bytes: the buffer `packet` holds those *)
(* from `taken` up to `got`.                                                   *)
EXTENDS Integers

CONSTANTS
  Count,        \* packets in the stream
  Length,       \* of each packet, with its length field
  Start,        \* where each packet starts; Start[Count + 1] is the stream's end
  Answers,      \* packets with a valid checksum and an adnl.message.answer
  MinLength,    \* MIN_PACKET_LEN
  LengthField,  \* size_of::<u32>()
  ReadSize      \* buffer.len()

Packets == 1..Count

ASSUME PacketReaderAssumption ==
  /\ Count \in Nat \ {0}
  /\ LengthField \in Nat \ {0}
  /\ MinLength \in Nat /\ MinLength > LengthField
  /\ ReadSize \in Nat \ {0}
  /\ Length \in [Packets -> Nat]
  /\ \A k \in Packets : Length[k] >= LengthField
  /\ Start \in [1..Count + 1 -> Nat]
  /\ Start[1] = 0
  /\ \A k \in Packets : Start[k + 1] = Start[k] + Length[k]
  /\ \A j, k \in 1..Count + 1 : j <= k => Start[j] <= Start[k]
  /\ Answers \subseteq Packets
  /\ \A k \in Answers : Length[k] >= MinLength

VARIABLES
  reading,      \* waits for the socket, goes over the buffer, or has returned
  got,          \* bytes read
  taken,        \* bytes of the packets skipped
  target_len,   \* 0 for None
  updated       \* packets given to update_query

readerVars == <<reading, got, taken, target_len, updated>>

\* The packet at the front of the buffer, if the buffer starts with one.
Front == {k \in Packets : Start[k] = taken}

\* The buffer always starts with a packet, or is at the end of the stream.
ReaderTypeOK ==
  /\ reading \in {"read", "parse", "ended"}
  /\ got \in 0..Start[Count + 1]
  /\ taken \in {Start[k] : k \in 1..Count + 1}
  /\ taken <= got
  /\ target_len \in 0..Start[Count + 1]
  /\ updated \subseteq Packets

ReaderInit ==
  /\ reading = "read"
  /\ got = 0
  /\ taken = 0
  /\ target_len = 0
  /\ updated = {}

-------------------------------------------------------------------------------
Buffered == got - taken

\* target_len.unwrap_or(MIN_PACKET_LEN)
Needed == IF target_len = 0 THEN MinLength ELSE target_len

Read ==
  /\ reading = "read"
  /\ \E n \in 1..ReadSize :
       /\ got + n <= Start[Count + 1]
       /\ got' = got + n
  /\ reading' = "parse"
  /\ UNCHANGED <<taken, target_len, updated>>

\* "socket closed", or an error.
End ==
  /\ reading = "read"
  /\ reading' = "ended"
  /\ UNCHANGED <<got, taken, target_len, updated>>

\* The loop's condition is false.
Leave ==
  /\ reading = "parse"
  /\ Buffered < Needed
  /\ reading' = "read"
  /\ UNCHANGED <<got, taken, target_len, updated>>

\* `continue 'outer` with the packet's length as the target.
Incomplete(k) ==
  /\ reading = "parse"
  /\ Buffered >= Needed
  /\ Buffered < Length[k]
  /\ target_len' = Length[k]
  /\ reading' = "read"
  /\ UNCHANGED <<got, taken, updated>>

\* packet.copy_within(length.., 0)
Skipped(k) == Length[k]

\* Mutation: the target of the packet before stays.
TargetKept == target_len

\* target_len = None
TargetReset == 0

\* A packet is handled and skipped; one that is too small, damaged, empty or no
\* answer is only skipped.
Handle(k) ==
  /\ reading = "parse"
  /\ Buffered >= Needed
  /\ Buffered >= Length[k]
  /\ updated' = IF k \in Answers THEN updated \cup {k} ELSE updated
  /\ taken' = taken + Skipped(k)
  /\ target_len' = TargetReset
  /\ UNCHANGED <<reading, got>>

ReaderNext ==
  \/ Read
  \/ End
  \/ Leave
  \/ \E k \in Front : Incomplete(k) \/ Handle(k)

ReaderSpec == ReaderInit /\ [][ReaderNext]_readerVars

-------------------------------------------------------------------------------
(* Properties. *)

\* Whenever the reader waits for the socket, every answer that has arrived as a
\* whole has been passed on, and no other: however the stream was cut into reads,
\* and whatever small or damaged packets lie between.
AnswersPassedOn ==
  reading = "read" => updated = {k \in Answers : Start[k + 1] <= got}
===============================================================================
