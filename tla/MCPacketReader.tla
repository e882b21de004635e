---------------------------- MODULE MCPacketReader ----------------------------
(* A stream with the handshake's empty packet, answers of different lengths    *)
(* and packets that are too small: MIN_PACKET_LEN is three units of length.    *)
EXTENDS PacketReader

MCLength == <<3, 7, 3, 2, 5, 1, 1, 4, 3, 2>>
MCStart == <<0, 3, 10, 13, 15, 20, 21, 22, 26, 29, 31>>
===============================================================================
