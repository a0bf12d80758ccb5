------------------------------ MODULE Packets ------------------------------
(***************************************************************************)
(* The PDUs rcopy and the server's child exchange while a file is copied,  *)
(* and how the file is cut into them.  A PDU is a record of the fields the *)
(* two programs look at; payload bytes are counted, never spelled out.     *)
(***************************************************************************)
EXTENDS Integers

CONSTANTS
  WindowSize,  \* rcopy's window-size argument, in packets
  BufferSize,  \* rcopy's buffer-size argument, in bytes
  FileSize,    \* length of the source file, in bytes
  SeqMod,      \* 2^32, the range of a uint32_t (smaller for TLC)
  MemFlags,    \* flag bytes that memory nobody has written to may hold
  MemNumbers   \* numbers that memory nobody has written to may hold

(* checkArgs asks for positive numbers and for no more.  main keeps both   *)
(* sizes in a uint16_t: from 65536 on the child has other sizes than rcopy,*)
(* and this is not the transfer that is modelled.                          *)
ASSUME WindowAssumption == WindowSize \in Nat \ {0}
ASSUME BufferAssumption == BufferSize \in Nat \ {0}
ASSUME WidthAssumption  == WindowSize < 65536 /\ BufferSize < 65536
ASSUME FileAssumption   == FileSize \in Nat
ASSUME SeqModAssumption == SeqMod \in Nat /\ SeqMod > 2 * WindowSize + 2

(* Unwritten memory holds anything, RR and SREJ flags included.  Only      *)
(* numbers that are negative as an int, or wrap an edge, are left out.     *)
ASSUME MemAssumption ==
  /\ MemFlags \subseteq 0 .. 255 /\ MemFlags # {}
  /\ MemNumbers \subseteq Nat /\ MemNumbers # {}
  /\ \A n \in MemNumbers : n + WindowSize < SeqMod \div 2

HeaderLen == 7          \* 4 bytes seq#, 2 bytes checksum, 1 byte flag
MAX_PAYLOAD_LEN == 1400

\* The flag byte.
RR    == 5
SREJ  == 6
EOF   == 10
DATA  == 16
ExchangeFlags == {9, 32, 33}  \* file is good, file is bad, talk here now

\* What a C comparison with a uint32_t makes of an int.
U32(x) == x % SeqMod

-----------------------------------------------------------------------------
(* The source file, as getDataChunk reads it.                              *)

NumChunks == (FileSize + BufferSize - 1) \div BufferSize

ChunkLen(s) == IF FileSize - s * BufferSize < BufferSize
               THEN FileSize - s * BufferSize ELSE BufferSize

-----------------------------------------------------------------------------
(* A PDU on its way to rcopy, with its payload length on the wire.         *)

DataPacket == [seq : Int, flag : Nat, len : Int]

makeDataPacket(s, n) == [seq |-> s, flag |-> DATA, len |-> n]

\* Every PDU of the filename exchange is a bare header with sequence number 1.
makeExchangePacket(f) == [seq |-> 1, flag |-> f, len |-> 0]

(* An RR or SREJ PDU: its own header sequence number first, the packet it  *)
(* is about (ref) behind the header.                                       *)

Control == [flag : Nat, seq : Nat, ref : Nat]

makeRRPacket(localSeq, rrSequence) ==
  [flag |-> RR, seq |-> localSeq, ref |-> rrSequence]

makeSREJPacket(localSeq, missingPacket) ==
  [flag |-> SREJ, seq |-> localSeq, ref |-> missingPacket]

\* Mutant: the number behind the header is read.
getSequenceFromBuffer_ref(c) == c.ref

\* The server receives only ACK_BUFF_SIZE = 7 bytes of a control PDU: the
\* flag and the header's sequence number survive, ref does not.
getSequenceFromBuffer(c) == c.seq

\* What rcopy's malloc'ed buffer may hold in place of a control PDU.
Junk == {[flag |-> f, seq |-> n, ref |-> n] : f \in MemFlags, n \in MemNumbers}

\* What a malloc'ed slot of the child's ring may hold in place of a data PDU.
RawPacket == [seq : MemNumbers, flag : MemFlags, len : MemNumbers]
=============================================================================
