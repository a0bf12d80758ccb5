---- MODULE FilenamePDU ----
(***************************************************************************)
(* The one PDU whose bytes matter: the filename PDU, its checksum, and the *)
(* buffer main reads every datagram into.  main tests the checksum of the  *)
(* whole buffer and looks neither at the length nor at the flag of what    *)
(* came, so behind a short datagram stands the rest of an older one.       *)
(*   rpc   ARGS           rcopy has its command line                       *)
(*         SEND_FILENAME  the PDU is built, its datagrams may arrive       *)
(*         USAGE, EXITED  checkArgs refused, or the checksum did not match *)
(* Byte i of a C buffer is element i + 1 of a sequence.                    *)
(***************************************************************************)
EXTENDS Integers, Sequences, SequencesExt

CONSTANTS
  MAX_FILENAME_LEN,  \* 100; even, so that each field keeps its half of a word, and
                     \* no more bytes than in_cksum can add up in an int
  CommandLines,      \* [name, window, buffer] an rcopy may be started with
  SeqNumbers,        \* numbers in RR and SREJ PDUs
  Tails              \* what may stand in memory behind main's filename array

ASSUME FilenameAssumption ==
  /\ MAX_FILENAME_LEN \in 1 .. 32000
  /\ CommandLines \subseteq [name : Seq(1 .. 255), window : Int, buffer : Int]
  /\ SeqNumbers \subseteq Nat
  /\ \A tail \in Tails : tail \in Seq(0 .. 255) /\ 0 \in Range(tail)

VARIABLES
  params, pdu, rpc,  \* rcopy
  buffer, serves,    \* main: its buffer, and the arguments startFSM got, if any
  recv_len,          \* the length of the datagram main read last
  asked              \* the params whose filename PDU main read last: a record only
                     \* the properties use

vars == <<params, pdu, rpc, buffer, serves, recv_len, asked>>

None == <<>>
HeaderLen == 7
PDULen == HeaderLen + MAX_FILENAME_LEN + 2 + 4

-----------------------------------------------------------------------------
(* Bytes.  Both machines are little-endian; memcpy of a uint16_t that was  *)
(* not converted stores its low byte first.                                *)

Zeros(n) == [i \in 1 .. n |-> 0]
htons(x) == <<(x \div 256) % 256, x % 256>>
htonl(x) == htons(x \div 65536) \o htons(x % 65536)
ntohs(b) == 256 * b[1] + b[2]
ntohl(b) == 65536 * ntohs(SubSeq(b, 1, 2)) + ntohs(SubSeq(b, 3, 4))
Field(b, from, n) == SubSeq(b, from + 1, from + n)

strncpy(s, n) == [i \in 1 .. n |-> IF i <= Len(s) THEN s[i] ELSE 0]
CString(s) == SubSeq(s, 1, SelectInSeq(s, LAMBDA c : c = 0) - 1)

-----------------------------------------------------------------------------
(* The Internet checksum.  The callers copy their bytes into an array of   *)
(* uint16_t with one element per byte and one more, all of it summed: the  *)
(* bytes, then zeros.                                                      *)

ByteAt(b, k) == IF k <= Len(b) THEN b[k] ELSE 0
Word(b, i) == ByteAt(b, 2 * i - 1) + 256 * ByteAt(b, 2 * i)

\* What the loop of in_cksum adds up in n rounds.
Total(w, n) ==
  LET sum[i \in 0 .. n] == IF i = 0 THEN 0 ELSE sum[i - 1] + w[i] IN sum[n]

WordSum(b) == Total([i \in 1 .. Len(b) + 1 |-> Word(b, i)], Len(b) + 1)

\* Mutant: the carry of the first fold is lost.
in_cksum_once(b) ==
  LET sum == WordSum(b) IN 65535 - (((sum \div 65536) + (sum % 65536)) % 65536)

in_cksum(b) ==
  LET sum  == WordSum(b)
      fold == (sum \div 65536) + (sum % 65536)
  IN  65535 - ((fold + (fold \div 65536)) % 65536)

\* makeFilenamePDUAfterChecksum and its like: bytes 4 and 5.
AfterChecksum(b) == LET c == in_cksum(b) IN [b EXCEPT ![5] = c % 256, ![6] = c \div 256]

Header(seq, flag) == htonl(seq) \o Zeros(2) \o <<flag>>

-----------------------------------------------------------------------------
(* rcopy.                                                                  *)

checkArgs(a) ==
  Len(a.name) \in 1 .. MAX_FILENAME_LEN /\ a.window > 0 /\ a.buffer > 0

makeFilenamePDU(a) ==
  Header(1, 8) \o strncpy(a.name, MAX_FILENAME_LEN) \o htons(a.buffer) \o htonl(a.window)

\* What else rcopy sends: the answer to the error packet, RRs and SREJs.
makeFilenameACK == Header(1, 33)
makeControl(flag, localSeq, ref) == Header(localSeq, flag) \o htonl(ref)

ShortDatagrams ==
  {AfterChecksum(makeFilenameACK)} \cup
  {AfterChecksum(makeControl(f, l, r)) : f \in {5, 6}, l \in SeqNumbers, r \in SeqNumbers}

Init ==
  /\ params = None /\ pdu = None /\ rpc = "ARGS"
  /\ buffer = None /\ serves = None
  /\ recv_len = 0 /\ asked = None

Start(a) ==
  /\ rpc = "ARGS"
  /\ \/ /\ ~checkArgs(a)
        /\ rpc' = "USAGE"
        /\ UNCHANGED <<params, pdu>>
     \/ /\ checkArgs(a)
        /\ params' = a
        /\ pdu' = AfterChecksum(makeFilenamePDU(a))
        /\ rpc' = IF in_cksum(pdu') = 0 THEN "SEND_FILENAME" ELSE "EXITED"
  /\ UNCHANGED <<buffer, serves, recv_len, asked>>

\* Another rcopy is started.
NextRcopy ==
  /\ rpc # "ARGS"
  /\ rpc' = "ARGS" /\ params' = None /\ pdu' = None
  /\ UNCHANGED <<buffer, serves, recv_len, asked>>

-----------------------------------------------------------------------------
(* main.                                                                   *)

\* The payload bytes a data PDU has room for: makeDataPacketBeforeChecksum
\* takes buffer_size as a uint8_t.
PayloadLen(buffer_size) == buffer_size % 256

\* What startFSM is called with.  A name of full length has no terminator.
Extracted(b) ==
  {[name    |-> CString(Field(b, HeaderLen, MAX_FILENAME_LEN) \o tail),
    buffer  |-> ntohs(Field(b, HeaderLen + MAX_FILENAME_LEN, 2)),
    window  |-> ntohl(Field(b, HeaderLen + MAX_FILENAME_LEN + 2, 4)) % 65536,
    payload |-> PayloadLen(ntohs(Field(b, HeaderLen + MAX_FILENAME_LEN, 2)))] : tail \in Tails}

\* Mutant: the test is on the datagram alone.
Recv_alone(d) ==
  /\ buffer' = d \o SubSeq(buffer, Len(d) + 1, PDULen)
  /\ recv_len' = Len(d)
  /\ serves' \in IF in_cksum(d) = 0 THEN Extracted(buffer') ELSE {None}

\* recvfrom overwrites the front of the buffer; the test is on all of it.
Recv(d) ==
  /\ buffer' = d \o SubSeq(buffer, Len(d) + 1, PDULen)
  /\ recv_len' = Len(d)
  /\ serves' \in IF in_cksum(buffer') = 0 THEN Extracted(buffer') ELSE {None}

RecvRequest ==
  /\ rpc = "SEND_FILENAME"
  /\ Recv(pdu)
  /\ asked' = params
  /\ UNCHANGED <<params, pdu, rpc>>

\* Only a process that has read a filename PDU is ever sent anything else.
RecvShort(d) ==
  /\ asked # None
  /\ Recv(d)
  /\ UNCHANGED <<params, pdu, rpc, asked>>

Next ==
  \/ \E a \in CommandLines : Start(a)
  \/ NextRcopy
  \/ RecvRequest
  \/ \E d \in ShortDatagrams : RecvShort(d)

Spec == Init /\ [][Next]_vars

-----------------------------------------------------------------------------
(* Properties.                                                             *)

\* rcopy never takes its own checksum for wrong, and whatever main had in its
\* buffer, a filename PDU makes startFSM run with what was asked for, narrowed:
\* window and buffer size to 16 bits, the payload of a data PDU to 8.  Bytes of
\* main's memory may follow a name that fills its field, never any other.
RequestArrives ==
  /\ rpc # "EXITED"
  /\ recv_len = PDULen =>
       /\ serves # None
       /\ serves.window = asked.window % 65536
       /\ serves.buffer = asked.buffer % 65536
       /\ serves.payload = asked.buffer % 256
       /\ IF Len(asked.name) < MAX_FILENAME_LEN THEN serves.name = asked.name
          ELSE IsPrefix(asked.name, serves.name)

\* main takes a datagram for a request exactly when the bytes an older one left
\* behind it add up to a multiple of 65535: always for a filename PDU, which
\* leaves none, and for another PDU when the old name and sizes happen to.
\* Then a child is forked for a request nobody repeated.
AcceptedIffRestIsZero ==
  recv_len > 0 =>
    LET rest == WordSum(Zeros(recv_len) \o SubSeq(buffer, recv_len + 1, PDULen))
    IN  (serves # None) <=> (rest % 65535 = 0)
====
