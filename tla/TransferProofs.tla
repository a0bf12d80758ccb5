--------------------------- MODULE TransferProofs ---------------------------
(***************************************************************************)
(* The whole transfer: an invariant that joins the ring of the child, the  *)
(* buffer of rcopy and the PDUs between them, and the theorems it gives,   *)
(* for every value of the constants.                                       *)
(***************************************************************************)
EXTENDS Transfer, ReceiverProofs, DatagramsProofs, TLAPS

-----------------------------------------------------------------------------
(* What the server's child keeps true by itself, whatever control PDUs     *)
(* reach it.                                                               *)

SndTypeOK ==
  /\ spc \in SndStates
  /\ window \in SenderWindow
  /\ data_sequence_number \in Nat /\ first \in Nat

\* What is in the control direction are control PDUs.
CtlIn == BagToSet(ctl) \subseteq Control

\* The inductive invariant of the ring.  A slot goes from raw to full to null
\* and never back: the slots of what lower has passed are null, a raw slot is
\* one the counter has not passed, and a full one holds a packet of its index.
\* The upper edge is one window above zero until the first RR, and one less
\* above lower from then on, so when the child listens its counter has passed
\* the window size.
RingInv ==
  /\ first <= data_sequence_number
  /\ window.lower = 0 => window.upper = WindowSize
  /\ window.lower > 0 => window.upper = window.lower + WindowSize - 1
  /\ spc # "DONE" => \/ data_sequence_number = first /\ window.current = 0
                     \/ window.current = data_sequence_number - 1
  /\ Listening => data_sequence_number > WindowSize
  /\ \A i \in Slots :
       /\ window.buffer[i].mem = "raw" =>
            \A t \in first .. data_sequence_number - 1 : IndexOf(t) # i
       /\ window.buffer[i].mem # "null" => window.buffer[i].ACK = 0
       /\ window.buffer[i].mem = "full" =>
            /\ IndexOf(window.buffer[i].sequence_number) = i
            /\ window.buffer[i].sequence_number \in first .. data_sequence_number
            /\ spc # "DONE" => window.buffer[i].sequence_number # data_sequence_number
  /\ \A s \in 0 .. window.lower - 1 : SlotOf(s).mem = "null"

\* What the ring holds, exactly, in a child whose numbers start at 0.  Only what
\* lower has passed was freed, and a full slot holds the packet of its own
\* number, but for slot 0 once the packet after the first window has overwritten
\* packet 0.  The counter stops there: lower only moves after the whole window
\* was sent, and then has freed the slot of the next packet.
HoldInv ==
  first = 0 =>
    /\ data_sequence_number <= WindowSize + 1
    /\ window.lower > 0 => data_sequence_number > WindowSize
    /\ spc # "DONE" => \A i \in Slots :
         /\ window.buffer[i].mem = "null" => i < window.lower
         /\ window.buffer[i].mem = "full" => window.buffer[i].sequence_number =
               IF i = 0 /\ data_sequence_number > WindowSize THEN WindowSize ELSE i

-----------------------------------------------------------------------------
(* Operations of window.c.                                                 *)

\* A sequence number selects a slot, and below the window size its own.
LEMMA SlotIndex ==
  /\ \A s \in Int : IndexOf(s) \in Slots
  /\ \A s \in Slots : IndexOf(s) = s
<1>1. \A s \in Int : IndexOf(s) \in Slots
  BY WindowAssumption DEF IndexOf, Slots
<1>2. ASSUME NEW s \in Slots PROVE IndexOf(s) = s
  <2> DEFINE q == s \div WindowSize
             r == s % WindowSize
  <2>1. s \in Int /\ 0 <= s /\ s < WindowSize /\ WindowSize \in Int /\ WindowSize > 0
    BY WindowAssumption DEF Slots
  <2>2. q \in Int /\ r \in Int /\ 0 <= r /\ r < WindowSize /\ s = WindowSize * q + r
    BY <2>1
  <2> HIDE DEF q, r
  <2>3. q >= 1 => WindowSize * q >= WindowSize
    BY <2>1, <2>2
  <2>4. q <= -1 => WindowSize * q <= -WindowSize
    BY <2>1, <2>2
  <2>5. q = 0
    BY <2>1, <2>2, <2>3, <2>4
  <2>6. r = s
    BY <2>1, <2>2, <2>5
  <2> QED
    BY <2>6 DEF r, IndexOf
<1> QED
  BY <1>1, <1>2

\* A ring later the number selects the same slot.
LEMMA SlotWraps == \A s \in Slots : IndexOf(WindowSize + s) = s
<1> SUFFICES ASSUME NEW s \in Slots PROVE IndexOf(WindowSize + s) = s
  OBVIOUS
<1> DEFINE q == (WindowSize + s) \div WindowSize
           r == (WindowSize + s) % WindowSize
<1>1. s \in Int /\ 0 <= s /\ s < WindowSize /\ WindowSize \in Int /\ WindowSize > 0
  BY WindowAssumption DEF Slots
<1>2. /\ q \in Int /\ r \in Int /\ 0 <= r /\ r < WindowSize
      /\ WindowSize + s = WindowSize * q + r
  BY <1>1
<1> HIDE DEF q, r
<1>3. q >= 2 => WindowSize * q >= 2 * WindowSize
  BY <1>1, <1>2
<1>4. q <= 0 => WindowSize * q <= 0
  BY <1>1, <1>2
<1>5. q = 1
  BY <1>1, <1>2, <1>3, <1>4
<1>6. r = s
  BY <1>1, <1>2, <1>5
<1> QED
  BY <1>6 DEF r, IndexOf

\* A slot's index is no larger than a number that selects it.
LEMMA SlotBelow == \A s \in Nat : IndexOf(s) <= s
<1> SUFFICES ASSUME NEW s \in Nat PROVE IndexOf(s) <= s
  OBVIOUS
<1>1. WindowSize \in Nat
  BY WindowAssumption
<1>2. CASE s < WindowSize
  BY <1>1, <1>2, SlotIndex DEF Slots
<1>3. CASE s >= WindowSize
  <2>1. IndexOf(s) \in 0 .. WindowSize - 1
    BY SlotIndex DEF Slots
  <2> QED
    BY <1>1, <1>3, <2>1
<1> QED
  BY <1>1, <1>2, <1>3

\* The packet after the first window has the slot of packet 0, the next one the
\* slot of packet 1 (the only slot, if the window is of one packet).
LEMMA FirstWraps == IndexOf(WindowSize) = 0 /\ IndexOf(WindowSize + 1) = IndexOf(1)
<1>1. WindowSize \in Nat /\ WindowSize >= 1
  BY WindowAssumption
<1>2. IndexOf(WindowSize) = 0
  <2>1. 0 \in Slots /\ WindowSize + 0 = WindowSize
    BY <1>1 DEF Slots
  <2> QED
    BY <2>1, SlotWraps
<1>3. CASE WindowSize = 1
  <2>1. Slots = {0}
    BY <1>3 DEF Slots
  <2>2. IndexOf(WindowSize + 1) \in Slots /\ IndexOf(1) \in Slots
    BY <1>1, SlotIndex
  <2> QED
    BY <1>2, <2>1, <2>2
<1>4. CASE WindowSize # 1
  <2>1. 1 \in Slots
    BY <1>1, <1>4 DEF Slots
  <2> QED
    BY <1>2, <2>1, SlotIndex, SlotWraps
<1> QED
  BY <1>3, <1>4

\* The slots of the ring, field by field.
LEMMA SlotFields ==
  ASSUME NEW w \in SenderWindow, NEW i \in Slots
  PROVE  /\ w.buffer[i] \in SenderSlot
         /\ w.buffer[i].mem \in {"null", "raw", "full"}
         /\ w.buffer[i].sequence_number \in Int
         /\ w.buffer[i].data_size \in Int
         /\ w.buffer[i].ACK \in {0, 1}
  BY DEF SenderWindow, SenderSlot

\* acknowledgePacket only marks, and only the slot of s.
LEMMA AckMarks ==
  ASSUME NEW w \in SenderWindow, NEW s \in Nat,
         NEW a, a = acknowledgePacket(w, s)
  PROVE  /\ a \in SenderWindow
         /\ a.lower = w.lower /\ a.upper = w.upper /\ a.current = w.current
         /\ \A i \in Slots :
              i # IndexOf(s) \/ w.buffer[i].mem = "null" => a.buffer[i] = w.buffer[i]
<1> DEFINE b == [i \in Slots |->
                   IF i = IndexOf(s) /\ w.buffer[i].mem # "null"
                   THEN [w.buffer[i] EXCEPT !.ACK = 1] ELSE w.buffer[i]]
<1>1. \A i \in Slots : [w.buffer[i] EXCEPT !.ACK = 1] \in SenderSlot
  BY SlotFields DEF SenderSlot
<1>2. b \in [Slots -> SenderSlot]
  BY <1>1, SlotFields
<1>3. \A i \in Slots :
        i # IndexOf(s) \/ w.buffer[i].mem = "null" => b[i] = w.buffer[i]
  OBVIOUS
<1>4. acknowledgePacket(w, s) = [w EXCEPT !.buffer = b]
  BY DEF acknowledgePacket
<1> HIDE DEF b
<1>5. /\ a \in SenderWindow /\ a.buffer = b
      /\ a.lower = w.lower /\ a.upper = w.upper /\ a.current = w.current
  BY <1>2, <1>4 DEF SenderWindow
<1> QED
  BY <1>3, <1>5

\* Slide nulls the slots it passes and leaves the others alone.
LEMMA SlideFrees ==
  ASSUME NEW w \in SenderWindow, NEW l \in Nat, NEW last \in Int, NEW u \in Nat,
         NEW v, v = Slide(w, l, last, u)
  PROVE  /\ v \in SenderWindow
         /\ v.lower = l /\ v.upper = u /\ v.current = w.current
         /\ \A i \in Slots : v.buffer[i] = NullSlot \/ v.buffer[i] = w.buffer[i]
         /\ \A t \in w.lower .. last : v.buffer[IndexOf(t)] = NullSlot
         /\ \A i \in Slots : (\A t \in w.lower .. last : IndexOf(t) # i)
                              => v.buffer[i] = w.buffer[i]
<1> DEFINE b == [i \in Slots |->
                   IF \E s \in w.lower .. last : IndexOf(s) = i
                   THEN NullSlot ELSE w.buffer[i]]
<1>1. NullSlot \in SenderSlot
  BY DEF NullSlot, SenderSlot
<1>2. b \in [Slots -> SenderSlot]
  BY <1>1, SlotFields
<1>3. \A i \in Slots : b[i] = NullSlot \/ b[i] = w.buffer[i]
  OBVIOUS
<1>4. \A t \in w.lower .. last : b[IndexOf(t)] = NullSlot
  BY SlotIndex DEF SenderWindow
<1>5. \A i \in Slots : (\A t \in w.lower .. last : IndexOf(t) # i) => b[i] = w.buffer[i]
  OBVIOUS
<1>6. Slide(w, l, last, u) = [w EXCEPT !.buffer = b, !.lower = l, !.upper = u]
  BY DEF Slide
<1> HIDE DEF b
<1>7. /\ v \in SenderWindow /\ v.buffer = b
      /\ v.lower = l /\ v.upper = u /\ v.current = w.current
  BY <1>2, <1>6 DEF SenderWindow
<1> QED
  BY <1>3, <1>4, <1>5, <1>7

\* An RR for s: what acknowledgePacket marks, advanceSenderWindow frees, when
\* the slots lower has passed are null already.
LEMMA RRFrees ==
  ASSUME NEW w \in SenderWindow, NEW s \in Nat,
         s < w.lower => w.buffer[IndexOf(s)].mem = "null",
         NEW v, v = advanceSenderWindow(acknowledgePacket(w, s), s + 1)
  PROVE  /\ v \in SenderWindow
         /\ v.current = w.current
         /\ \A i \in Slots : v.buffer[i] = NullSlot \/ v.buffer[i] = w.buffer[i]
         /\ \/ /\ s >= w.lower /\ v.lower = s + 1 /\ v.upper = s + WindowSize
               /\ \A t \in w.lower .. s : v.buffer[IndexOf(t)] = NullSlot
            \/ s < w.lower /\ v.lower = w.lower /\ v.upper = w.upper
         /\ \A i \in Slots : v.buffer[i].mem = "null" =>
              \/ w.buffer[i].mem = "null"
              \/ \E t \in w.lower .. s : IndexOf(t) = i
<1> DEFINE a == acknowledgePacket(w, s)
<1>1. /\ a \in SenderWindow
      /\ a.lower = w.lower /\ a.upper = w.upper /\ a.current = w.current
      /\ \A i \in Slots :
           i # IndexOf(s) \/ w.buffer[i].mem = "null" => a.buffer[i] = w.buffer[i]
  BY AckMarks
<1>2. w.lower \in Nat /\ WindowSize \in Nat /\ WindowSize >= 1
  BY WindowAssumption DEF SenderWindow
<1> HIDE DEF a
<1>3. CASE s >= w.lower
  <2>1. v = Slide(a, s + 1, s, s + WindowSize)
    <3>1. s + 1 > a.lower /\ (s + 1) - 1 = s /\ (s + 1) + WindowSize - 1 = s + WindowSize
      BY <1>1, <1>2, <1>3
    <3> QED
      BY <3>1 DEF advanceSenderWindow, a
  <2>2. /\ v \in SenderWindow
        /\ v.lower = s + 1 /\ v.upper = s + WindowSize /\ v.current = a.current
        /\ \A i \in Slots : v.buffer[i] = NullSlot \/ v.buffer[i] = a.buffer[i]
        /\ \A t \in a.lower .. s : v.buffer[IndexOf(t)] = NullSlot
        /\ \A i \in Slots : (\A t \in a.lower .. s : IndexOf(t) # i)
                             => v.buffer[i] = a.buffer[i]
    <3>1. s + 1 \in Nat /\ s \in Int /\ s + WindowSize \in Nat /\ a \in SenderWindow
      BY <1>1, <1>2
    <3> QED
      BY <2>1, <3>1, SlideFrees
  <2>3. v.buffer[IndexOf(s)] = NullSlot
    BY <1>1, <1>2, <1>3, <2>2
  <2>4. \A i \in Slots : v.buffer[i] = NullSlot \/ v.buffer[i] = w.buffer[i]
    BY <1>1, <2>2, <2>3
  <2>5. \A t \in w.lower .. s : v.buffer[IndexOf(t)] = NullSlot
    BY <1>1, <2>2
  <2>6. /\ v \in SenderWindow
        /\ v.lower = s + 1 /\ v.upper = s + WindowSize /\ v.current = w.current
    BY <1>1, <2>2
  <2>7. ASSUME NEW i \in Slots, v.buffer[i].mem = "null",
               \A t \in w.lower .. s : IndexOf(t) # i
        PROVE  w.buffer[i].mem = "null"
    <3>1. v.buffer[i] = a.buffer[i]
      BY <1>1, <2>2, <2>7
    <3>2. i # IndexOf(s)
      BY <1>2, <1>3, <2>7
    <3> QED
      BY <1>1, <2>7, <3>1, <3>2
  <2>8. \A i \in Slots : v.buffer[i].mem = "null" =>
          w.buffer[i].mem = "null" \/ \E t \in w.lower .. s : IndexOf(t) = i
    BY <2>7
  <2> QED
    BY <1>3, <2>4, <2>5, <2>6, <2>8
<1>4. CASE s < w.lower
  <2>1. v = a
    BY <1>1, <1>2, <1>4 DEF advanceSenderWindow, a
  <2>2. \A i \in Slots : a.buffer[i] = w.buffer[i]
    BY <1>1, <1>4
  <2> QED
    BY <1>1, <1>4, <2>1, <2>2
<1> QED
  BY <1>2, <1>3, <1>4
\* Lengths are numbers.
LEMMA LenType == \A s \in Int : ChunkLen(s) \in Int
  BY FileAssumption, BufferAssumption DEF ChunkLen

\* Filling a slot leaves the other slots and the edges alone.
LEMMA FillSets ==
  ASSUME SndTypeOK, NEW s \in Nat
  PROVE  /\ Fill(s) \in SenderWindow
         /\ Fill(s).lower = window.lower /\ Fill(s).upper = window.upper
         /\ Fill(s).current = s
         /\ Fill(s).buffer[IndexOf(s)] =
              [mem |-> "full", sequence_number |-> s,
               data_size |-> ChunkLen(ChunkOf(s)) + HeaderLen, ACK |-> 0]
         /\ \A i \in Slots \ {IndexOf(s)} : Fill(s).buffer[i] = window.buffer[i]
<1> DEFINE slot == [mem |-> "full", sequence_number |-> s,
                    data_size |-> ChunkLen(ChunkOf(s)) + HeaderLen, ACK |-> 0]
           b == [window.buffer EXCEPT ![IndexOf(s)] = slot]
<1>1. slot \in SenderSlot
  <2>1. ChunkOf(s) \in Int
    BY DEF ChunkOf, SndTypeOK
  <2>2. ChunkLen(ChunkOf(s)) + HeaderLen \in Int
    BY <2>1, LenType DEF HeaderLen
  <2> QED
    BY <2>2 DEF SenderSlot
<1>2. IndexOf(s) \in Slots
  BY SlotIndex
<1>3. window.buffer \in [Slots -> SenderSlot]
  BY DEF SndTypeOK, SenderWindow
<1>4. /\ b \in [Slots -> SenderSlot] /\ b[IndexOf(s)] = slot
      /\ \A i \in Slots \ {IndexOf(s)} : b[i] = window.buffer[i]
  BY <1>1, <1>2, <1>3
<1>5. Fill(s) = [[window EXCEPT !.buffer = b] EXCEPT !.current = s]
  BY DEF Fill, insertPacketIntoWindow
<1> HIDE DEF b
<1>6. /\ Fill(s) \in SenderWindow /\ Fill(s).buffer = b /\ Fill(s).current = s
      /\ Fill(s).lower = window.lower /\ Fill(s).upper = window.upper
  BY <1>4, <1>5 DEF SndTypeOK, SenderWindow
<1> QED
  BY <1>4, <1>6

-----------------------------------------------------------------------------
(* Steps of the child.                                                     *)

\* The child starts with its variables in their types and a ring of raw slots.
LEMMA SndStart == SndInit => SndTypeOK /\ RingInv
<1> SUFFICES ASSUME SndInit PROVE SndTypeOK /\ RingInv
  OBVIOUS
<1>1. WindowSize \in Nat /\ WindowSize >= 1
  BY WindowAssumption
<1>2. /\ window.buffer = [i \in Slots |-> RawSlot]
      /\ window.lower = 0 /\ window.upper = WindowSize /\ window.current = 0
      /\ spc = "OPEN" /\ data_sequence_number = first /\ first \in Nat
  BY FirstAssumption DEF SndInit, initSenderWindow
<1>3. RawSlot \in SenderSlot
  BY DEF RawSlot, SenderSlot
<1>4. window \in SenderWindow
  BY <1>1, <1>3 DEF SndInit, initSenderWindow, SenderWindow
<1>5. RingInv
  <2>1. \A i \in Slots : window.buffer[i] = RawSlot
    BY <1>2
  <2>2. 0 .. window.lower - 1 = {} /\ first .. data_sequence_number - 1 = {}
    BY <1>2
  <2>3. first <= data_sequence_number /\ ~ (window.lower > 0)
    BY <1>2
  <2> QED
    BY <1>1, <1>2, <2>1, <2>2, <2>3 DEF RingInv, RawSlot, Listening
<1> QED
  BY <1>2, <1>4, <1>5 DEF SndTypeOK, SndStates

\* What a resend puts into the data direction.
LEMMA ResendSends ==
  ASSUME NEW slot, Resend(slot), NEW p \in BagToSet(data')
  PROVE  \/ p \in BagToSet(data)
         \/ /\ slot.mem = "full"
            /\ p = makeDataPacket(slot.sequence_number, slot.data_size)
         \/ slot.mem = "raw" /\ p \in RawPacket
<1>1. CASE /\ slot.mem = "full"
           /\ data' \in sendtoErr(data, makeDataPacket(slot.sequence_number, slot.data_size))
  BY <1>1, SendAdds
<1>2. CASE UNCHANGED data
  BY <1>2
<1>3. CASE slot.mem = "raw" /\ \E q \in RawPacket : data' \in sendtoErr(data, q)
  BY <1>3, SendAdds
<1> QED
  BY <1>1, <1>2, <1>3 DEF Resend

\* A control PDU carries a number.
LEMMA CtlSeq ==
  ASSUME CtlIn, NEW c \in BagToSet(ctl)
  PROVE  getSequenceFromBuffer(c) \in Nat
  BY DEF CtlIn, Control, getSequenceFromBuffer

\* The effect of an RR on the ring.
LEMMA RRStep ==
  ASSUME SndTypeOK, CtlIn, RingInv, NEW c \in BagToSet(ctl), HandleRR(c), UNCHANGED first
  PROVE  SndTypeOK' /\ RingInv'
<1> DEFINE s == getSequenceFromBuffer(c)
<1>1. s \in Nat
  BY CtlSeq
<1> HIDE DEF s
<1>2. window' = advanceSenderWindow(acknowledgePacket(window, s), s + 1)
  BY DEF HandleRR, s
<1>3. window.lower \in Nat /\ window.upper \in Nat /\ window.current \in Nat
      /\ window \in SenderWindow /\ data_sequence_number \in Nat
  BY DEF SndTypeOK, SenderWindow
<1>4. s < window.lower => window.buffer[IndexOf(s)].mem = "null"
  BY <1>1, <1>3 DEF RingInv, SlotOf
<1>5. /\ window' \in SenderWindow
      /\ window'.current = window.current
      /\ \A i \in Slots : window'.buffer[i] = NullSlot \/ window'.buffer[i] = window.buffer[i]
      /\ \/ /\ s >= window.lower /\ window'.lower = s + 1
            /\ window'.upper = s + WindowSize
            /\ \A t \in window.lower .. s : window'.buffer[IndexOf(t)] = NullSlot
         \/ s < window.lower /\ window'.lower = window.lower /\ window'.upper = window.upper
  BY <1>1, <1>2, <1>3, <1>4, RRFrees
<1>6. /\ spc \in {"DRAIN", "WAIT"} /\ spc' \in {"DRAIN", "WAIT", "FILL"}
      /\ data_sequence_number' = data_sequence_number
  BY DEF HandleRR, Listening, Reenter
<1>7. SndTypeOK'
  BY <1>5, <1>6 DEF SndTypeOK, SndStates
<1>8. \A t \in 0 .. window'.lower - 1 : window'.buffer[IndexOf(t)].mem = "null"
  <2> TAKE t \in 0 .. window'.lower - 1
  <2>1. NullSlot.mem = "null" /\ IndexOf(t) \in Slots
    BY SlotIndex DEF NullSlot
  <2>2. CASE t < window.lower
    <3>1. window.buffer[IndexOf(t)].mem = "null"
      BY <1>3, <2>2 DEF RingInv, SlotOf
    <3> QED
      BY <1>5, <2>1, <3>1
  <2>3. CASE t >= window.lower
    BY <1>1, <1>3, <1>5, <2>1, <2>3
  <2> QED
    BY <1>3, <2>2, <2>3
<1>9. \A i \in Slots : window'.buffer[i].mem # "null" => window'.buffer[i] = window.buffer[i]
  BY <1>5 DEF NullSlot
<1>10. /\ window'.lower = 0 => window'.upper = WindowSize
       /\ window'.lower > 0 => window'.upper = window'.lower + WindowSize - 1
  <2>1. WindowSize \in Nat
    BY WindowAssumption
  <2>2. /\ window.lower = 0 => window.upper = WindowSize
        /\ window.lower > 0 => window.upper = window.lower + WindowSize - 1
    BY Zenon DEF RingInv
  <2> QED
    BY <1>1, <1>3, <1>5, <2>1, <2>2
<1>11. ASSUME NEW i \in Slots
       PROVE  /\ window'.buffer[i].mem = "raw" =>
                   \A t \in first .. data_sequence_number - 1 : IndexOf(t) # i
              /\ window'.buffer[i].mem # "null" => window'.buffer[i].ACK = 0
              /\ window'.buffer[i].mem = "full" =>
                   /\ IndexOf(window'.buffer[i].sequence_number) = i
                   /\ window'.buffer[i].sequence_number \in first .. data_sequence_number
                   /\ window'.buffer[i].sequence_number # data_sequence_number
  <2>1. spc # "DONE"
    BY <1>6
  <2> QED
    BY <1>9, <2>1, Zenon DEF RingInv
<1>12. /\ first <= data_sequence_number
       /\ Listening => data_sequence_number > WindowSize
       /\ \/ data_sequence_number = first /\ window.current = 0
          \/ window.current = data_sequence_number - 1
  BY <1>6, Zenon DEF RingInv
<1>13. Listening /\ window'.current = window.current
  BY <1>5, <1>6 DEF Listening
<1> QED
  BY <1>6, <1>7, <1>8, <1>10, <1>11, <1>12, <1>13, Zenon DEF RingInv, SlotOf

\* The effect of a fill on the ring.
LEMMA FillStep ==
  ASSUME SndTypeOK, RingInv, FillSend, UNCHANGED first
  PROVE  SndTypeOK' /\ RingInv'
<1> DEFINE s == data_sequence_number
<1>1. s \in Nat /\ window.lower \in Nat /\ IndexOf(s) \in Slots
  BY SlotIndex DEF SndTypeOK, SenderWindow
<1>2. /\ window' = Fill(s) /\ SlotOf(s).mem # "null" /\ spc = "FILL"
      /\ \/ data_sequence_number' = s + 1 /\ spc' = "FILL"
         \/ data_sequence_number' = s /\ spc' = "DONE"
  BY DEF FillSend
<1> DEFINE slot == [mem |-> "full", sequence_number |-> s,
                    data_size |-> ChunkLen(ChunkOf(s)) + HeaderLen, ACK |-> 0]
<1>3. /\ window' \in SenderWindow
      /\ window'.lower = window.lower /\ window'.upper = window.upper
      /\ window'.current = s
      /\ window'.buffer[IndexOf(s)] = slot
      /\ \A i \in Slots \ {IndexOf(s)} : window'.buffer[i] = window.buffer[i]
  BY <1>1, <1>2, FillSets
<1>4. slot.mem = "full" /\ slot.ACK = 0 /\ slot.sequence_number = s
  OBVIOUS
<1> HIDE DEF slot
<1>5. SndTypeOK'
  BY <1>1, <1>2, <1>3 DEF SndTypeOK, SndStates
<1>6. ASSUME NEW i \in Slots, window'.buffer[i].mem = "raw",
             NEW t \in first .. data_sequence_number' - 1
      PROVE  IndexOf(t) # i
  <2>1. i # IndexOf(s) /\ window.buffer[i].mem = "raw"
    BY <1>3, <1>4, <1>6
  <2>2. t \in first .. s - 1 \/ t = s
    BY <1>1, <1>2
  <2> QED
    BY <2>1, <2>2, Zenon DEF RingInv
<1>7. \A i \in Slots : window'.buffer[i].mem # "null" => window'.buffer[i].ACK = 0
  BY <1>3, <1>4 DEF RingInv
<1>8. ASSUME NEW i \in Slots, window'.buffer[i].mem = "full"
      PROVE  /\ IndexOf(window'.buffer[i].sequence_number) = i
             /\ window'.buffer[i].sequence_number \in first .. data_sequence_number'
             /\ spc' # "DONE" => window'.buffer[i].sequence_number # data_sequence_number'
  <2>1. first <= s /\ first \in Nat
    BY <1>1, Zenon DEF RingInv, SndTypeOK
  <2>2. CASE i = IndexOf(s)
    <3>1. window'.buffer[i].sequence_number = s
      BY <1>3, <1>4, <2>2
    <3> QED
      BY <1>1, <1>2, <2>1, <2>2, <3>1
  <2>3. CASE i # IndexOf(s)
    <3>1. window'.buffer[i] = window.buffer[i]
      BY <1>3, <2>3
    <3>2. /\ IndexOf(window.buffer[i].sequence_number) = i
          /\ window.buffer[i].sequence_number \in first .. s
      BY <1>8, <3>1, Zenon DEF RingInv
    <3> QED
      BY <1>1, <1>2, <2>1, <3>1, <3>2
  <2> QED
    BY <2>2, <2>3
<1>9. \A t \in 0 .. window'.lower - 1 : window'.buffer[IndexOf(t)].mem = "null"
  <2> TAKE t \in 0 .. window'.lower - 1
  <2>1. window.buffer[IndexOf(t)].mem = "null"
    BY <1>3 DEF RingInv, SlotOf
  <2>2. IndexOf(t) # IndexOf(s)
    BY <1>2, <2>1 DEF SlotOf
  <2>3. IndexOf(t) \in Slots
    BY <1>1, <1>3, SlotIndex
  <2> QED
    BY <1>3, <2>1, <2>2, <2>3
<1>10. /\ window'.lower = 0 => window'.upper = WindowSize
       /\ window'.lower > 0 => window'.upper = window'.lower + WindowSize - 1
  BY <1>3, Zenon DEF RingInv
<1>11. /\ first <= data_sequence_number'
       /\ spc' # "DONE" => window'.current = data_sequence_number' - 1
       /\ ~ Listening'
  <2>1. first <= s /\ first \in Nat
    BY Zenon DEF RingInv, SndTypeOK
  <2> QED
    BY <1>1, <1>2, <1>3, <2>1 DEF Listening
<1> QED
  BY <1>5, <1>6, <1>7, <1>8, <1>9, <1>10, <1>11, Zenon DEF RingInv, SlotOf

\* A step that leaves window and counter alone keeps the ring, if it does not
\* start to listen with the ring half full.
LEMMA ControlStep ==
  ASSUME SndTypeOK, RingInv, spc' \in SndStates, spc # "DONE",
         UNCHANGED <<window, data_sequence_number, first>>,
         Listening' => Listening \/ ~ canSendMorePackets(window)
  PROVE  SndTypeOK' /\ RingInv'
<1>1. /\ window.current \in Nat /\ window.upper \in Nat /\ data_sequence_number \in Nat
      /\ WindowSize \in Nat /\ WindowSize >= 1 /\ window.lower \in Nat
  BY WindowAssumption DEF SndTypeOK, SenderWindow
<1>2. Listening' => data_sequence_number > WindowSize
  <2>1. /\ window.lower = 0 => window.upper = WindowSize
        /\ window.lower > 0 => window.upper = window.lower + WindowSize - 1
        /\ window.current = 0 \/ window.current = data_sequence_number - 1
        /\ Listening => data_sequence_number > WindowSize
    BY Zenon DEF RingInv
  <2> QED
    BY <1>1, <2>1 DEF canSendMorePackets
<1> QED
  BY <1>2 DEF SndTypeOK, RingInv, SlotOf

\* Every step of the child keeps types and ring.
LEMMA RingStep == SndTypeOK /\ CtlIn /\ RingInv /\ SndNext => SndTypeOK' /\ RingInv'
<1> SUFFICES ASSUME SndTypeOK, CtlIn, RingInv, SndNext PROVE SndTypeOK' /\ RingInv'
  OBVIOUS
<1>0. UNCHANGED first
  BY DEF SndNext
<1>1. CASE OpenFile \/ FillCrash \/ FillEOF \/ FillClosed \/ Drained \/ ExitOnEof
  <2>1. /\ spc' \in SndStates /\ spc # "DONE"
        /\ UNCHANGED <<window, data_sequence_number, first>>
        /\ Listening' => Listening \/ ~ canSendMorePackets(window)
    BY <1>0, <1>1 DEF OpenFile, FillCrash, FillEOF, FillClosed, Drained, ExitOnEof,
                SndStates, Listening, Reenter
  <2> QED
    BY <2>1, ControlStep
<1>2. CASE FillSend
  BY <1>0, <1>2, FillStep
<1>3. ASSUME NEW c \in BagToSet(ctl), HandleRR(c) PROVE SndTypeOK' /\ RingInv'
  BY <1>0, <1>3, RRStep
<1>4. ASSUME NEW c \in BagToSet(ctl), HandleSREJ(c) \/ HandleOther(c)
      PROVE  SndTypeOK' /\ RingInv'
  <2>1. /\ spc' \in SndStates /\ spc # "DONE" /\ Listening
        /\ UNCHANGED <<window, data_sequence_number, first>>
    BY <1>0, <1>4 DEF HandleSREJ, HandleOther, Listening, SndStates
  <2> QED
    BY <2>1, ControlStep
<1>5. CASE TimeoutResend \/ TimeoutNothing
  <2>1. /\ spc' \in SndStates /\ spc # "DONE" /\ Listening
        /\ UNCHANGED <<window, data_sequence_number, first>>
    BY <1>0, <1>5 DEF TimeoutResend, TimeoutNothing, Listening, SndStates
  <2> QED
    BY <2>1, ControlStep
<1> QED
  BY <1>1, <1>2, <1>3, <1>4, <1>5 DEF SndNext

\* At first nothing is freed, nothing filled.
LEMMA HoldStart == SndInit => HoldInv
<1> SUFFICES ASSUME SndInit, first = 0 PROVE HoldInv
  BY DEF HoldInv
<1>1. /\ window.buffer = [i \in Slots |-> RawSlot] /\ RawSlot.mem = "raw"
      /\ window.lower = 0 /\ data_sequence_number = 0
  BY DEF SndInit, initSenderWindow, RawSlot
<1>2. WindowSize \in Nat
  BY WindowAssumption
<1> QED
  BY <1>1, <1>2 DEF HoldInv

\* An RR frees slots below the new lower edge, and finds the window sent.
LEMMA RRHolds ==
  ASSUME SndTypeOK, CtlIn, RingInv, HoldInv, NEW c \in BagToSet(ctl), HandleRR(c),
         first = 0, UNCHANGED first
  PROVE  HoldInv'
<1> DEFINE s == getSequenceFromBuffer(c)
<1>1. s \in Nat
  BY CtlSeq
<1> HIDE DEF s
<1>2. window' = advanceSenderWindow(acknowledgePacket(window, s), s + 1)
  BY DEF HandleRR, s
<1>3. /\ window.lower \in Nat /\ window.upper \in Nat /\ window \in SenderWindow
      /\ data_sequence_number \in Nat /\ WindowSize \in Nat
  BY WindowAssumption DEF SndTypeOK, SenderWindow
<1>4. s < window.lower => window.buffer[IndexOf(s)].mem = "null"
  BY <1>1, <1>3 DEF RingInv, SlotOf
<1>5. /\ \A i \in Slots : window'.buffer[i] = NullSlot \/ window'.buffer[i] = window.buffer[i]
      /\ \/ s >= window.lower /\ window'.lower = s + 1 /\ window'.upper = s + WindowSize
         \/ s < window.lower /\ window'.lower = window.lower /\ window'.upper = window.upper
      /\ \A i \in Slots : window'.buffer[i].mem = "null" =>
           \/ window.buffer[i].mem = "null"
           \/ \E t \in window.lower .. s : IndexOf(t) = i
  BY <1>1, <1>2, <1>3, <1>4, RRFrees
<1>6. Listening /\ spc # "DONE" /\ data_sequence_number' = data_sequence_number
  BY DEF HandleRR, Listening
<1>7. data_sequence_number > WindowSize
  BY <1>6, Zenon DEF RingInv
<1>8. ASSUME NEW i \in Slots, window'.buffer[i].mem = "null"
      PROVE  i < window'.lower
  <2>1. i \in Int
    BY DEF Slots
  <2>2. CASE window.buffer[i].mem = "null"
    <3>1. i < window.lower
      BY <1>6, <2>2, Zenon DEF HoldInv
    <3> QED
      BY <1>1, <1>3, <1>5, <2>1, <3>1
  <2>3. ASSUME NEW t \in window.lower .. s, IndexOf(t) = i
        PROVE  i < window'.lower
    <3>1. t \in Nat /\ t <= s /\ s >= window.lower
      BY <1>1, <1>3
    <3>2. i <= t
      BY <2>3, <3>1, SlotBelow
    <3> QED
      BY <1>1, <1>3, <1>5, <2>1, <3>1, <3>2
  <2> QED
    BY <1>5, <1>8, <2>2, <2>3
<1>9. ASSUME NEW i \in Slots, window'.buffer[i].mem = "full"
       PROVE  window'.buffer[i].sequence_number =
                IF i = 0 /\ data_sequence_number > WindowSize THEN WindowSize ELSE i
  <2>1. window'.buffer[i] = window.buffer[i]
    BY <1>5, <1>9 DEF NullSlot
  <2> QED
    BY <1>6, <1>9, <2>1, Zenon DEF HoldInv
<1>10. data_sequence_number <= WindowSize + 1
  BY Zenon DEF HoldInv
<1> QED
  BY <1>6, <1>7, <1>8, <1>9, <1>10, Zenon DEF HoldInv

\* Step 1 fills a slot only in the first pass: once lower has moved, the slot of
\* the next packet is null whenever the window is open.
LEMMA FillsFirst ==
  ASSUME SndTypeOK, RingInv, HoldInv, FillSend, first = 0
  PROVE  window.lower = 0 /\ data_sequence_number <= WindowSize
<1>1. /\ window.lower \in Nat /\ window.upper \in Nat /\ window.current \in Nat
      /\ data_sequence_number \in Nat /\ WindowSize \in Nat /\ WindowSize >= 1
  BY WindowAssumption DEF SndTypeOK, SenderWindow
<1>2. /\ spc = "FILL" /\ window.current < window.upper
      /\ SlotOf(data_sequence_number).mem # "null"
  BY DEF FillSend, canSendMorePackets
<1>3. data_sequence_number = 0 \/ window.current = data_sequence_number - 1
  BY <1>2, Zenon DEF RingInv
<1>4. /\ data_sequence_number <= WindowSize + 1
      /\ window.lower = 0 => window.upper = WindowSize
      /\ window.lower > 0 => /\ data_sequence_number > WindowSize
                             /\ window.upper = window.lower + WindowSize - 1
  BY Zenon DEF HoldInv, RingInv
<1>5. CASE window.lower > 0
  <2>1. data_sequence_number = WindowSize + 1 /\ window.lower >= 2
    BY <1>1, <1>2, <1>3, <1>4, <1>5
  <2>2. 1 \in 0 .. window.lower - 1
    BY <1>1, <2>1
  <2>3. SlotOf(1).mem = "null"
    BY <2>2, Zenon DEF RingInv
  <2>4. SlotOf(data_sequence_number) = SlotOf(1)
    BY <2>1, FirstWraps DEF SlotOf
  <2> QED
    BY <1>2, <2>3, <2>4
<1>6. CASE window.lower = 0
  BY <1>1, <1>2, <1>3, <1>4, <1>6
<1> QED
  BY <1>1, <1>5, <1>6

\* What a fill puts into the ring.
LEMMA FillHolds ==
  ASSUME SndTypeOK, RingInv, HoldInv, FillSend, first = 0, UNCHANGED first
  PROVE  HoldInv'
<1> DEFINE s == data_sequence_number
<1>1. window.lower = 0 /\ s <= WindowSize
  BY FillsFirst
<1>2. s \in Nat /\ WindowSize \in Nat /\ WindowSize >= 1 /\ IndexOf(s) \in Slots
  BY WindowAssumption, SlotIndex DEF SndTypeOK
<1>3. /\ window' = Fill(s) /\ spc = "FILL"
      /\ \/ data_sequence_number' = s + 1 /\ spc' = "FILL"
         \/ data_sequence_number' = s /\ spc' = "DONE"
  BY DEF FillSend
<1>4. /\ window'.lower = 0
      /\ window'.buffer[IndexOf(s)].mem = "full"
      /\ window'.buffer[IndexOf(s)].sequence_number = s
      /\ \A i \in Slots \ {IndexOf(s)} : window'.buffer[i] = window.buffer[i]
  <2>1. /\ Fill(s).lower = window.lower /\ Fill(s).upper = window.upper
        /\ Fill(s).buffer[IndexOf(s)] =
             [mem |-> "full", sequence_number |-> s,
              data_size |-> ChunkLen(ChunkOf(s)) + HeaderLen, ACK |-> 0]
        /\ \A i \in Slots \ {IndexOf(s)} : Fill(s).buffer[i] = window.buffer[i]
    BY <1>2, FillSets
  <2>2. Fill(s).buffer[IndexOf(s)].mem = "full" /\ Fill(s).buffer[IndexOf(s)].sequence_number = s
    BY <2>1
  <2> QED
    BY <1>1, <1>3, <2>1, <2>2
<1>5. ASSUME NEW i \in Slots PROVE window'.buffer[i].mem # "null"
  <2>1. window.buffer[i].mem = "null" => i < window.lower
    BY <1>3 DEF HoldInv
  <2> QED
    BY <1>1, <1>4, <2>1 DEF Slots
<1>6. ASSUME NEW i \in Slots, window'.buffer[i].mem = "full", data_sequence_number' = s + 1
      PROVE  window'.buffer[i].sequence_number =
               IF i = 0 /\ data_sequence_number' > WindowSize THEN WindowSize ELSE i
  <2>1. CASE i = IndexOf(s)
    <3>1. CASE s = WindowSize
      <4>1. i = 0
        BY <2>1, <3>1, FirstWraps
      <4>2. window'.buffer[i].sequence_number = WindowSize
        BY <1>4, <2>1, <3>1
      <4>3. data_sequence_number' > WindowSize
        BY <1>2, <1>6, <3>1
      <4> QED
        BY <4>1, <4>2, <4>3
    <3>2. CASE s < WindowSize
      <4>1. s \in Slots
        BY <1>2, <3>2 DEF Slots
      <4>2. i = s /\ window'.buffer[i].sequence_number = s
        BY <1>4, <2>1, <4>1, SlotIndex
      <4>3. ~ (data_sequence_number' > WindowSize)
        BY <1>2, <1>6, <3>2
      <4> QED
        BY <4>2, <4>3
    <3> QED
      BY <1>1, <1>2, <3>1, <3>2
  <2>2. CASE i # IndexOf(s)
    <3>1. window'.buffer[i] = window.buffer[i] /\ window.buffer[i].mem = "full"
      BY <1>4, <1>6, <2>2
    <3>2. window.buffer[i].sequence_number = IF i = 0 /\ s > WindowSize THEN WindowSize ELSE i
      BY <1>3, <3>1 DEF HoldInv
    <3>3. window.buffer[i].sequence_number = i
      BY <1>1, <1>2, <3>2
    <3>4. ~ (i = 0 /\ data_sequence_number' > WindowSize)
      <4>1. CASE s = WindowSize
        BY <2>2, <4>1, FirstWraps
      <4>2. CASE s < WindowSize
        BY <1>2, <1>6, <4>2
      <4> QED
        BY <1>1, <1>2, <4>1, <4>2
    <3> QED
      BY <3>1, <3>3, <3>4
  <2> QED
    BY <2>1, <2>2
<1>7. data_sequence_number' <= WindowSize + 1
  BY <1>1, <1>2, <1>3
<1>8. ~ (window'.lower > 0)
  BY <1>4
<1> QED
  BY <1>3, <1>5, <1>6, <1>7, <1>8 DEF HoldInv

\* Every step of the child keeps what the ring holds.
LEMMA HoldStep ==
  ASSUME SndTypeOK, CtlIn, RingInv, HoldInv, SndNext
  PROVE  HoldInv'
<1>0. UNCHANGED first
  BY DEF SndNext
<1> SUFFICES ASSUME first = 0 PROVE HoldInv'
  BY <1>0 DEF HoldInv
<1>1. ASSUME UNCHANGED <<window, data_sequence_number>>, spc # "DONE" PROVE HoldInv'
  BY <1>0, <1>1 DEF HoldInv
<1>2. CASE FillSend
  BY <1>0, <1>2, FillHolds
<1>3. ASSUME NEW c \in BagToSet(ctl), HandleRR(c) PROVE HoldInv'
  BY <1>0, <1>3, RRHolds
<1>4. CASE \/ OpenFile \/ FillCrash \/ FillEOF \/ FillClosed \/ Drained
           \/ TimeoutResend \/ TimeoutNothing \/ ExitOnEof
           \/ \E c \in BagToSet(ctl) : HandleSREJ(c) \/ HandleOther(c)
  BY <1>1, <1>4 DEF OpenFile, FillCrash, FillEOF, FillClosed, Drained, TimeoutResend,
                    TimeoutNothing, ExitOnEof, HandleSREJ, HandleOther, Listening
<1> QED
  BY <1>2, <1>3, <1>4 DEF SndNext

\* A packet the ring holds while the child listens was numbered, and sent.
LEMMA ListeningHeld ==
  ASSUME SndTypeOK, RingInv, Listening, NEW i \in Slots,
         window.buffer[i].mem = "full"
  PROVE  /\ makeDataPacket(window.buffer[i].sequence_number, window.buffer[i].data_size)
              \in DataPacket
         /\ makeDataPacket(window.buffer[i].sequence_number, window.buffer[i].data_size).seq
              \in first .. data_sequence_number - 1
<1>1. window.buffer[i].sequence_number \in Int /\ window.buffer[i].data_size \in Int
  BY SlotFields DEF SndTypeOK
<1>2. /\ window.buffer[i].sequence_number \in first .. data_sequence_number
      /\ window.buffer[i].sequence_number # data_sequence_number
  <2>1. spc # "DONE"
    BY DEF Listening
  <2> QED
    BY <2>1, Zenon DEF RingInv
<1>3. window.buffer[i].sequence_number \in first .. data_sequence_number - 1
  BY <1>1, <1>2 DEF SndTypeOK
<1> QED
  BY <1>1, <1>3 DEF makeDataPacket, DataPacket, DATA

\* Numbers from 0 or 1 on have been through the whole ring when the child
\* listens: no slot is raw.
LEMMA ListeningFull ==
  ASSUME SndTypeOK, RingInv, Listening, first <= 1, NEW i \in Slots
  PROVE  window.buffer[i].mem # "raw"
<1>1. data_sequence_number > WindowSize
  BY Zenon DEF RingInv
<1>2. /\ data_sequence_number \in Nat /\ WindowSize \in Nat /\ WindowSize >= 1
      /\ first \in Nat
  BY WindowAssumption DEF SndTypeOK
<1>3. PICK t \in first .. data_sequence_number - 1 : IndexOf(t) = i
  <2>1. CASE i = 0
    <3>1. WindowSize \in first .. data_sequence_number - 1
      BY <1>1, <1>2
    <3> QED
      BY <2>1, <3>1, FirstWraps
  <2>2. CASE i # 0
    <3>1. i \in first .. data_sequence_number - 1
      BY <1>1, <1>2, <2>2 DEF Slots
    <3> QED
      BY <3>1, SlotIndex
  <2> QED
    BY <2>1, <2>2
<1> QED
  BY <1>3, Zenon DEF RingInv

\* Every data PDU a step adds is one, and carries a chunk that was read, and its
\* number, unless the ring was entered beyond its first two slots.
LEMMA SndSends ==
  ASSUME SndTypeOK, CtlIn, RingInv, SndNext, NEW p \in BagToSet(data')
  PROVE  \/ p \in BagToSet(data)
         \/ /\ p \in DataPacket
            /\ first <= 1 => p.seq \in first .. data_sequence_number' - 1
<1> DEFINE Good == \/ p \in BagToSet(data)
                   \/ /\ p \in DataPacket
                      /\ first <= 1 => p.seq \in first .. data_sequence_number' - 1
<1>1. CASE \/ OpenFile \/ FillCrash \/ FillEOF \/ FillClosed \/ Drained \/ ExitOnEof
           \/ TimeoutNothing \/ \E c \in BagToSet(ctl) : HandleRR(c) \/ HandleOther(c)
  BY <1>1 DEF OpenFile, FillCrash, FillEOF, FillClosed, Drained, ExitOnEof,
              TimeoutNothing, HandleRR, HandleOther, netVars
<1>2. CASE FillSend
  <2> DEFINE s == data_sequence_number
             m == makeDataPacket(s, ChunkLen(ChunkOf(s)))
  <2>1. s \in Nat /\ first \in Nat /\ first <= s /\ ChunkOf(s) \in Int
    BY DEF SndTypeOK, RingInv, ChunkOf
  <2>2. m \in DataPacket /\ m.seq = s
    BY <2>1, LenType DEF makeDataPacket, DataPacket, DATA
  <2> HIDE DEF m
  <2>3. data' = data \/ (data' \in sendtoErr(data, m) /\ data_sequence_number' = s + 1)
    BY <1>2 DEF FillSend, m
  <2>4. data' \in sendtoErr(data, m) => BagToSet(data') \subseteq BagToSet(data) \cup {m}
    BY SendAdds
  <2> QED
    BY <2>1, <2>2, <2>3, <2>4
<1>3. ASSUME NEW i \in Slots, Listening, Resend(window.buffer[i]),
             UNCHANGED data_sequence_number
      PROVE  Good
  <2>1. CASE window.buffer[i].mem = "full"
    BY <1>3, <2>1, ListeningHeld, ResendSends
  <2>2. CASE window.buffer[i].mem # "full" /\ p \in RawPacket
    <3>1. MemNumbers \subseteq Int /\ MemFlags \subseteq Nat
      BY MemAssumption
    <3>2. RawPacket \subseteq DataPacket
      BY <3>1, Zenon DEF RawPacket, DataPacket
    <3> QED
      BY <1>3, <2>2, <3>2, ListeningFull, ResendSends
  <2> QED
    BY <1>3, <2>1, <2>2, ResendSends
<1>4. ASSUME NEW c \in BagToSet(ctl), HandleSREJ(c) PROVE Good
  <2> DEFINE i == IndexOf(getSequenceFromBuffer(c))
  <2>1. i \in Slots
    BY CtlSeq, SlotIndex
  <2>2. \/ UNCHANGED data
        \/ /\ Listening
           /\ Resend(window.buffer[i]) /\ UNCHANGED data_sequence_number
    BY <1>4 DEF HandleSREJ, SlotOf
  <2> QED
    BY <1>3, <2>1, <2>2
<1>5. CASE TimeoutResend
  <2>1. PICK s \in window.lower .. window.upper : Resend(SlotOf(s)) \/ UNCHANGED data
    BY <1>5 DEF TimeoutResend
  <2>2. s \in Int
    BY DEF SndTypeOK, SenderWindow
  <2>3. IndexOf(s) \in Slots
    BY <2>2, SlotIndex
  <2>4. Listening /\ UNCHANGED data_sequence_number
    BY <1>5 DEF TimeoutResend, Listening
  <2>5. Resend(window.buffer[IndexOf(s)]) \/ UNCHANGED data
    BY <2>1 DEF SlotOf
  <2> QED
    BY <1>3, <2>3, <2>4, <2>5
<1> QED
  BY <1>1, <1>2, <1>4, <1>5 DEF SndNext

\* The child only takes PDUs out of the control direction.
LEMMA SndTakes == SndNext => BagToSet(ctl') \subseteq BagToSet(ctl)
<1> SUFFICES ASSUME SndNext PROVE BagToSet(ctl') \subseteq BagToSet(ctl)
  OBVIOUS
<1>1. CASE \/ OpenFile \/ FillSend \/ FillCrash \/ FillEOF \/ FillClosed \/ Drained
           \/ ExitOnEof \/ TimeoutNothing \/ TimeoutResend
  BY <1>1 DEF OpenFile, FillSend, FillCrash, FillEOF, FillClosed, Drained, ExitOnEof,
              TimeoutNothing, TimeoutResend, netVars
<1>2. ASSUME NEW c \in BagToSet(ctl), HandleRR(c) \/ HandleSREJ(c) \/ HandleOther(c)
      PROVE  BagToSet(ctl') \subseteq BagToSet(ctl)
  BY <1>2, ReceiveTakes DEF HandleRR, HandleSREJ, HandleOther
<1> QED
  BY <1>1, <1>2 DEF SndNext

-----------------------------------------------------------------------------
(* The child, rcopy and the PDUs between them.                             *)

\* What is under way has the type of its direction.
NetTypeOK == BagToSet(data) \subseteq DataPacket /\ CtlIn

\* rcopy is behind the child: ExpectedWithinSent, and strictly so when the
\* next packet will make flushBuffer step over the one that is expected.
ReachInv ==
  /\ ExpectedWithinSent
  /\ first <= 1 /\ subState = "FLUSHING" => rbuf.expected < data_sequence_number

\* Every RR carries a number rr_seq_num has reached and was sent by a rcopy that
\* has accepted a packet, so the lower edge of the child's window moves with
\* rr_seq_num, and its first move waits for that packet.  An RR in memory that
\* nobody wrote would be the one exception.
PaceInv ==
  junk.flag # RR =>
    /\ \A c \in BagToSet(ctl) : c.flag = RR => c.seq <= rr_seq_num /\ rbuf.expected >= 1
    /\ window.lower <= rr_seq_num + 1
    /\ window.lower >= 1 => rbuf.expected >= 1

IInv == /\ SndTypeOK /\ RcvTypeOK /\ NetTypeOK
        /\ RingInv /\ HoldInv /\ PacketsGenuine
        /\ OutputOrdered /\ SrejInv /\ RrInv
        /\ ReachInv /\ PaceInv

-----------------------------------------------------------------------------
\* The inductive invariant holds at first.
LEMMA IInvInit == Init => IInv
<1> SUFFICES ASSUME Init PROVE IInv
  OBVIOUS
<1>1. SndTypeOK /\ RingInv /\ HoldInv
  BY SndStart, HoldStart DEF Init
<1>2. RcvTypeOK
  BY RcvTypeInit DEF Init
<1>3. BagToSet(data) = {} /\ BagToSet(ctl) = {}
  BY NothingSent DEF Init, NetInit
<1>4. NetTypeOK /\ PacketsGenuine
  BY <1>3 DEF NetTypeOK, CtlIn, PacketsGenuine
<1>5. /\ rpc = "OPEN" /\ output = <<>> /\ srejs = 0 /\ subState = "IN_ORDER"
      /\ rr_seq_num = 0 /\ rbuf = initReceiverBuffer(junk)
  BY DEF Init, RcvInit
<1>6. /\ rbuf.expected = 0 /\ rbuf.hasLastControl = "uninitialised"
      /\ \A i \in Slots : rbuf.buffer[i] = EmptySlot
  BY <1>5 DEF initReceiverBuffer
<1>7. OutputOrdered
  BY <1>5 DEF OutputOrdered
<1>8. SrejInv
  BY <1>5, RetryAssumption DEF SrejInv
<1>9. RrInv
  BY <1>5, <1>6 DEF RrInv
<1>10. data_sequence_number = first /\ window.lower = 0
  BY DEF Init, SndInit, initSenderWindow
<1>11. ReachInv
  <2>1. first \in Nat
    BY <1>1 DEF SndTypeOK
  <2>2. 0 <= first /\ -1 < first
    BY <2>1
  <2> QED
    BY <1>5, <1>6, <1>10, <2>2 DEF ReachInv, ExpectedWithinSent, EmptySlot
<1>12. PaceInv
  BY <1>3, <1>5, <1>10 DEF PaceInv
<1> QED
  BY <1>1, <1>2, <1>4, <1>7, <1>8, <1>9, <1>11, <1>12 DEF IInv

-----------------------------------------------------------------------------
(* Steps of rcopy.                                                         *)

\* Both halves of IInv that the receiver's lemmas ask for.
LEMMA DataNumbers == NetTypeOK => DataIn
  BY DEF NetTypeOK, DataPacket, DataIn

\* A flush ends at a packet that was stored, or at the one it steps over.
LEMMA FlushReach ==
  ASSUME RcvTypeOK, ReachInv, data_sequence_number \in Nat,
         NEW p, RecvFlushing(p),
         UNCHANGED <<data_sequence_number, first>>
  PROVE  ReachInv'
<1> SUFFICES ASSUME first <= 1 PROVE ReachInv'
  BY DEF ReachInv, ExpectedWithinSent
<1>1. PICK n \in 0 .. WindowSize : flushes(rbuf, n) /\ rbuf' = flushBuffer(rbuf, n)
  BY DEF RecvFlushing
<1>2. n \in Nat /\ rbuf \in ReceiverBuffer /\ rbuf.expected \in Nat
  BY WindowAssumption DEF RcvTypeOK, ReceiverBuffer
<1>3. /\ flushBuffer(rbuf, n).expected = rbuf.expected + n + 1
      /\ \A i \in Slots : \/ flushBuffer(rbuf, n).buffer[i] = rbuf.buffer[i]
                          \/ flushBuffer(rbuf, n).buffer[i] = EmptySlot
  BY <1>2, FlushType
<1>4. rbuf.expected < data_sequence_number
  BY DEF RecvFlushing, ReachInv
<1>5. rbuf.expected + n < data_sequence_number
  <2>1. CASE n = 0
    BY <1>2, <1>4, <2>1
  <2>2. CASE n # 0
    <3>1. n \in 1 .. n
      BY <1>2, <2>2
    <3>2. holds(rbuf, rbuf.expected + n)
      BY <1>1, <3>1 DEF flushes
    <3>3. IndexOf(rbuf.expected + n) \in Slots
      BY <1>2, IndexInSlots
    <3>4. rbuf.buffer[IndexOf(rbuf.expected + n)].sequence_number < data_sequence_number
      BY <3>3 DEF ReachInv, ExpectedWithinSent
    <3> QED
      BY <3>2, <3>4 DEF holds
  <2> QED
    BY <2>1, <2>2
<1>6. rbuf'.expected <= data_sequence_number'
  BY <1>1, <1>2, <1>3, <1>5
<1>7. ASSUME NEW i \in Slots PROVE rbuf'.buffer[i].sequence_number < data_sequence_number'
  <2>1. rbuf.buffer[i].sequence_number < data_sequence_number
    BY DEF ReachInv, ExpectedWithinSent
  <2>2. EmptySlot.sequence_number < data_sequence_number
    BY DEF EmptySlot
  <2>3. rbuf'.buffer[i] = rbuf.buffer[i] \/ rbuf'.buffer[i] = EmptySlot
    BY <1>1, <1>3
  <2> QED
    BY <2>1, <2>2, <2>3
<1>8. subState' # "FLUSHING"
  BY DEF RecvFlushing
<1> QED
  BY <1>6, <1>7, <1>8 DEF ReachInv, ExpectedWithinSent

\* No step of rcopy takes it past the child.
LEMMA RcvReach ==
  ASSUME RcvTypeOK, DataIn, PacketsGenuine, ReachInv, data_sequence_number \in Nat,
         RcvNext, UNCHANGED <<data_sequence_number, first>>
  PROVE  ReachInv'
<1> SUFFICES ASSUME first <= 1 PROVE ReachInv'
  BY DEF ReachInv, ExpectedWithinSent
<1>1. rbuf \in ReceiverBuffer /\ rbuf.expected \in Nat
  BY DEF RcvTypeOK, ReceiverBuffer
<1>2. \A p \in BagToSet(data) : p.seq \in Int /\ p.seq < data_sequence_number
  BY DEF PacketsGenuine, DataIn
<1>3. ASSUME UNCHANGED rbuf, subState' = "FLUSHING" => rbuf.expected < data_sequence_number
      PROVE  ReachInv'
  BY <1>3 DEF ReachInv, ExpectedWithinSent
<1>4. subState = "FLUSHING" => rbuf.expected < data_sequence_number
  BY DEF ReachInv
<1>5. CASE OpenOutput \/ RecvTimeout \/ RrRetry \/ SrejRetry
  BY <1>3, <1>4, <1>5 DEF OpenOutput, RecvTimeout, RrRetry, SrejRetry
<1>6. ASSUME NEW p \in BagToSet(data),
             \/ RecvOld(p) \/ RrAnswered(p) \/ RecvGap(p) \/ RecvIgnored(p)
             \/ RecvOverrun(p)
      PROVE  ReachInv'
  BY <1>3, <1>4, <1>6 DEF RecvOld, RrAnswered, RecvGap, RecvIgnored, RecvOverrun
<1>7. ASSUME NEW p \in BagToSet(data), SrejAnswered(p) PROVE ReachInv'
  BY <1>2, <1>3, <1>7 DEF SrejAnswered, IsExpected
<1>8. ASSUME NEW p \in BagToSet(data), RecvInOrder(p) PROVE ReachInv'
  <2>1. rbuf'.expected = rbuf.expected + 1 /\ rbuf'.buffer = rbuf.buffer
    BY <1>1, <1>8 DEF RecvInOrder, Accept, ReceiverBuffer
  <2>2. subState' # "FLUSHING"
    BY <1>8 DEF RecvInOrder
  <2>3. rbuf.expected < data_sequence_number
    BY <1>2, <1>8 DEF RecvInOrder
  <2> QED
    BY <1>1, <2>1, <2>2, <2>3 DEF ReachInv, ExpectedWithinSent
<1>9. ASSUME NEW p \in BagToSet(data), RecvBuffering(p) PROVE ReachInv'
  <2>1. rbuf' = Store(rbuf, p) /\ subState' # "FLUSHING"
    BY <1>9 DEF RecvBuffering
  <2>2. /\ Store(rbuf, p).expected = rbuf.expected
        /\ \A i \in Slots : \/ Store(rbuf, p).buffer[i] = rbuf.buffer[i]
                            \/ Store(rbuf, p).buffer[i].sequence_number = p.seq
    BY <1>1, <1>2, StoreType DEF DataIn
  <2>3. /\ rbuf'.expected = rbuf.expected
        /\ \A i \in Slots : \/ rbuf'.buffer[i] = rbuf.buffer[i]
                            \/ rbuf'.buffer[i].sequence_number = p.seq
    BY <2>1, <2>2
  <2> QED
    BY <1>2, <2>1, <2>3 DEF ReachInv, ExpectedWithinSent
<1>10. ASSUME NEW p \in BagToSet(data), RecvFlushing(p) PROVE ReachInv'
  BY <1>10, FlushReach
<1> QED
  BY <1>5, <1>6, <1>7, <1>8, <1>9, <1>10 DEF RcvNext

\* The RRs rcopy adds carry a number its counter has reached.
LEMMA RcvPace ==
  ASSUME RcvTypeOK, RcvTypeOK', SndTypeOK, CtlIn, PaceInv, RrInv', Decides \/ Decided,
         rr_seq_num' >= rr_seq_num,
         \A c \in BagToSet(ctl') : c \in BagToSet(ctl) \/ Replies(c),
         UNCHANGED sndVars, UNCHANGED junk
  PROVE  PaceInv'
<1> SUFFICES ASSUME junk.flag # RR PROVE PaceInv'
  BY DEF PaceInv
<1>1. rbuf.expected \in Nat /\ rbuf'.expected \in Nat /\ rbuf'.expected >= rbuf.expected
  BY DEF RcvTypeOK, ReceiverBuffer, Decides, Decided
<1>2. rr_seq_num \in Nat /\ rr_seq_num' \in Nat
  BY DEF RcvTypeOK
<1>3. ASSUME NEW c \in BagToSet(ctl'), c.flag = RR
      PROVE  c.seq <= rr_seq_num' /\ rbuf'.expected >= 1
  <2>1. CASE c \in BagToSet(ctl)
    <3>1. c.seq \in Nat
      BY <2>1 DEF CtlIn, Control
    <3> QED
      BY <1>1, <1>2, <1>3, <2>1, <3>1 DEF PaceInv
  <2>2. CASE Replies(c)
    BY <1>3, <2>2 DEF Replies, RrInv
  <2> QED
    BY <2>1, <2>2
<1>4. UNCHANGED window
  BY DEF sndVars
<1>5. window.lower <= rr_seq_num + 1 /\ (window.lower >= 1 => rbuf.expected >= 1)
  BY DEF PaceInv
<1>6. window.lower \in Nat
  BY DEF SndTypeOK, SenderWindow
<1>7. window'.lower <= rr_seq_num' + 1
  <2>1. \A k \in Nat : k >= rr_seq_num => window.lower <= k + 1
    BY <1>2, <1>5, <1>6
  <2> QED
    BY <1>2, <1>4, <2>1
<1>8. window'.lower >= 1 => rbuf'.expected >= 1
  BY <1>1, <1>4, <1>5
<1> QED
  BY <1>3, <1>7, <1>8 DEF PaceInv

\* Every step of rcopy keeps the inductive invariant.
LEMMA RcvKeeps ==
  ASSUME IInv, RcvStep
  PROVE  IInv' /\ (Decides \/ Decided)
<1>1. /\ SndTypeOK /\ RcvTypeOK /\ NetTypeOK /\ RingInv /\ HoldInv
      /\ PacketsGenuine /\ OutputOrdered /\ SrejInv /\ RrInv /\ ReachInv /\ PaceInv
      /\ RcvNext /\ UNCHANGED sndVars
  BY DEF IInv, RcvStep
<1>2. DataIn
  BY <1>1, DataNumbers
<1>3. RcvTypeOK' /\ SrejInv' /\ (Decides \/ Decided)
  BY <1>1, <1>2, RcvTypeStep, SrejStep, RcvDecides
<1>4. OutputOrdered'
  BY <1>1, <1>3, OrderedStep
<1>5. /\ RrInv' /\ rr_seq_num' >= rr_seq_num
      /\ \A c \in BagToSet(ctl') : c \in BagToSet(ctl) \/ Replies(c)
  BY <1>1, <1>2, RrStep
<1>6. SndTypeOK' /\ RingInv' /\ HoldInv'
  BY <1>1 DEF sndVars, SndTypeOK, RingInv, HoldInv, Listening, SlotOf
<1>7. /\ BagToSet(data') \subseteq BagToSet(data)
      /\ UNCHANGED <<data_sequence_number, first, junk>>
  BY <1>1, RcvTakes DEF sndVars, RcvNext
<1>8. PacketsGenuine'
  BY <1>1, <1>7 DEF PacketsGenuine
<1>9. NetTypeOK'
  BY <1>1, <1>5, <1>7 DEF NetTypeOK, CtlIn, Replies
<1>10. ReachInv'
  BY <1>1, <1>2, <1>7, RcvReach DEF SndTypeOK
<1>11. PaceInv'
  BY <1>1, <1>3, <1>5, <1>7, RcvPace DEF NetTypeOK
<1> QED
  BY <1>3, <1>4, <1>5, <1>6, <1>8, <1>9, <1>10, <1>11 DEF IInv

-----------------------------------------------------------------------------
(* Steps of the child.                                                     *)

\* The counter of the child only grows, and by one.
LEMMA CounterGrows ==
  ASSUME SndNext
  PROVE  data_sequence_number' \in {data_sequence_number, data_sequence_number + 1}
  BY DEF SndNext, OpenFile, FillSend, FillCrash, FillEOF, FillClosed, HandleRR,
         HandleSREJ, HandleOther, Drained, TimeoutResend, TimeoutNothing, ExitOnEof,
         sndVars

\* No step of the child moves its window further than rcopy's counter.
LEMMA SndPace ==
  ASSUME SndTypeOK, SndTypeOK', RcvTypeOK, CtlIn, RingInv, PaceInv, SndNext,
         UNCHANGED rcvVars
  PROVE  PaceInv'
<1>0. UNCHANGED junk
  BY DEF rcvVars
<1> SUFFICES ASSUME junk.flag # RR PROVE PaceInv'
  BY <1>0 DEF PaceInv
<1>1. UNCHANGED <<rbuf, rr_seq_num>> /\ rr_seq_num \in Nat
  BY DEF rcvVars, counters, RcvTypeOK
<1>2. /\ \A c \in BagToSet(ctl) : c.flag = RR => c.seq <= rr_seq_num /\ rbuf.expected >= 1
      /\ window.lower <= rr_seq_num + 1
      /\ window.lower >= 1 => rbuf.expected >= 1
  BY DEF PaceInv
<1>3. \A c \in BagToSet(ctl') : c.flag = RR => c.seq <= rr_seq_num' /\ rbuf'.expected >= 1
  BY <1>1, <1>2, SndTakes
<1>4. /\ window \in SenderWindow /\ window.lower \in Nat /\ window.current \in Nat
      /\ data_sequence_number \in Nat /\ WindowSize \in Nat /\ window.upper \in Nat
  BY WindowAssumption DEF SndTypeOK, SenderWindow
<1>5. ASSUME UNCHANGED window PROVE PaceInv'
  BY <1>1, <1>2, <1>3, <1>5 DEF PaceInv
<1>6. CASE FillSend
  <2>1. window' = Fill(data_sequence_number)
    BY <1>6 DEF FillSend
  <2>2. window'.lower = window.lower
    BY <1>4, <2>1, FillSets
  <2> QED
    BY <1>1, <1>2, <1>3, <2>2 DEF PaceInv
<1>7. ASSUME NEW c \in BagToSet(ctl), HandleRR(c) PROVE PaceInv'
  <2> DEFINE s == c.seq
  <2>1. s \in Nat /\ s <= rr_seq_num /\ rbuf.expected >= 1
    BY <1>2, <1>7 DEF HandleRR, CtlIn, Control
  <2>2. window' = advanceSenderWindow(acknowledgePacket(window, s), s + 1)
    BY <1>7 DEF HandleRR, getSequenceFromBuffer
  <2> HIDE DEF s
  <2>3. s < window.lower => window.buffer[IndexOf(s)].mem = "null"
    <3>1. \A t \in 0 .. window.lower - 1 : SlotOf(t).mem = "null"
      BY Zenon DEF RingInv
    <3>2. s < window.lower => s \in 0 .. window.lower - 1
      BY <1>4, <2>1
    <3> QED
      BY <3>1, <3>2 DEF SlotOf
  <2>4. window'.lower = s + 1 \/ window'.lower = window.lower
    BY <1>4, <2>1, <2>2, <2>3, RRFrees
  <2> QED
    BY <1>1, <1>2, <1>3, <1>4, <2>1, <2>2, <2>4 DEF PaceInv
<1>8. CASE \/ OpenFile \/ FillCrash \/ FillEOF \/ FillClosed \/ Drained
           \/ TimeoutResend \/ TimeoutNothing \/ ExitOnEof
           \/ \E c \in BagToSet(ctl) : HandleSREJ(c) \/ HandleOther(c)
  BY <1>5, <1>8 DEF OpenFile, FillCrash, FillEOF, FillClosed, Drained, TimeoutResend,
                    TimeoutNothing, ExitOnEof, HandleSREJ, HandleOther, sndVars
<1> QED
  BY <1>6, <1>7, <1>8 DEF SndNext

\* A step that is not rcopy's leaves what is said of rcopy alone.
LEMMA RcopyStays ==
  ASSUME UNCHANGED rcvVars
  PROVE  /\ RcvTypeOK => RcvTypeOK'
         /\ OutputOrdered => OutputOrdered'
         /\ SrejInv => SrejInv'
         /\ RrInv => RrInv'
         /\ Decided
  BY DEF RcvTypeOK, OutputOrdered, SrejInv, RrInv, Decided, rcvVars, counters

\* Every step of the child keeps the inductive invariant.
LEMMA SndKeeps ==
  ASSUME IInv, SndStep
  PROVE  IInv' /\ Decided
<1>1. /\ SndTypeOK /\ RcvTypeOK /\ NetTypeOK /\ RingInv /\ HoldInv
      /\ PacketsGenuine /\ OutputOrdered /\ SrejInv /\ RrInv /\ ReachInv /\ PaceInv
      /\ SndNext /\ UNCHANGED rcvVars
  BY DEF IInv, SndStep
<1>2. CtlIn
  BY <1>1 DEF NetTypeOK
<1>3. SndTypeOK' /\ RingInv' /\ HoldInv'
  BY <1>1, <1>2, RingStep, HoldStep
<1>4. RcvTypeOK' /\ OutputOrdered' /\ SrejInv' /\ RrInv' /\ Decided
  BY <1>1, RcopyStays
<1>5. \A p \in BagToSet(data') :
        \/ p \in BagToSet(data)
        \/ /\ p \in DataPacket
           /\ first <= 1 => p.seq \in first .. data_sequence_number' - 1
  BY <1>1, <1>2, SndSends
<1>6. /\ data_sequence_number \in Nat /\ data_sequence_number' \in Nat
      /\ data_sequence_number' >= data_sequence_number
      /\ first \in Nat /\ first' = first
  BY <1>1, <1>3, CounterGrows DEF SndTypeOK, SndNext
<1>7. NetTypeOK'
  BY <1>1, <1>5, SndTakes DEF NetTypeOK, CtlIn
<1>8. PacketsGenuine'
  <2>1. first <= 1 =>
          \A p \in BagToSet(data) : p.seq \in first .. data_sequence_number' - 1
    BY <1>1, <1>6 DEF PacketsGenuine
  <2> QED
    BY <1>5, <1>6, <2>1 DEF PacketsGenuine
<1>9. ReachInv'
  <2>1. rbuf \in ReceiverBuffer /\ rbuf.expected \in Nat /\ UNCHANGED <<rbuf, subState>>
    BY <1>1 DEF RcvTypeOK, ReceiverBuffer, rcvVars
  <2>2. \A i \in Slots : rbuf.buffer[i].sequence_number \in Int
    BY <2>1 DEF ReceiverBuffer, ReceiverSlot
  <2> QED
    BY <1>1, <1>6, <2>1, <2>2 DEF ReachInv, ExpectedWithinSent
<1>10. PaceInv'
  BY <1>1, <1>2, <1>3, SndPace
<1> QED
  BY <1>3, <1>4, <1>7, <1>8, <1>9, <1>10 DEF IInv

\* A stuttering step changes nothing.
LEMMA StutterKeeps ==
  ASSUME IInv, UNCHANGED vars
  PROVE  IInv' /\ Decided
<1>1. UNCHANGED rcvVars /\ UNCHANGED sndVars /\ UNCHANGED <<data, ctl>>
  BY DEF vars, netVars
<1>2. UNCHANGED <<spc, window, data_sequence_number, first, rbuf, subState,
                  rr_seq_num, junk>>
  BY <1>1 DEF sndVars, rcvVars, counters
<1>3. RcvTypeOK' /\ OutputOrdered' /\ SrejInv' /\ RrInv' /\ Decided
  BY <1>1, RcopyStays DEF IInv
<1>4. SndTypeOK' /\ RingInv' /\ HoldInv'
  BY <1>2 DEF IInv, SndTypeOK, RingInv, HoldInv, Listening, SlotOf
<1>5. NetTypeOK' /\ PacketsGenuine' /\ ReachInv' /\ PaceInv'
  BY <1>1, <1>2 DEF IInv, NetTypeOK, CtlIn, PacketsGenuine, ReachInv, ExpectedWithinSent,
                    PaceInv
<1> QED
  BY <1>3, <1>4, <1>5 DEF IInv

-----------------------------------------------------------------------------
(* What no step does.                                                      *)

\* No step of the child moves an edge of its window back: an RR that moves lower
\* sets upper one window above the packet it acknowledges.
LEMMA EdgesGrow ==
  ASSUME IInv, SndNext
  PROVE  window.lower <= window'.lower /\ window.upper <= window'.upper
<1>1. /\ SndTypeOK /\ CtlIn /\ RingInv
      /\ window \in SenderWindow /\ window.lower \in Nat /\ window.upper \in Nat
      /\ data_sequence_number \in Nat /\ WindowSize \in Nat
  BY WindowAssumption DEF IInv, NetTypeOK, SndTypeOK, SenderWindow
<1>2. ASSUME window'.lower = window.lower, window'.upper = window.upper
      PROVE  window.lower <= window'.lower /\ window.upper <= window'.upper
  BY <1>1, <1>2
<1>3. CASE FillSend
  <2>1. window' = Fill(data_sequence_number)
    BY <1>3 DEF FillSend
  <2>2. window'.lower = window.lower /\ window'.upper = window.upper
    BY <1>1, <2>1, FillSets
  <2> QED
    BY <1>2, <2>2
<1>4. ASSUME NEW c \in BagToSet(ctl), HandleRR(c)
      PROVE  window.lower <= window'.lower /\ window.upper <= window'.upper
  <2> DEFINE s == getSequenceFromBuffer(c)
  <2>1. s \in Nat
    BY <1>1, CtlSeq
  <2> HIDE DEF s
  <2>2. window' = advanceSenderWindow(acknowledgePacket(window, s), s + 1)
    BY <1>4 DEF HandleRR, s
  <2>3. s < window.lower => window.buffer[IndexOf(s)].mem = "null"
    BY <1>1, <2>1 DEF RingInv, SlotOf
  <2>4. \/ s >= window.lower /\ window'.lower = s + 1 /\ window'.upper = s + WindowSize
        \/ window'.lower = window.lower /\ window'.upper = window.upper
    BY <1>1, <2>1, <2>2, <2>3, RRFrees
  <2>5. window.upper <= window.lower + WindowSize
    <3>1. /\ window.lower = 0 => window.upper = WindowSize
          /\ window.lower > 0 => window.upper = window.lower + WindowSize - 1
      BY <1>1, Zenon DEF RingInv
    <3> QED
      BY <1>1, <3>1
  <2> QED
    BY <1>1, <2>1, <2>4, <2>5
<1>5. CASE \/ OpenFile \/ FillCrash \/ FillEOF \/ FillClosed \/ Drained
           \/ TimeoutResend \/ TimeoutNothing \/ ExitOnEof
           \/ \E c \in BagToSet(ctl) : HandleSREJ(c) \/ HandleOther(c)
  BY <1>2, <1>5 DEF OpenFile, FillCrash, FillEOF, FillClosed, Drained, TimeoutResend,
                    TimeoutNothing, ExitOnEof, HandleSREJ, HandleOther, sndVars
<1> QED
  BY <1>3, <1>4, <1>5 DEF SndNext

\* No step at all moves an edge of the window, or expected, back.
LEMMA NoneBack ==
  ASSUME IInv, [Next]_vars
  PROVE  /\ window.lower <= window'.lower /\ window.upper <= window'.upper
         /\ rbuf.expected <= rbuf'.expected
<1>1. window.lower \in Nat /\ window.upper \in Nat /\ rbuf.expected \in Nat
  BY DEF IInv, SndTypeOK, SenderWindow, RcvTypeOK, ReceiverBuffer
<1>2. CASE RcvStep
  <2>1. UNCHANGED window
    BY <1>2 DEF RcvStep, sndVars
  <2>2. IInv' /\ (Decides \/ Decided)
    BY <1>2, RcvKeeps
  <2>3. rbuf'.expected \in Nat
    BY <2>2 DEF IInv, RcvTypeOK, ReceiverBuffer
  <2> QED
    BY <1>1, <2>1, <2>2, <2>3 DEF Decides, Decided
<1>3. CASE SndStep
  <2>1. UNCHANGED rbuf
    BY <1>3 DEF SndStep, rcvVars
  <2> QED
    BY <1>1, <1>3, <2>1, EdgesGrow DEF SndStep
<1>4. CASE UNCHANGED vars
  <2>1. UNCHANGED <<window, rbuf>>
    BY <1>4 DEF vars, sndVars, rcvVars
  <2> QED
    BY <1>1, <2>1
<1> QED
  BY <1>2, <1>3, <1>4 DEF Next, Ended

-----------------------------------------------------------------------------
(* The theorems.                                                           *)

\* Every step keeps the inductive invariant, and decides chunks or none.
LEMMA IInvStep == IInv /\ [Next]_vars => IInv' /\ (Decides \/ Decided)
<1> SUFFICES ASSUME IInv, [Next]_vars PROVE IInv' /\ (Decides \/ Decided)
  OBVIOUS
<1>1. CASE RcvStep
  BY <1>1, RcvKeeps
<1>2. CASE SndStep
  BY <1>2, SndKeeps
<1>3. CASE UNCHANGED vars
  BY <1>3, StutterKeeps
<1> QED
  BY <1>1, <1>2, <1>3 DEF Next, Ended

\* The inductive invariant holds always.
LEMMA IInvAlways == Spec => []IInv
  BY IInvInit, IInvStep, PTL DEF Spec

\* Every variable stays within its type, and so does every PDU.
THEOREM TransferTypeOK == Spec => []TypeOK
<1>1. IInv => TypeOK
  BY DEF IInv, TypeOK, SndTypeOK, RcvTypeOK, NetTypeOK, CtlIn
<1> QED
  BY <1>1, IInvAlways, PTL

\* rcopy writes chunks in ascending order, none twice, and below the packet it
\* expects (doInOrderState, doFlushingState).
THEOREM TransferOutputOrdered == Spec => []OutputOrdered
<1>1. IInv => OutputOrdered
  BY DEF IInv
<1> QED
  BY <1>1, IInvAlways, PTL

\* rcopy implements OrderedCopy with the child of this repository as its peer.
THEOREM TransferImplementsOrderedCopy == Spec => ImplementsOrderedCopy
<1>1. Init => Copy!Init
  BY DEF Init, RcvInit, initReceiverBuffer, Copy!Init, Written
<1>2. IInv /\ [Next]_vars => [Copy!Decide]_<<Written, rbuf.expected>>
  BY IInvStep, DecideRefines DEF IInv
<1> QED
  BY <1>1, <1>2, IInvAlways, PTL DEF Spec, Copy!Spec, ImplementsOrderedCopy

\* rcopy makes at most SrejRetries SREJs for each missing packet, over all its
\* visits to BUFFERING (doBufferState).
THEOREM TransferSrejBudget == Spec => []SrejBudget
<1>1. IInv => SrejBudget
  BY SrejBound DEF IInv
<1> QED
  BY <1>1, IInvAlways, PTL

\* Every data PDU under way carries a chunk the child has read and numbered,
\* also when it is resent (doSendDataState, steps 2 and 3).
THEOREM TransferPacketsGenuine == Spec => []PacketsGenuine
<1>1. IInv => PacketsGenuine
  BY DEF IInv
<1> QED
  BY <1>1, IInvAlways, PTL

\* rcopy never expects or keeps a packet the child has not sent (flushBuffer).
THEOREM TransferExpectedWithinSent == Spec => []ExpectedWithinSent
<1>1. IInv => ExpectedWithinSent
  BY DEF IInv, ReachInv
<1> QED
  BY <1>1, IInvAlways, PTL

\* An RR frees every slot it marks (acknowledgePacket, advanceSenderWindow).
THEOREM TransferHeldIsUnacked == Spec => []HeldIsUnacked
<1>1. IInv => HeldIsUnacked
  <2> SUFFICES ASSUME IInv, NEW i \in Slots, window.buffer[i].mem = "full"
               PROVE  /\ window.buffer[i].ACK = 0
                      /\ window.buffer[i].sequence_number >= window.lower
    BY DEF HeldIsUnacked
  <2> DEFINE n == window.buffer[i].sequence_number
  <2>1. /\ window.buffer[i].ACK = 0 /\ IndexOf(n) = i
        /\ n \in first .. data_sequence_number
    BY Zenon DEF IInv, RingInv
  <2>2. \A s \in 0 .. window.lower - 1 : window.buffer[IndexOf(s)].mem = "null"
    BY Zenon DEF IInv, RingInv, SlotOf
  <2>3. n \in Nat /\ window.lower \in Nat
    BY <2>1 DEF IInv, SndTypeOK, SenderWindow
  <2> HIDE DEF n
  <2>4. n \notin 0 .. window.lower - 1
    BY <2>1, <2>2
  <2> QED
    BY <2>1, <2>3, <2>4 DEF n
<1> QED
  BY <1>1, IInvAlways, PTL

\* Of any file, a child whose numbers start at 0 sends one window and one packet
\* at most: RRs that move upper so far that step 1 goes on have freed the slot of
\* the next packet, and the child crashes there.  RRFreesSpace (Claims) is what
\* the repository's README expects instead.
OneWindow == first = 0 => data_sequence_number <= WindowSize + 1

\* Which packets of that child can still be resent: those from lower on, but not
\* a packet that has been overwritten by the one a ring later, nor a packet that
\* overwrote one lower has passed, which was freed with it unacknowledged.
\* SrejResendsMissing (Claims) is what the README expects of them.
ResendableExactly ==
  first = 0 /\ spc # "DONE" =>
    \A n \in 0 .. data_sequence_number - 1 :
      SlotOf(n).mem = "full" /\ SlotOf(n).sequence_number = n <=>
        /\ n >= window.lower
        /\ n >= WindowSize => n - WindowSize >= window.lower
        /\ n + WindowSize >= data_sequence_number

\* The child sends at most WindowSize + 1 packets of any file
\* (canSendMorePackets, advanceSenderWindow, insertPacketIntoWindow).
THEOREM TransferOneWindow == Spec => []OneWindow
<1>1. IInv => OneWindow
  BY DEF IInv, HoldInv, OneWindow
<1> QED
  BY <1>1, IInvAlways, PTL

\* Which packets of the first window the ring still holds, and that packet
\* WindowSize is held only while packet 0 is not acknowledged.
LEMMA Resendable == IInv => ResendableExactly
<1> SUFFICES ASSUME IInv, first = 0, spc # "DONE", NEW n \in 0 .. data_sequence_number - 1
             PROVE  SlotOf(n).mem = "full" /\ SlotOf(n).sequence_number = n <=>
                      /\ n >= window.lower
                      /\ n >= WindowSize => n - WindowSize >= window.lower
                      /\ n + WindowSize >= data_sequence_number
  BY DEF ResendableExactly
<1>1. /\ window \in SenderWindow /\ window.lower \in Nat /\ data_sequence_number \in Nat
      /\ WindowSize \in Nat /\ WindowSize >= 1
      /\ data_sequence_number <= WindowSize + 1
  BY WindowAssumption DEF IInv, SndTypeOK, SenderWindow, HoldInv
<1>2. RingInv /\ HoldInv
  BY DEF IInv
<1>3. \A i \in Slots :
        /\ window.buffer[i].mem = "raw" => i >= data_sequence_number
        /\ window.buffer[i].mem = "null" => i < window.lower
        /\ window.buffer[i].mem = "full" => window.buffer[i].sequence_number =
              IF i = 0 /\ data_sequence_number > WindowSize THEN WindowSize ELSE i
        /\ window.buffer[i].mem \in {"null", "raw", "full"}
  <2> TAKE i \in Slots
  <2>1. /\ window.buffer[i].mem = "null" => i < window.lower
        /\ window.buffer[i].mem = "full" => window.buffer[i].sequence_number =
              IF i = 0 /\ data_sequence_number > WindowSize THEN WindowSize ELSE i
    BY <1>2, Zenon DEF HoldInv
  <2>2. window.buffer[i].mem \in {"null", "raw", "full"}
    BY <1>1, SlotFields
  <2>3. window.buffer[i].mem = "raw" =>
          \A t \in 0 .. data_sequence_number - 1 : IndexOf(t) # i
    BY <1>2, Zenon DEF RingInv
  <2>4. i < data_sequence_number => i \in 0 .. data_sequence_number - 1
    BY <1>1 DEF Slots
  <2>5. window.buffer[i].mem = "raw" => i >= data_sequence_number
    <3>1. IndexOf(i) = i /\ i \in Int
      BY SlotIndex DEF Slots
    <3> QED
      BY <1>1, <2>3, <2>4, <3>1
  <2> QED
    BY <2>1, <2>2, <2>5
<1>4. \A t \in 0 .. window.lower - 1 : window.buffer[IndexOf(t)].mem = "null"
  BY <1>2, Zenon DEF RingInv, SlotOf
<1>5. CASE n < WindowSize
  <2>1. n \in Slots /\ n \in Nat
    BY <1>1, <1>5 DEF Slots
  <2>2. IndexOf(n) = n
    BY <2>1, SlotIndex
  <2>3. window.buffer[n].mem = "full" <=> n >= window.lower
    <3>1. n < window.lower => window.buffer[n].mem = "null"
      BY <1>1, <1>4, <2>1, <2>2
    <3>2. n >= window.lower => window.buffer[n].mem = "full"
      BY <1>1, <1>3, <2>1
    <3> QED
      BY <1>1, <2>1, <3>1, <3>2
  <2>4. window.buffer[n].mem = "full" =>
          (window.buffer[n].sequence_number = n <=> n + WindowSize >= data_sequence_number)
    <3>1. CASE n = 0 /\ data_sequence_number > WindowSize
      BY <1>1, <1>3, <2>1, <3>1
    <3>2. CASE ~ (n = 0 /\ data_sequence_number > WindowSize)
      <4>1. n + WindowSize >= data_sequence_number
        BY <1>1, <2>1, <3>2
      <4> QED
        BY <1>3, <2>1, <3>2, <4>1
    <3> QED
      BY <3>1, <3>2
  <2> QED
    BY <1>1, <1>5, <2>1, <2>2, <2>3, <2>4 DEF SlotOf
<1>6. CASE n >= WindowSize
  <2>1. n = WindowSize /\ data_sequence_number = WindowSize + 1
    BY <1>1, <1>6
  <2>2. IndexOf(n) = 0 /\ 0 \in Slots /\ IndexOf(0) = 0
    BY <1>1, <2>1, FirstWraps, SlotIndex DEF Slots
  <2>3. window.lower > 0 => window.buffer[0].mem = "null"
    BY <1>1, <1>4, <2>2
  <2>4. window.lower = 0 =>
          window.buffer[0].mem = "full" /\ window.buffer[0].sequence_number = WindowSize
    BY <1>1, <1>3, <2>1, <2>2
  <2> QED
    BY <1>1, <2>1, <2>2, <2>3, <2>4 DEF SlotOf
<1> QED
  BY <1>1, <1>5, <1>6

\* What the ring holds of the packets the child has sent: the RR for packet 0
\* also frees packet WindowSize, which has overwritten it and is not
\* acknowledged (insertPacketIntoWindow, advanceSenderWindow).
THEOREM TransferResendableExactly == Spec => []ResendableExactly
  BY Resendable, IInvAlways, PTL

\* No step moves an edge of the window or expected back (advanceSenderWindow,
\* flushBuffer), with RRs arriving in any order.
THEOREM TransferNeverBack == Spec => NeverBack
<1>1. IInv /\ [Next]_vars =>
        [/\ window.lower <= window'.lower /\ window.upper <= window'.upper
         /\ rbuf.expected <= rbuf'.expected]_vars
  BY NoneBack
<1> QED
  BY <1>1, IInvAlways, PTL DEF Spec, NeverBack

\* lower passes what rcopy has written or passed over by no more than the failed
\* sends of RRs (advanceSenderWindow, doInOrderState, flushBuffer).
THEOREM TransferAckedWasDecided == Spec => []AckedWasDecided
<1>1. IInv => AckedWasDecided
  <2> SUFFICES ASSUME IInv, junk.flag # RR
               PROVE  window.lower <= rbuf.expected + rr_seq_num
    BY DEF AckedWasDecided
  <2>1. window.lower \in Nat /\ rbuf.expected \in Nat /\ rr_seq_num \in Nat
    BY DEF IInv, SndTypeOK, SenderWindow, RcvTypeOK, ReceiverBuffer
  <2>2. window.lower <= rr_seq_num + 1 /\ (window.lower >= 1 => rbuf.expected >= 1)
    BY DEF IInv, PaceInv
  <2> QED
    BY <2>1, <2>2
<1> QED
  BY <1>1, IInvAlways, PTL
=============================================================================
