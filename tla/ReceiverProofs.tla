--------------------------- MODULE ReceiverProofs ---------------------------
(***************************************************************************)
(* What rcopy's data state keeps true by itself, step by step, whatever    *)
(* the other side puts into the data direction.  Used by the theorems      *)
(* about the open receiver and about the whole transfer.                   *)
(***************************************************************************)
EXTENDS Receiver, DatagramsProofs, TLAPS

RcvTypeOK ==
  /\ rpc \in RcvStates
  /\ subState \in SubStates
  /\ rbuf \in ReceiverBuffer
  /\ rr_seq_num \in Nat
  /\ srej_seq_num \in Nat /\ srejs \in Nat
  /\ retries \in Nat
  /\ eofPending \in BOOLEAN
  /\ attempts \in Nat
  /\ output \in Seq(Chunk)
  /\ junk \in Control

\* What is in the data direction are data PDUs.
DataIn == \A p \in BagToSet(data) : p.seq \in Int /\ p.flag \in Nat

-----------------------------------------------------------------------------
(* The ring.                                                               *)

\* A sequence number always selects a slot of the ring.
LEMMA IndexInSlots == \A s \in Int : IndexOf(s) \in Slots
  BY WindowAssumption DEF IndexOf, Slots

\* The fields a store or a flush does not touch.
SameControl(rb, after) == /\ after.hasLastControl = rb.hasLastControl
                          /\ after.lastControlPacket = rb.lastControlPacket

\* Storing a packet keeps the buffer's type, the number that is expected and
\* every slot but one, which then holds that packet.
LEMMA StoreType ==
  ASSUME NEW rb \in ReceiverBuffer, NEW p, p.seq \in Int, p.flag \in Nat
  PROVE  /\ Store(rb, p) \in ReceiverBuffer
         /\ Store(rb, p).expected = rb.expected
         /\ SameControl(rb, Store(rb, p))
         /\ \A i \in Slots : \/ Store(rb, p).buffer[i] = rb.buffer[i]
                             \/ Store(rb, p).buffer[i].sequence_number = p.seq
<1> DEFINE s == p.seq
           slot == [sequence_number |-> s, valid |-> 1]
           ring == [rb.buffer EXCEPT ![IndexOf(s)] = slot]
           b == [rb EXCEPT !.buffer = ring]
<1>1. slot \in ReceiverSlot /\ slot.sequence_number = s
  BY DEF ReceiverSlot
<1>2. rb.buffer \in [Slots -> ReceiverSlot]
  BY DEF ReceiverBuffer
<1>3. /\ ring \in [Slots -> ReceiverSlot]
      /\ \A i \in Slots : \/ ring[i] = rb.buffer[i]
                          \/ ring[i].sequence_number = s
  BY <1>1, <1>2, IndexInSlots
<1>4. Store(rb, p) = raiseHighest(raiseHighest(b, s), s) \/ Store(rb, p) = raiseHighest(rb, s)
  BY DEF Store, insertReceiverPacket
<1> HIDE DEF ring
<1>5. b \in ReceiverBuffer /\ b.expected = rb.expected /\ b.buffer = ring /\ SameControl(rb, b)
  BY <1>3 DEF ReceiverBuffer, SameControl
<1> HIDE DEF b
<1>6. ASSUME NEW x \in ReceiverBuffer
      PROVE  /\ raiseHighest(x, s) \in ReceiverBuffer
             /\ raiseHighest(x, s).expected = x.expected
             /\ raiseHighest(x, s).buffer = x.buffer
             /\ SameControl(x, raiseHighest(x, s))
  BY DEF raiseHighest, ReceiverBuffer, SameControl
<1>7. /\ Store(rb, p) \in ReceiverBuffer
      /\ Store(rb, p).expected = rb.expected
      /\ SameControl(rb, Store(rb, p))
      /\ Store(rb, p).buffer = ring \/ Store(rb, p).buffer = rb.buffer
  BY <1>4, <1>5, <1>6 DEF SameControl
<1> QED
  BY <1>3, <1>7

\* Flushing keeps the buffer's type, raises expected past what it flushed and
\* empties slots or leaves them alone.
LEMMA FlushType ==
  ASSUME NEW rb \in ReceiverBuffer, NEW n \in Nat
  PROVE  /\ flushBuffer(rb, n) \in ReceiverBuffer
         /\ flushBuffer(rb, n).expected = rb.expected + n + 1
         /\ SameControl(rb, flushBuffer(rb, n))
         /\ \A i \in Slots : \/ flushBuffer(rb, n).buffer[i] = rb.buffer[i]
                             \/ flushBuffer(rb, n).buffer[i] = EmptySlot
<1> DEFINE b == [i \in Slots |-> IF \E j \in 1..n : IndexOf(rb.expected + j) = i
                                 THEN EmptySlot ELSE rb.buffer[i]]
           e == rb.expected + n + 1
<1>1. EmptySlot \in ReceiverSlot
  BY DEF EmptySlot, ReceiverSlot
<1>2. \A i \in Slots : rb.buffer[i] \in ReceiverSlot
  BY DEF ReceiverBuffer
<1>3. /\ b \in [Slots -> ReceiverSlot]
      /\ \A i \in Slots : b[i] = rb.buffer[i] \/ b[i] = EmptySlot
  BY <1>1, <1>2
<1>4. e \in Nat
  BY DEF ReceiverBuffer
<1> DEFINE f == [rb EXCEPT !.buffer = b, !.expected = e]
<1>5. flushBuffer(rb, n) = f
  BY DEF flushBuffer, Flush
<1> HIDE DEF b, e
<1>6. f \in ReceiverBuffer /\ f.expected = e /\ f.buffer = b /\ SameControl(rb, f)
  BY <1>3, <1>4 DEF ReceiverBuffer, SameControl
<1> HIDE DEF f
<1> QED
  BY <1>3, <1>5, <1>6 DEF e

\* The chunks one flush writes, one by one.
LEMMA FlushedType ==
  ASSUME NEW rb \in ReceiverBuffer, NEW n \in Nat, NEW lost \in 0 .. n
  PROVE  /\ Flushed(rb, n, lost) \in Seq(Chunk)
         /\ Len(Flushed(rb, n, lost)) = n - lost
         /\ \A j \in 1 .. n - lost : Flushed(rb, n, lost)[j].seq = rb.expected + lost + j
<1> DEFINE s(j) == rb.expected + lost + j
           c(j) == [seq |-> s(j), bytes |-> "memory"]
<1>1. rb.expected \in Nat /\ n - lost \in Nat
  BY DEF ReceiverBuffer
<1>2. ASSUME NEW j \in 1 .. n - lost
      PROVE  c(j) \in Chunk /\ c(j).seq = s(j)
  BY <1>1 DEF Chunk
<1>3. Flushed(rb, n, lost) = [j \in 1 .. n - lost |-> c(j)]
  BY DEF Flushed
<1> HIDE DEF c
<1>4. [j \in 1 .. n - lost |-> c(j)] \in Seq(Chunk)
  BY <1>1, <1>2
<1>5. Len([j \in 1 .. n - lost |-> c(j)]) = n - lost
  BY <1>1
<1> QED
  BY <1>2, <1>3, <1>4, <1>5

-----------------------------------------------------------------------------
(* Types.                                                                  *)

\* The control PDUs rcopy makes are control PDUs.
LEMMA ControlType ==
  /\ \A c \in Junk : c \in Control
  /\ \A a, b \in Nat : makeRRPacket(a, b) \in Control /\ makeSREJPacket(a, b) \in Control
  BY MemAssumption DEF Junk, Control, makeRRPacket, makeSREJPacket, RR, SREJ

\* rcopy starts with its variables in their types.
LEMMA RcvTypeInit == RcvInit => RcvTypeOK
<1> SUFFICES ASSUME RcvInit PROVE RcvTypeOK
  OBVIOUS
<1>1. junk \in Control /\ initReceiverBuffer(junk) \in ReceiverBuffer
  BY ControlType DEF RcvInit, initReceiverBuffer, ReceiverBuffer, ReceiverSlot, EmptySlot
<1>2. output \in Seq(Chunk)
  BY DEF RcvInit
<1>3. eofPending \in BOOLEAN
  BY Zenon DEF RcvInit
<1> QED
  BY <1>1, <1>2, <1>3 DEF RcvInit, RcvTypeOK, RcvStates, SubStates

\* Every step of rcopy keeps its variables in their types.
LEMMA RcvTypeStep == RcvTypeOK /\ DataIn /\ RcvNext => RcvTypeOK'
<1> SUFFICES ASSUME RcvTypeOK, DataIn, RcvNext PROVE RcvTypeOK'
  OBVIOUS
<1>0. UNCHANGED junk
  BY DEF RcvNext
<1> USE <1>0 DEF RcvTypeOK, RcvStates, SubStates
<1>1. CASE OpenOutput
  BY <1>1 DEF OpenOutput, counters
<1>2. ASSUME NEW p \in BagToSet(data), RecvOld(p) PROVE RcvTypeOK'
  BY <1>2 DEF RecvOld, Receive, Return, counters
<1>3. ASSUME NEW p \in BagToSet(data), RecvInOrder(p) PROVE RcvTypeOK'
  <2>1. [seq |-> p.seq, bytes |-> "payload"] \in Chunk
    BY DEF DataIn, Chunk
  <2>2. rbuf' \in ReceiverBuffer
    <3>1. Accept(rbuf) \in ReceiverBuffer
      <4>1. rbuf.expected + 1 \in Nat
        BY DEF ReceiverBuffer
      <4>2. makeRRPacket(rr_seq_num, rbuf.expected + 1) \in Control
        BY <4>1, ControlType
      <4> QED
        BY <4>1, <4>2 DEF Accept, ReceiverBuffer
    <3> QED
      BY <1>3, <3>1 DEF RecvInOrder
  <2>3. output' \in Seq(Chunk)
    BY <1>3, <2>1 DEF RecvInOrder, writePayloadToFile
  <2>4. eofPending' \in BOOLEAN
    BY <1>3, Zenon DEF RecvInOrder
  <2> QED
    BY <1>3, <2>2, <2>3, <2>4 DEF RecvInOrder, Receive, Return
<1>4. ASSUME NEW p \in BagToSet(data), RrAnswered(p) PROVE RcvTypeOK'
  BY <1>4 DEF RrAnswered, Return, counters
<1>5. ASSUME NEW p \in BagToSet(data), RecvGap(p) PROVE RcvTypeOK'
  BY <1>5 DEF RecvGap, Receive, Return, counters
<1>6. ASSUME NEW p \in BagToSet(data), RecvBuffering(p) PROVE RcvTypeOK'
  <2>1. rbuf' \in ReceiverBuffer
    BY <1>6, StoreType DEF RecvBuffering, DataIn
  <2> QED
    BY <1>6, <2>1 DEF RecvBuffering, Receive, SendSREJ
<1>7. ASSUME NEW p \in BagToSet(data), SrejAnswered(p) PROVE RcvTypeOK'
  BY <1>7 DEF SrejAnswered, Return, counters
<1>8. ASSUME NEW p \in BagToSet(data), RecvFlushing(p) PROVE RcvTypeOK'
  <2>1. PICK n \in 0 .. WindowSize :
          /\ rbuf' = flushBuffer(rbuf, n)
          /\ \E lost \in 0 .. n : output' = output \o Flushed(rbuf, n, lost)
    BY <1>8 DEF RecvFlushing
  <2>2. n \in Nat
    BY WindowAssumption
  <2>3. rbuf' \in ReceiverBuffer
    BY <2>1, <2>2, FlushType
  <2>4. output' \in Seq(Chunk)
    <3>1. PICK lost \in 0 .. n : output' = output \o Flushed(rbuf, n, lost)
      BY <2>1
    <3>2. rbuf \in ReceiverBuffer /\ output \in Seq(Chunk)
      OBVIOUS
    <3>3. Flushed(rbuf, n, lost) \in Seq(Chunk)
      BY <2>2, <3>2, FlushedType
    <3> QED
      BY <3>1, <3>2, <3>3
  <2> QED
    BY <1>8, <2>3, <2>4 DEF RecvFlushing, Receive, Return, counters
<1>9. ASSUME NEW p \in BagToSet(data), RecvIgnored(p) PROVE RcvTypeOK'
  BY <1>9 DEF RecvIgnored, Receive, Return, counters
<1>10. ASSUME NEW p \in BagToSet(data), RecvOverrun(p) PROVE RcvTypeOK'
  BY <1>10 DEF RecvOverrun, Receive, counters
<1>11. CASE RrRetry
  BY <1>11 DEF RrRetry, Return
<1>12. CASE SrejRetry
  BY <1>12 DEF SrejRetry, SendSREJ, Return
<1>13. CASE RecvTimeout
  BY <1>13 DEF RecvTimeout
<1> QED
  BY <1>1, <1>2, <1>3, <1>4, <1>5, <1>6, <1>7, <1>8, <1>9, <1>10, <1>11, <1>12, <1>13
     DEF RcvNext
-----------------------------------------------------------------------------
(* The steps that touch the output file or expected: only doInOrderState   *)
(* and doFlushingState do, and both add chunks expected .. expected' - 1   *)
(* in ascending order.                                                     *)

\* A sequence of chunks, and the sequence of their numbers.
LEMMA ChunkSeq ==
  ASSUME NEW o \in Seq(Chunk)
  PROVE  /\ Len(o) \in Nat
         /\ \A i \in 1 .. Len(o) : o[i] \in Chunk /\ o[i].seq \in Int
         /\ Len([i \in 1 .. Len(o) |-> o[i].seq]) = Len(o)
<1>1. Len(o) \in Nat
  OBVIOUS
<1>2. \A i \in 1 .. Len(o) : o[i] \in Chunk
  OBVIOUS
<1>3. \A i \in 1 .. Len(o) : o[i].seq \in Int
  BY <1>2 DEF Chunk
<1>4. [i \in 1 .. Len(o) |-> o[i].seq] \in Seq(Int)
  BY <1>1, <1>3
<1> QED
  BY <1>1, <1>2, <1>3, <1>4

\* rcopy's view of a step of OrderedCopy.
Decides ==
  /\ rbuf'.expected > rbuf.expected
  /\ Len(output') >= Len(output)
  /\ \A i \in 1 .. Len(output) : output'[i] = output[i]
  /\ \A i \in Len(output) + 1 .. Len(output') :
       output'[i].seq \in rbuf.expected .. rbuf'.expected - 1
  /\ \A i, j \in Len(output) + 1 .. Len(output') :
       i < j => output'[i].seq < output'[j].seq

Decided == output' = output /\ rbuf'.expected = rbuf.expected

\* Accepting a packet in order decides that one chunk.
LEMMA InOrderDecides ==
  ASSUME RcvTypeOK, NEW p, RecvInOrder(p)
  PROVE  Decides
<1> DEFINE c == [seq |-> p.seq, bytes |-> "payload"]
<1>1. output' = Append(output, c) /\ p.seq = rbuf.expected
  BY DEF RecvInOrder, writePayloadToFile
<1>2. rbuf'.expected = rbuf.expected + 1 /\ rbuf.expected \in Nat
  BY DEF RecvInOrder, Accept, RcvTypeOK, ReceiverBuffer
<1>3. output \in Seq(Chunk)
  BY DEF RcvTypeOK
<1>4. c.seq = p.seq
  OBVIOUS
<1> HIDE DEF c
<1>5. Len(output') = Len(output) + 1 /\ Len(output) \in Nat
  BY <1>1, <1>3
<1>6. \A i \in 1 .. Len(output) : output'[i] = output[i]
  BY <1>1, <1>3
<1>7. output'[Len(output) + 1] = c
  BY <1>1, <1>3
<1> QED
  BY <1>1, <1>2, <1>4, <1>5, <1>6, <1>7 DEF Decides

\* A flush decides the missing chunk, unwritten, and the buffered ones behind it.
LEMMA FlushDecides ==
  ASSUME RcvTypeOK, NEW p, RecvFlushing(p)
  PROVE  Decides
<1>1. PICK n \in 0 .. WindowSize :
        /\ rbuf' = flushBuffer(rbuf, n)
        /\ \E lost \in 0 .. n : output' = output \o Flushed(rbuf, n, lost)
  BY DEF RecvFlushing
<1>2. PICK lost \in 0 .. n : output' = output \o Flushed(rbuf, n, lost)
  BY <1>1
<1>3. n \in Nat /\ lost \in Nat /\ lost <= n
  BY WindowAssumption
<1>4. rbuf \in ReceiverBuffer /\ rbuf.expected \in Nat /\ output \in Seq(Chunk)
  BY DEF RcvTypeOK, ReceiverBuffer
<1>5. rbuf'.expected = rbuf.expected + n + 1
  BY <1>1, <1>3, <1>4, FlushType
<1> DEFINE f == Flushed(rbuf, n, lost)
<1>6. /\ f \in Seq(Chunk)
      /\ Len(f) = n - lost
      /\ \A j \in 1 .. n - lost : f[j].seq = rbuf.expected + lost + j
  BY <1>3, <1>4, FlushedType
<1> HIDE DEF f
<1>7. output' = output \o f
  BY <1>2 DEF f
<1>8. Len(output') = Len(output) + (n - lost) /\ Len(output) \in Nat
  BY <1>4, <1>6, <1>7
<1>9. \A i \in 1 .. Len(output) : output'[i] = output[i]
  BY <1>4, <1>6, <1>7
<1>10. \A i \in Len(output) + 1 .. Len(output') :
         output'[i].seq = rbuf.expected + lost + (i - Len(output))
  <2> TAKE i \in Len(output) + 1 .. Len(output')
  <2>1. i \in Int /\ i > Len(output) /\ i <= Len(output) + (n - lost)
    BY <1>3, <1>8
  <2>2. i - Len(output) \in 1 .. n - lost
    BY <1>3, <1>8, <2>1
  <2>3. i \in 1 .. Len(output) + Len(f)
    BY <1>3, <1>6, <1>8, <2>1
  <2>4. output'[i] = f[i - Len(output)]
    BY <1>4, <1>6, <1>7, <2>1, <2>3
  <2> QED
    BY <1>6, <2>2, <2>4
<1>11. \A i \in Len(output) + 1 .. Len(output') :
         output'[i].seq \in rbuf.expected .. rbuf'.expected - 1
  <2> TAKE i \in Len(output) + 1 .. Len(output')
  <2>1. output'[i].seq = rbuf.expected + lost + (i - Len(output))
    BY <1>10
  <2>2. i \in Int /\ i > Len(output) /\ i <= Len(output) + (n - lost)
    BY <1>3, <1>8
  <2> DEFINE e == rbuf.expected
             v == output'[i].seq
             l == Len(output)
  <2>3. e \in Int /\ v = e + lost + (i - l) /\ l \in Int /\ rbuf'.expected = e + n + 1
    BY <1>4, <1>5, <1>8, <2>1
  <2> HIDE DEF e, v, l
  <2>4. v \in Int /\ e <= v /\ v <= e + n
    BY <1>3, <2>2, <2>3 DEF l
  <2> QED
    BY <1>3, <2>3, <2>4 DEF e, v
<1>12. \A i, j \in Len(output) + 1 .. Len(output') :
         i < j => output'[i].seq < output'[j].seq
  BY <1>3, <1>4, <1>8, <1>10
<1>13. Len(output') >= Len(output) /\ rbuf'.expected > rbuf.expected
  BY <1>3, <1>4, <1>5, <1>8
<1> QED
  BY <1>9, <1>11, <1>12, <1>13 DEF Decides

\* Any other step of rcopy decides nothing.
LEMMA RcvDecides == RcvTypeOK /\ DataIn /\ RcvNext => Decides \/ Decided
<1> SUFFICES ASSUME RcvTypeOK, DataIn, RcvNext PROVE Decides \/ Decided
  OBVIOUS
<1>1. ASSUME NEW p \in BagToSet(data), RecvBuffering(p) PROVE Decided
  BY <1>1, StoreType DEF RecvBuffering, DataIn, RcvTypeOK, Decided
<1>2. ASSUME NEW p \in BagToSet(data),
             RecvOld(p) \/ RrAnswered(p) \/ RecvGap(p) \/ SrejAnswered(p)
               \/ RecvIgnored(p) \/ RecvOverrun(p)
      PROVE  Decided
  BY <1>2 DEF RecvOld, RrAnswered, RecvGap, SrejAnswered, RecvIgnored, RecvOverrun, Decided
<1>3. CASE OpenOutput \/ RrRetry \/ SrejRetry \/ RecvTimeout
  BY <1>3 DEF OpenOutput, RrRetry, SrejRetry, RecvTimeout, Decided
<1> QED
  BY <1>1, <1>2, <1>3, InOrderDecides, FlushDecides DEF RcvNext

\* A step that decides chunks, or none, keeps the output ordered.
LEMMA OrderedStep ==
  ASSUME RcvTypeOK, OutputOrdered, Decides \/ Decided, RcvTypeOK'
  PROVE  OutputOrdered'
<1> USE DEF OutputOrdered
<1>1. Len(output) \in Nat /\ Len(output') \in Nat
  BY DEF RcvTypeOK
<1>2. rbuf.expected \in Nat /\ rbuf'.expected \in Nat
  BY DEF RcvTypeOK, ReceiverBuffer
<1>3. \A i \in 1 .. Len(output) : output[i].seq \in Int
  BY ChunkSeq DEF RcvTypeOK
<1>4. CASE Decided
  BY <1>4 DEF Decided
<1>5. CASE Decides
  <2>1. \A i \in 1 .. Len(output') :
          \/ i \in 1 .. Len(output) /\ output'[i] = output[i]
          \/ i \in Len(output) + 1 .. Len(output')
               /\ output'[i].seq \in rbuf.expected .. rbuf'.expected - 1
    BY <1>1, <1>5 DEF Decides
  <2>2. \A i \in 1 .. Len(output') :
          0 <= output'[i].seq /\ output'[i].seq < rbuf'.expected
    BY <1>2, <1>3, <1>5, <2>1 DEF Decides
  <2>3. ASSUME NEW i \in 1 .. Len(output'), NEW j \in 1 .. Len(output'), i < j
        PROVE  output'[i].seq < output'[j].seq
    <3>1. CASE j \in 1 .. Len(output)
      <4>1. i \in 1 .. Len(output)
        BY <1>1, <2>3, <3>1
      <4> QED
        BY <1>5, <2>3, <3>1, <4>1 DEF Decides
    <3>2. CASE j \in Len(output) + 1 .. Len(output')
      <4>1. CASE i \in 1 .. Len(output)
        BY <1>2, <1>3, <1>5, <3>2, <4>1 DEF Decides
      <4>2. CASE i \in Len(output) + 1 .. Len(output')
        BY <1>5, <2>3, <3>2, <4>2 DEF Decides
      <4> QED
        BY <2>1, <4>1, <4>2
    <3> QED
      BY <2>1, <3>1, <3>2
  <2> QED
    BY <2>2, <2>3
<1> QED
  BY <1>4, <1>5

\* Such a step is a step of OrderedCopy, or leaves its variables alone.
LEMMA DecideRefines ==
  ASSUME RcvTypeOK, RcvTypeOK', Decides \/ Decided
  PROVE  [Copy!Decide]_<<Written, rbuf.expected>>
<1>1. Len(output) \in Nat /\ Len(output') \in Nat
  BY DEF RcvTypeOK
<1>2. /\ Len(Written) = Len(output)
      /\ \A i \in 1 .. Len(output) : Written[i] = output[i].seq
  BY ChunkSeq DEF Written, RcvTypeOK
<1>3. /\ Len(Written') = Len(output')
      /\ \A i \in 1 .. Len(output') : Written'[i] = output'[i].seq
  BY ChunkSeq DEF Written, RcvTypeOK
<1>4. CASE Decided
  BY <1>4 DEF Decided, Written
<1>5. CASE Decides
  <2>1. \A i \in 1 .. Len(output) : i \in 1 .. Len(output')
    BY <1>1, <1>5 DEF Decides
  <2>2. \A i \in Len(output) + 1 .. Len(output') : i \in 1 .. Len(output')
    BY <1>1
  <2>3. Copy!Decide
    BY <1>1, <1>2, <1>3, <1>5, <2>1, <2>2 DEF Copy!Decide, Decides
  <2> QED
    BY <2>3
<1> QED
  BY <1>4, <1>5

-----------------------------------------------------------------------------
(* SREJs.  The count goes with the retries of the loop, is back at zero    *)
(* wherever the loop can be entered, and starts again for the next packet. *)

SrejInv ==
  /\ rpc = "RR_RETRY" => subState = "IN_ORDER"
  /\ rpc = "SREJ_WAIT" => /\ subState = "BUFFERING"
                          /\ retries < SrejRetries /\ srejs = retries + 1
  /\ rpc # "SREJ_WAIT" /\ subState \in {"IN_ORDER", "BUFFERING"} => srejs = 0
  /\ srejs <= SrejRetries

\* Every step of rcopy keeps the budget.
LEMMA SrejStep == RcvTypeOK /\ DataIn /\ SrejInv /\ RcvNext => SrejInv'
<1> SUFFICES ASSUME RcvTypeOK, DataIn, SrejInv, RcvNext PROVE SrejInv'
  OBVIOUS
<1>1. srejs \in Nat /\ retries \in Nat /\ SrejRetries \in Nat /\ SrejRetries >= 1
  BY RetryAssumption DEF RcvTypeOK
<1> USE DEF SrejInv
<1>2. CASE OpenOutput \/ RecvTimeout
  BY <1>1, <1>2 DEF OpenOutput, RecvTimeout, counters
<1>3. ASSUME NEW p \in BagToSet(data),
             RecvOld(p) \/ RecvGap(p) \/ RecvIgnored(p) \/ RecvOverrun(p)
      PROVE  SrejInv'
  BY <1>1, <1>3 DEF RecvOld, RecvGap, RecvIgnored, RecvOverrun, Receive, Return, counters
<1>4. ASSUME NEW p \in BagToSet(data), RrAnswered(p) \/ SrejAnswered(p)
      PROVE  SrejInv'
  BY <1>1, <1>4 DEF RrAnswered, SrejAnswered, Return, counters
<1>5. CASE RrRetry
  BY <1>1, <1>5 DEF RrRetry, Return
<1>6. ASSUME NEW p \in BagToSet(data), RecvInOrder(p) \/ RecvFlushing(p) PROVE SrejInv'
  BY <1>1, <1>6 DEF RecvInOrder, RecvFlushing, Receive, Return
<1>7. ASSUME NEW p \in BagToSet(data), RecvBuffering(p) PROVE SrejInv'
  BY <1>1, <1>7 DEF RecvBuffering, SendSREJ, Receive
<1>8. CASE SrejRetry
  BY <1>1, <1>8 DEF SrejRetry, SendSREJ, MoreSREJ, Return
<1> QED
  BY <1>2, <1>3, <1>4, <1>5, <1>6, <1>7, <1>8 DEF RcvNext

\* The budget is part of it.
LEMMA SrejBound == SrejInv => SrejBudget
  BY DEF SrejInv, SrejBudget

-----------------------------------------------------------------------------
(* The data direction.                                                     *)

\* rcopy only takes PDUs out of the data direction.
LEMMA RcvTakes == RcvNext => BagToSet(data') \subseteq BagToSet(data)
<1> SUFFICES ASSUME RcvNext PROVE BagToSet(data') \subseteq BagToSet(data)
  OBVIOUS
<1>1. CASE OpenOutput \/ RecvTimeout
  BY <1>1 DEF OpenOutput, RecvTimeout, netVars
<1>2. CASE RrRetry \/ SrejRetry
  <2>1. PolledNothingUseful
    BY <1>2 DEF RrRetry, SrejRetry
  <2>2. data' = data \/ \E p \in BagToSet(data) : data' = recvfrom(data, p)
    BY <2>1 DEF PolledNothingUseful
  <2> QED
    BY <2>2, ReceiveTakes
<1>3. ASSUME NEW p \in BagToSet(data),
             \/ RecvOld(p) \/ RecvInOrder(p) \/ RrAnswered(p) \/ RecvGap(p)
             \/ RecvBuffering(p) \/ SrejAnswered(p) \/ RecvFlushing(p)
             \/ RecvIgnored(p) \/ RecvOverrun(p)
      PROVE  BagToSet(data') \subseteq BagToSet(data)
  <2>1. data' = recvfrom(data, p)
    BY <1>3 DEF RecvOld, RecvInOrder, RrAnswered, RecvGap, RecvBuffering,
                SrejAnswered, RecvFlushing, RecvIgnored, RecvOverrun, Receive
  <2> QED
    BY <2>1, ReceiveTakes
<1> QED
  BY <1>1, <1>2, <1>3 DEF RcvNext

-----------------------------------------------------------------------------
(* Control PDUs.                                                           *)

\* An RR is on record only after a packet was accepted, with a header number
\* rr_seq_num has not fallen below.
RrInv ==
  /\ rbuf.hasLastControl = "set" => rbuf.expected >= 1
  /\ rpc = "RR_RETRY" => rbuf.hasLastControl = "set"
  /\ rbuf.hasLastControl = "set" => rbuf.lastControlPacket.seq <= rr_seq_num

\* Steps that leave the record and the counter alone, and do not lower expected.
LEMMA RrKept ==
  ASSUME RcvTypeOK, RcvTypeOK', RrInv, SameControl(rbuf, rbuf'),
         rr_seq_num' >= rr_seq_num, rbuf'.expected >= rbuf.expected,
         rpc' = "RR_RETRY" => rpc = "RR_RETRY"
  PROVE  RrInv'
<1>1. rbuf.expected \in Nat /\ rbuf'.expected \in Nat
  BY DEF RcvTypeOK, ReceiverBuffer
<1>2. /\ rr_seq_num \in Nat /\ rr_seq_num' \in Nat
      /\ rbuf.lastControlPacket.seq \in Nat
  BY DEF RcvTypeOK, ReceiverBuffer, Control
<1> QED
  BY <1>1, <1>2 DEF RrInv, SameControl

\* What rcopy adds to the control direction.
Replies(c) == /\ c \in Control
              /\ c.flag = RR /\ c # junk =>
                   /\ rbuf'.hasLastControl = "set"
                   /\ c.seq = rbuf'.lastControlPacket.seq

\* A send of c adds at most c.
LEMMA SendCtlAdds ==
  ASSUME NEW c, SendCtl(c)
  PROVE  BagToSet(ctl') \subseteq BagToSet(ctl) \cup {c}
  BY SendAdds DEF SendCtl

\* Every step of rcopy keeps the record of its last RR, and what it adds to the
\* control direction is an SREJ, junk or that RR.
LEMMA RrStep ==
  ASSUME RcvTypeOK, DataIn, RrInv, RcvNext
  PROVE  /\ RrInv' /\ rr_seq_num' >= rr_seq_num
         /\ \A c \in BagToSet(ctl') : c \in BagToSet(ctl) \/ Replies(c)
<1> DEFINE Grows == rr_seq_num' >= rr_seq_num
           Added == \A c \in BagToSet(ctl') : c \in BagToSet(ctl) \/ Replies(c)
<1>1. RcvTypeOK' /\ rbuf.expected \in Nat
  BY RcvTypeStep DEF RcvTypeOK, ReceiverBuffer
<1>2. ASSUME UNCHANGED rbuf PROVE SameControl(rbuf, rbuf') /\ rbuf'.expected >= rbuf.expected
  BY <1>1, <1>2 DEF SameControl
<1>3. rbuf.lastControlPacket \in Control /\ rr_seq_num \in Nat /\ srej_seq_num \in Nat
  BY DEF RcvTypeOK, ReceiverBuffer
<1>4. CASE OpenOutput \/ RecvTimeout
  BY <1>1, <1>2, <1>3, <1>4, RrKept DEF OpenOutput, RecvTimeout, counters, netVars
<1>5. ASSUME NEW p \in BagToSet(data),
             \/ RrAnswered(p) \/ RecvGap(p) \/ SrejAnswered(p)
             \/ RecvIgnored(p) \/ RecvOverrun(p)
      PROVE  RrInv' /\ Grows /\ Added
  BY <1>1, <1>2, <1>3, <1>5, RrKept
     DEF RrAnswered, RecvGap, SrejAnswered, RecvIgnored, RecvOverrun, Receive, Return,
         counters
<1>6. ASSUME NEW p \in BagToSet(data), RecvOld(p) PROVE RrInv' /\ Grows /\ Added
  <2>1. UNCHANGED <<rbuf, rr_seq_num>> /\ rpc' # "RR_RETRY"
    BY <1>6 DEF RecvOld, Return, counters
  <2>2. ASSUME rbuf.hasLastControl = "set", SendCtl(rbuf.lastControlPacket) PROVE Added
    BY <1>3, <2>1, <2>2, SendCtlAdds DEF Replies
  <2>3. ASSUME ctl' \in {ctl} \cup sendtoErr(ctl, junk) PROVE Added
    <3>1. BagToSet(ctl') \subseteq BagToSet(ctl) \cup {junk}
      BY <2>3, SendAdds
    <3>2. junk \in Control
      BY DEF RcvTypeOK
    <3> QED
      BY <3>1, <3>2 DEF Replies
  <2>4. Added
    BY <1>6, <2>2, <2>3 DEF RecvOld
  <2> QED
    BY <1>1, <1>2, <1>3, <2>1, <2>4, RrKept
<1>7. ASSUME NEW p \in BagToSet(data), RecvInOrder(p) PROVE RrInv' /\ Grows /\ Added
  <2> DEFINE m == makeRRPacket(rr_seq_num, rbuf.expected + 1)
  <2>1. m \in Control /\ m.seq = rr_seq_num
    BY <1>1, <1>3, ControlType DEF makeRRPacket
  <2> HIDE DEF m
  <2>2. /\ rbuf'.expected = rbuf.expected + 1
        /\ rbuf'.hasLastControl = "set" /\ rbuf'.lastControlPacket = m
    BY <1>7 DEF RecvInOrder, Accept, RcvTypeOK, ReceiverBuffer, m
  <2>3. rr_seq_num' >= rr_seq_num
    BY <1>3, <1>7 DEF RecvInOrder
  <2>4. RrInv'
    BY <1>1, <1>3, <2>1, <2>2, <2>3 DEF RrInv, RcvTypeOK
  <2>5. BagToSet(ctl') \subseteq BagToSet(ctl) \cup {m}
    BY <1>7, <2>2, SendAdds DEF RecvInOrder
  <2> QED
    BY <2>1, <2>2, <2>3, <2>4, <2>5 DEF Replies
<1>8. CASE RrRetry
  <2>1. UNCHANGED rbuf /\ rpc = "RR_RETRY" /\ rr_seq_num' >= rr_seq_num
    BY <1>3, <1>8 DEF RrRetry
  <2>2. ctl' = ctl \/ ctl' \in sendtoErr(ctl, rbuf.lastControlPacket)
    BY <1>8 DEF RrRetry
  <2>3. BagToSet(ctl') \subseteq BagToSet(ctl) \cup {rbuf.lastControlPacket}
    BY <2>2, SendAdds
  <2>4. rbuf.hasLastControl = "set"
    BY <2>1 DEF RrInv
  <2>5. Added
    BY <1>3, <2>1, <2>3, <2>4 DEF Replies
  <2> QED
    BY <1>1, <1>2, <2>1, <2>5, RrKept
<1>9. ASSUME NEW p \in BagToSet(data), RecvFlushing(p) PROVE RrInv' /\ Grows /\ Added
  <2>1. PICK n \in 0 .. WindowSize : rbuf' = flushBuffer(rbuf, n)
    BY <1>9 DEF RecvFlushing
  <2>2. n \in Nat
    BY WindowAssumption
  <2>3. SameControl(rbuf, rbuf') /\ rbuf'.expected >= rbuf.expected
    <3>1. rbuf \in ReceiverBuffer
      BY DEF RcvTypeOK
    <3>2. /\ SameControl(rbuf, flushBuffer(rbuf, n))
          /\ flushBuffer(rbuf, n).expected = rbuf.expected + n + 1
      BY <2>2, <3>1, FlushType
    <3>3. SameControl(rbuf, rbuf')
      BY <2>1, <3>2 DEF SameControl
    <3>4. rbuf'.expected = rbuf.expected + n + 1
      BY <2>1, <3>2
    <3> QED
      BY <1>1, <2>2, <3>3, <3>4
  <2>4. UNCHANGED <<rr_seq_num, ctl>> /\ rpc' # "RR_RETRY"
    BY <1>9 DEF RecvFlushing, Return, counters
  <2> QED
    BY <1>1, <1>3, <2>3, <2>4, RrKept
<1>10. ASSUME SendSREJ, SameControl(rbuf, rbuf'), rbuf'.expected >= rbuf.expected,
              UNCHANGED rr_seq_num, rpc' # "RR_RETRY"
       PROVE  RrInv' /\ Grows /\ Added
  <2> DEFINE m == makeSREJPacket(srej_seq_num, rbuf.expected)
  <2>1. m \in Control /\ m.flag # RR
    BY <1>1, <1>3, ControlType DEF makeSREJPacket, SREJ, RR
  <2> HIDE DEF m
  <2>2. BagToSet(ctl') \subseteq BagToSet(ctl) \cup {m}
    BY <1>10, SendCtlAdds DEF SendSREJ, m
  <2> QED
    BY <1>1, <1>3, <1>10, <2>1, <2>2, RrKept DEF Replies
<1>11. ASSUME NEW p \in BagToSet(data), RecvBuffering(p) PROVE RrInv' /\ Grows /\ Added
  <2>1. SameControl(rbuf, rbuf') /\ rbuf'.expected >= rbuf.expected
    <3>1. rbuf \in ReceiverBuffer /\ p.seq \in Int /\ p.flag \in Nat
      BY DEF RcvTypeOK, DataIn
    <3>2. /\ SameControl(rbuf, Store(rbuf, p))
          /\ Store(rbuf, p).expected = rbuf.expected
      BY <3>1, StoreType
    <3>3. rbuf' = Store(rbuf, p)
      BY <1>11 DEF RecvBuffering
    <3>4. SameControl(rbuf, rbuf')
      BY <3>2, <3>3 DEF SameControl
    <3>5. rbuf'.expected = rbuf.expected
      BY <3>2, <3>3
    <3> QED
      BY <1>1, <3>4, <3>5
  <2> QED
    BY <1>10, <1>11, <2>1 DEF RecvBuffering
<1>12. CASE SrejRetry
  <2>1. /\ UNCHANGED <<rbuf, rr_seq_num>> /\ (SendSREJ \/ UNCHANGED ctl)
        /\ rpc' # "RR_RETRY"
    BY <1>12 DEF SrejRetry, Return
  <2> QED
    BY <1>1, <1>2, <1>3, <1>10, <2>1, RrKept
<1> QED
  BY <1>4, <1>5, <1>6, <1>7, <1>8, <1>9, <1>11, <1>12 DEF RcvNext

=============================================================================
