------------------------------- MODULE Window -------------------------------
(***************************************************************************)
(* window.c: the sender's window and the receiver's buffer, both a ring of *)
(* WindowSize slots indexed by sequence number % window size.              *)
(***************************************************************************)
EXTENDS Packets

Slots == 0 .. WindowSize - 1

IndexOf(s) == s % WindowSize

-----------------------------------------------------------------------------
(* SenderWindow.  A slot is a pointer: "null" once it was freed, "raw"     *)
(* while the malloc'ed packet was never filled in.                         *)

SenderSlot == [mem : {"null", "raw", "full"}, sequence_number : Int,
               data_size : Int, ACK : {0, 1}]

SenderWindow == [buffer : [Slots -> SenderSlot],
                 lower : Nat, upper : Nat, current : Nat]

NullSlot == [mem |-> "null", sequence_number |-> -1, data_size |-> 0, ACK |-> 0]
RawSlot  == [mem |-> "raw",  sequence_number |-> -1, data_size |-> 0, ACK |-> 0]

initSenderWindow == [buffer |-> [i \in Slots |-> RawSlot],
                     lower |-> 0, upper |-> WindowSize, current |-> 0]

\* Mutant: the packet is numbered after the counter was raised.
insertPacketIntoWindow_next(w, s, size) ==
  [w EXCEPT !.buffer = [@ EXCEPT ![IndexOf(s)] =
     [mem |-> "full", sequence_number |-> s + 1, data_size |-> size, ACK |-> 0]]]

\* Defined where the slot is not null; the C code dereferences NULL there.
insertPacketIntoWindow(w, s, size) ==
  [w EXCEPT !.buffer = [@ EXCEPT ![IndexOf(s)] =
     [mem |-> "full", sequence_number |-> s, data_size |-> size, ACK |-> 0]]]

acknowledgePacket(w, s) ==
  [w EXCEPT !.buffer = [i \in Slots |->
     IF i = IndexOf(s) /\ w.buffer[i].mem # "null"
     THEN [w.buffer[i] EXCEPT !.ACK = 1] ELSE w.buffer[i]]]

\* Free the packets from lower to last, then move both edges.
Slide(w, new_lower, last, new_upper) ==
  [w EXCEPT
     !.buffer = [i \in Slots |->
        IF \E s \in w.lower .. last : IndexOf(s) = i
        THEN NullSlot ELSE w.buffer[i]],
     !.lower = new_lower,
     !.upper = new_upper]

\* Mutant: the last packet the RR covers is not freed.
advanceSenderWindow_short(w, new_lower) ==
  IF new_lower > w.lower
  THEN Slide(w, new_lower, new_lower - 2, new_lower + WindowSize - 1) ELSE w

\* Mutant: the upper edge is one lower.
advanceSenderWindow_narrow(w, new_lower) ==
  IF new_lower > w.lower
  THEN Slide(w, new_lower, new_lower - 1, new_lower + WindowSize - 2) ELSE w

advanceSenderWindow(w, new_lower) ==
  IF new_lower > w.lower
  THEN Slide(w, new_lower, new_lower - 1, new_lower + WindowSize - 1) ELSE w

\* Mutant: the window closes one packet early.
canSendMorePackets_early(w) == w.current < w.upper - 1

canSendMorePackets(w) == w.current < w.upper

-----------------------------------------------------------------------------
(* ReceiverBuffer.  lastControlPacket and hasLastControl are malloc'ed and *)
(* not initialised.                                                        *)

ReceiverSlot == [sequence_number : Int, valid : {0, 1}]

ReceiverBuffer == [buffer : [Slots -> ReceiverSlot],
                   expected : Nat, highest : Int,
                   hasLastControl : {"uninitialised", "set"},
                   lastControlPacket : Control]

EmptySlot == [sequence_number |-> -1, valid |-> 0]

\* memory is what malloc left where the control packet will be.
initReceiverBuffer(memory) == [buffer |-> [i \in Slots |-> EmptySlot],
                               expected |-> 0, highest |-> -1,
                               hasLastControl |-> "uninitialised",
                               lastControlPacket |-> memory]

\* highest is an int compared with a uint32_t.
raiseHighest(rb, s) == IF s > U32(rb.highest) THEN [rb EXCEPT !.highest = s] ELSE rb

insertReceiverPacket(rb, s) ==
  IF s > U32(rb.expected + WindowSize)
  THEN rb
  ELSE raiseHighest([rb EXCEPT !.buffer = [@ EXCEPT ![IndexOf(s)] =
         [sequence_number |-> s, valid |-> 1]]], s)

holds(rb, s) == /\ rb.buffer[IndexOf(s)].sequence_number = s
                /\ rb.buffer[IndexOf(s)].valid = 1

\* flushBuffer steps over expected, then flushes packets until one is missing;
\* n is how many it finds.
flushes(rb, n) == /\ \A j \in 1..n : holds(rb, rb.expected + j)
                  /\ ~ holds(rb, rb.expected + n + 1)

\* The flushed slots are emptied, expected is set to e.
Flush(rb, n, e) ==
  [rb EXCEPT
     !.buffer = [i \in Slots |->
        IF \E j \in 1..n : IndexOf(rb.expected + j) = i
        THEN EmptySlot ELSE rb.buffer[i]],
     !.expected = e]

\* Mutant: expected is not raised for the packet that was missing.
flushBuffer_stays(rb, n) == Flush(rb, n, rb.expected + n)

\* Mutant: expected is raised once more.
flushBuffer_skips(rb, n) == Flush(rb, n, rb.expected + n + 2)

flushBuffer(rb, n) == Flush(rb, n, rb.expected + n + 1)
=============================================================================
