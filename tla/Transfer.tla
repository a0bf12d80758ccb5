------------------------------ MODULE Transfer ------------------------------
(***************************************************************************)
(* One file transfer: the server's child (Sender) and rcopy (Receiver)     *)
(* over the two directions of the network, from the moment both entered    *)
(* their data states.                                                      *)
(***************************************************************************)
EXTENDS Sender, Receiver

vars == <<sndVars, rcvVars, netVars>>

Init == NetInit /\ SndInit /\ RcvInit

SndStep == SndNext /\ UNCHANGED rcvVars
RcvStep == RcvNext /\ UNCHANGED sndVars

\* Both processes are gone: the only way a run may stop.
Ended == SndEnded /\ RcvEnded /\ UNCHANGED vars

Next == SndStep \/ RcvStep \/ Ended

Spec == Init /\ [][Next]_vars

\* Each process is scheduled: a poll that can return or time out does.
FairSpec == Spec /\ WF_vars(SndStep) /\ WF_vars(RcvStep)

-----------------------------------------------------------------------------
(* Type correctness.                                                       *)

\* Every variable of the transfer stays within its type: the two programs'
\* locals and globals and the PDUs in both directions.
TypeOK ==
  /\ spc \in SndStates
  /\ window \in SenderWindow
  /\ data_sequence_number \in Nat /\ first \in Nat
  /\ rpc \in RcvStates
  /\ subState \in SubStates
  /\ rbuf \in ReceiverBuffer
  /\ rr_seq_num \in Nat
  /\ srej_seq_num \in Nat /\ srejs \in Nat
  /\ retries \in Nat
  /\ eofPending \in BOOLEAN
  /\ attempts \in Nat
  /\ output \in Seq(Chunk)
  /\ junk \in Control
  /\ BagToSet(data) \subseteq DataPacket
  /\ BagToSet(ctl) \subseteq Control

-----------------------------------------------------------------------------
(* Safety.                                                                 *)

\* Every data PDU under way carries a chunk the child has read and numbered:
\* no resend (after an SREJ with any number, or a timeout) picks a slot of the
\* ring that was never filled.  A child that inherits a number above 1 leaves
\* such slots, and its resends do pick them.
PacketsGenuine ==
  first <= 1 => \A p \in BagToSet(data) : p.seq \in first .. data_sequence_number - 1

\* rcopy never expects, nor keeps in its buffer, a packet beyond the ones the
\* child has sent, though flushBuffer raises expected without looking at what
\* was received (again for a child that inherits 0 or 1).
ExpectedWithinSent ==
  first <= 1 =>
    /\ rbuf.expected <= data_sequence_number
    /\ \A i \in Slots : rbuf.buffer[i].sequence_number < data_sequence_number

\* A packet the ring still holds is not acknowledged, neither marked so nor
\* passed by lower: every RR frees the slot it marks, and a late, repeated or
\* forged RR finds that slot freed.  So the resend loop skips no packet it
\* should send, and never resends one lower has passed.
HeldIsUnacked ==
  \A i \in Slots :
    window.buffer[i].mem = "full" =>
      window.buffer[i].ACK = 0 /\ window.buffer[i].sequence_number >= window.lower

\* What the child counts as acknowledged rcopy has done with: written, or passed
\* over for good by flushBuffer.  Each send of an RR that failed lets the child
\* be wrong by one packet; an RR that was never made, but found in unwritten
\* memory and resent, by any number.
AckedWasDecided == junk.flag # RR => window.lower <= rbuf.expected + rr_seq_num

\* No step moves an edge of the child's window or rcopy's expected back: a late
\* RR does not reopen what a later one has passed, nor does the first RR close
\* the window, though it counts upper from another edge than the start does.
NeverBack ==
  [][/\ window.lower <= window'.lower /\ window.upper <= window'.upper
     /\ rbuf.expected <= rbuf'.expected]_vars

-----------------------------------------------------------------------------
(* Liveness.                                                               *)

\* Both programs end, or the child waits in step 3 for ever, and it does that
\* only behind a full window: a file of at most one window makes both end, and
\* rcopy never outlives a child that is gone.  The child may also stay in step 2
\* when rcopy resends an SREJ it found in unwritten memory: the packet that
\* answers it is an old one, and makes rcopy resend it again.
EndsOrHangs ==
  \/ <>(SndEnded /\ RcvEnded)
  \/ <>[](/\ data_sequence_number > WindowSize
          /\ spc = "WAIT" \/ (spc = "DRAIN" /\ junk.flag = SREJ))
=============================================================================
