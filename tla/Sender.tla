------------------------------- MODULE Sender -------------------------------
(***************************************************************************)
(* doSendDataState of the server's child: fill the window, drain RR and    *)
(* SREJ PDUs, wait while the window is closed, and startFSM's last two     *)
(* states.  spc is the loop the child is in:                               *)
(*   OPEN   about to open the file         FILL   step 1                   *)
(*   DRAIN  step 2, pollCall(0)            WAIT   step 3, pollCall(1000)   *)
(*   WAIT_ON_EOF_ACK  startFSM's state     EXITED exit(1) was called       *)
(*   DONE   the state machine was left     CRASHED  NULL was dereferenced  *)
(***************************************************************************)
EXTENDS Conversation, Window

CONSTANT FirstNumbers   \* what data_sequence_number may be when it starts

ASSUME FirstAssumption == FirstNumbers \subseteq Nat /\ FirstNumbers # {}

VARIABLES spc, window, data_sequence_number,
          first   \* the number the child's first packet gets

sndVars == <<spc, window, data_sequence_number, first>>

SndStates == {"OPEN", "FILL", "DRAIN", "WAIT", "WAIT_ON_EOF_ACK", "EXITED",
              "DONE", "CRASHED"}

\* The child has left doSendDataState for good.
SndEnded == spc \in {"EXITED", "DONE", "CRASHED"}

\* data_sequence_number is a global that nothing resets.  It is 0 in a child of
\* the main server; a child whose send failed is back in main's loop, and one
\* that it forks there goes on from the number its parent has reached.
SndInit == /\ spc = "OPEN"
           /\ window = initSenderWindow
           /\ first \in FirstNumbers
           /\ data_sequence_number = first

-----------------------------------------------------------------------------
(* Opening the file and allocating the window.                             *)

OpenFile == /\ spc = "OPEN"
            /\ spc' \in {"FILL", "DONE"}    \* DONE: fopen or malloc failed
            /\ UNCHANGED <<window, data_sequence_number, netVars>>

-----------------------------------------------------------------------------
(* Step 1: fill the window while it is open.                               *)

SlotOf(s) == window.buffer[IndexOf(s)]

\* The chunk packet s carries: the file is read from its start.
ChunkOf(s) == s - first

\* insertPacketIntoWindow, and current set to the packet that is sent.
Fill(s) == [insertPacketIntoWindow(window, s, ChunkLen(ChunkOf(s)) + HeaderLen)
              EXCEPT !.current = s]

FillSend ==
  LET s == data_sequence_number IN
  /\ spc = "FILL" /\ canSendMorePackets(window)
  /\ ChunkOf(s) < NumChunks
  /\ SlotOf(s).mem # "null"
  /\ window' = Fill(s)
  /\ \/ /\ data' \in sendtoErr(data, makeDataPacket(s, ChunkLen(ChunkOf(s))))
        /\ data_sequence_number' = s + 1
        /\ UNCHANGED spc
     \/ /\ SendMayFail
        /\ spc' = "DONE"
        /\ UNCHANGED <<data, data_sequence_number>>
  /\ UNCHANGED ctl

\* insertPacketIntoWindow reports the NULL slot and dereferences it.
FillCrash == /\ spc = "FILL" /\ canSendMorePackets(window)
             /\ ChunkOf(data_sequence_number) < NumChunks
             /\ SlotOf(data_sequence_number).mem = "null"
             /\ spc' = "CRASHED"
             /\ UNCHANGED <<window, data_sequence_number, netVars>>

\* getDataChunk read nothing.  No EOF PDU is sent.
FillEOF == /\ spc = "FILL" /\ canSendMorePackets(window)
           /\ ChunkOf(data_sequence_number) >= NumChunks
           /\ spc' = "WAIT_ON_EOF_ACK"
           /\ UNCHANGED <<window, data_sequence_number, netVars>>

FillClosed == /\ spc = "FILL" /\ ~ canSendMorePackets(window)
              /\ spc' = "DRAIN"
              /\ UNCHANGED <<window, data_sequence_number, netVars>>

-----------------------------------------------------------------------------
(* Steps 2 and 3: RR and SREJ PDUs.                                        *)

\* Mutant: the outer machine's state is returned.
Reenter_outer(w) == IF canSendMorePackets(w) THEN "FILL" ELSE "SEND_DATA"

\* The outer loop goes back to step 1 when step 3's condition fails.
Reenter(w) == IF canSendMorePackets(w) THEN "FILL" ELSE "WAIT"

Listening == spc \in {"DRAIN", "WAIT"}

\* One resend of a slot: data_size already counts the header, so the datagram
\* is HeaderLen bytes longer than the packet was.  A slot that was never filled
\* has any length and bytes: the send fails, or something goes out.
Resend(slot) ==
  \/ /\ slot.mem = "full"
     /\ data' \in sendtoErr(data, makeDataPacket(slot.sequence_number, slot.data_size))
  \/ SendMayFail /\ UNCHANGED data
  \/ /\ slot.mem = "raw"
     /\ data' \in {data} \cup UNION {sendtoErr(data, p) : p \in RawPacket}

\* What dereferences NULL, or gives sendtoErr a length it does not survive.
Fatal(slot) == slot.mem # "full"

HandleRR(c) ==
  /\ Listening
  /\ c.flag = RR
  /\ ctl' = recvfrom(ctl, c)
  /\ LET s == getSequenceFromBuffer(c) IN
       window' = advanceSenderWindow(acknowledgePacket(window, s), s + 1)
  /\ spc' = IF spc = "WAIT" THEN Reenter(window') ELSE spc
  /\ UNCHANGED <<data, data_sequence_number>>

HandleSREJ(c) ==
  LET slot == SlotOf(getSequenceFromBuffer(c)) IN
  /\ Listening
  /\ c.flag = SREJ
  /\ ctl' = recvfrom(ctl, c)
  /\ \/ /\ slot.mem # "null"
        /\ Resend(slot)
        /\ UNCHANGED spc
     \/ /\ Fatal(slot)
        /\ spc' = "CRASHED"
        /\ UNCHANGED data
  /\ UNCHANGED <<window, data_sequence_number>>

HandleOther(c) ==
  /\ Listening
  /\ c.flag \notin {RR, SREJ}
  /\ ctl' = recvfrom(ctl, c)
  /\ UNCHANGED <<spc, window, data_sequence_number, data>>

\* pollCall(0) found nothing; an empty poll says nothing about what is under way.
Drained == /\ spc = "DRAIN"
           /\ spc' = Reenter(window)
           /\ UNCHANGED <<window, data_sequence_number, netVars>>

\* pollCall(1000) timed out: resend the lowest packet held and not acknowledged.
\* The ACK of a slot that was never filled is anything.
Unacked(s) == SlotOf(s).mem = "full" /\ SlotOf(s).ACK = 0
Raw(s)     == SlotOf(s).mem = "raw"

TimeoutResend ==
  /\ spc = "WAIT"
  /\ \E s \in window.lower .. window.upper :
       /\ Unacked(s) \/ Raw(s)
       /\ \A t \in window.lower .. s - 1 : ~ Unacked(t)
       /\ \/ Resend(SlotOf(s)) /\ UNCHANGED spc
          \/ Fatal(SlotOf(s)) /\ spc' = "CRASHED" /\ UNCHANGED data
  /\ UNCHANGED <<window, data_sequence_number, ctl>>

TimeoutNothing ==
  /\ spc = "WAIT"
  /\ \A s \in window.lower .. window.upper : ~ Unacked(s)
  /\ UNCHANGED <<spc, window, data_sequence_number, netVars>>

\* startFSM's case WAIT_ON_EOF_ACK: exit(1).
ExitOnEof == /\ spc = "WAIT_ON_EOF_ACK"
             /\ spc' = "EXITED"
             /\ UNCHANGED <<window, data_sequence_number, netVars>>

SndNext == /\ \/ OpenFile
              \/ FillSend \/ FillCrash \/ FillEOF \/ FillClosed
              \/ \E c \in BagToSet(ctl) :
                   HandleRR(c) \/ HandleSREJ(c) \/ HandleOther(c)
              \/ Drained
              \/ TimeoutResend \/ TimeoutNothing
              \/ ExitOnEof
           /\ UNCHANGED first
=============================================================================
