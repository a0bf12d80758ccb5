---------------------------- MODULE OpenReceiver ----------------------------
(***************************************************************************)
(* rcopy's data state against any sender that keeps to the README's PDUs:  *)
(* data packets numbered up to LastSeq, each sent as often and in whatever *)
(* order the sender likes, and a packet with the EOF flag, which may be    *)
(* the last data packet or a packet of its own (README:294).  The child of *)
(* this repository never sends that flag; rcopy handles it.  A second      *)
(* child's PDUs of the filename exchange may come late.                    *)
(***************************************************************************)
EXTENDS Receiver

CONSTANTS LastSeq,   \* number of the last data packet
          LateFlags  \* the PDUs of the exchange that may come late

ASSUME LastSeqAssumption == LastSeq \in Nat /\ LastSeq < NumChunks
ASSUME LateAssumption == LateFlags \subseteq ExchangeFlags

PeerPacket == {makeDataPacket(s, ChunkLen(s)) : s \in 0 .. LastSeq}
                \cup {[seq |-> s, flag |-> EOF, len |-> 1] : s \in LastSeq .. LastSeq + 1}
                \cup {makeExchangePacket(f) : f \in LateFlags}

\* The peer sends anything it may, and reads RR and SREJ PDUs as it likes.
PeerSend == /\ \E p \in PeerPacket : data' \in sendtoErr(data, p)
            /\ UNCHANGED ctl
PeerTake == /\ \E c \in BagToSet(ctl) : ctl' = recvfrom(ctl, c)
            /\ UNCHANGED data

vars == <<rcvVars, netVars>>

Init == NetInit /\ RcvInit

Next == RcvNext \/ ((PeerSend \/ PeerTake) /\ UNCHANGED rcvVars)

Spec == Init /\ [][Next]_vars

FairSpec == Spec /\ WF_vars(RcvNext)

-----------------------------------------------------------------------------
\* A packet with the EOF flag that opens one of the send loops still ends
\* GET_DATA, though the flag is looked at only after the loop: each loop is
\* bounded even when the peer never stops sending.
EofEnds == eofPending /\ rpc \in {"RR_RETRY", "SREJ_WAIT"} ~> RcvEnded
=============================================================================
