------------------------------- MODULE Claims -------------------------------
(***************************************************************************)
(* What the README and the comments of the code say of the transfer where  *)
(* the code does something else.  Each claim is the property of one run of *)
(* Transfer, and each of these runs ends in a counterexample.              *)
(***************************************************************************)
EXTENDS Transfer

\* README:234, FLUSHING: the missing packet is written when it arrives, so the
\* output is the file's first chunks.  flushBuffer steps over it.
OutputIsPrefix == \A i \in 1 .. Len(output) : output[i].seq = i - 1

\* README:46, 54-55: the window keeps what was sent and is not acknowledged, and
\* an SREJ makes the server resend the missing packet.  canSendMorePackets lets
\* one packet more into the ring than it has slots, so packet 0 is overwritten
\* before rcopy's first SREJ can ask for it, and another packet is resent.
SrejResendsMissing ==
  [][\A c \in BagToSet(ctl) :
       /\ c.flag = SREJ
       /\ ctl' = recvfrom(ctl, c)
       /\ BagCardinality(data') > BagCardinality(data)
       => \E p \in BagToSet(data') : p.seq = c.ref /\ data' = data (+) SetToBag({p})]_vars

\* README:158-160, 203-206: the RR frees up space in the window, and the closed
\* window sends again.  advanceSenderWindow sets upper one below what the RR for
\* packet 0 needs for that, and the window stays closed.
RRFreesSpace == [][window'.lower > window.lower => canSendMorePackets(window')]_vars
=============================================================================
