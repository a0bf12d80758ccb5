----------------------------- MODULE Datagrams ------------------------------
(***************************************************************************)
(* libcpe464 on top of UDP.  What is under way to a socket is a bag:       *)
(* datagrams overtake one another, the same PDU may be under way twice.    *)
(* A datagram is lost when it is sent: sendtoErr drops it, or the path has *)
(* no room for it (ChannelCap names that bound).                           *)
(***************************************************************************)
EXTENDS Integers, Bags

CONSTANTS
  ChannelCap,   \* datagrams that can be under way to one socket
  SendMayDrop,  \* error-rate above 0 on this run
  SendMayFail   \* sendto may return -1 on this run

ASSUME DatagramsAssumption ==
  /\ ChannelCap \in Nat \ {0}
  /\ SendMayDrop \in BOOLEAN
  /\ SendMayFail \in BOOLEAN

\* errorDrop::run in its default mode drops the message it is run on.
errorDrop == "dropped"

\* The cases setUserMode_ErrDrop adds for DROP_ON; FLIP_OFF adds none.
ErrorCases == IF SendMayDrop THEN {errorDrop} ELSE {}

\* A message stays as it is, or a random case is run on it.
processEvents == {"intact"} \cup ErrorCases

\* What may be under way after sendtoErr returned the length it was given.
sendtoErr(chan, m) ==
  {IF verdict = errorDrop \/ BagCardinality(chan) >= ChannelCap
   THEN chan ELSE chan (+) SetToBag({m}) : verdict \in processEvents}

\* recvfrom takes one datagram.
recvfrom(chan, m) == chan (-) SetToBag({m})

\* How often a datagram is under way.
Copies(m, chan) == IF BagIn(m, chan) THEN chan[m] ELSE 0
=============================================================================
