------------------------- MODULE OpenReceiverProofs -------------------------
(***************************************************************************)
(* rcopy's data state against any sender: the theorems, for every window,  *)
(* buffer and file size, every channel bound and every number of retries.  *)
(***************************************************************************)
EXTENDS OpenReceiver, ReceiverProofs

IInv == RcvTypeOK /\ DataIn /\ OutputOrdered /\ SrejInv

\* The inductive invariant holds at first.
LEMMA IInvInit == Init => IInv
<1> SUFFICES ASSUME Init PROVE IInv
  OBVIOUS
<1>1. RcvTypeOK
  BY RcvTypeInit DEF Init
<1>2. DataIn
  BY NothingSent DEF Init, NetInit, DataIn
<1>3. rpc = "OPEN" /\ output = <<>> /\ srejs = 0
  BY DEF Init, RcvInit
<1>4. OutputOrdered
  BY <1>3 DEF OutputOrdered
<1>5. SrejInv
  BY <1>3, RetryAssumption DEF SrejInv
<1> QED
  BY <1>1, <1>2, <1>4, <1>5 DEF IInv

\* Everything the peer sends is a data PDU, or one of the exchange.
LEMMA PeerSendsPackets == DataIn /\ PeerSend => DataIn'
<1> SUFFICES ASSUME DataIn, PeerSend PROVE DataIn'
  OBVIOUS
<1>1. PICK p \in PeerPacket : data' \in sendtoErr(data, p)
  BY DEF PeerSend
<1>2. p.seq \in Int /\ p.flag \in Nat
  <2>1. CASE \E s \in 0 .. LastSeq : p = makeDataPacket(s, ChunkLen(s))
    BY <2>1, LastSeqAssumption DEF makeDataPacket, DATA
  <2>2. CASE \E s \in LastSeq .. LastSeq + 1 : p = [seq |-> s, flag |-> EOF, len |-> 1]
    BY <2>2, LastSeqAssumption DEF EOF
  <2>3. CASE \E f \in LateFlags : p = makeExchangePacket(f)
    BY <2>3, LateAssumption DEF makeExchangePacket, ExchangeFlags
  <2> QED
    BY <2>1, <2>2, <2>3 DEF PeerPacket
<1>3. BagToSet(data') \subseteq BagToSet(data) \cup {p}
  BY <1>1, SendAdds
<1> QED
  BY <1>2, <1>3 DEF DataIn

\* A step of the peer leaves rcopy's variables, and so its properties, alone.
LEMMA StutterKeeps ==
  ASSUME RcvTypeOK, OutputOrdered, SrejInv, UNCHANGED rcvVars
  PROVE  RcvTypeOK' /\ OutputOrdered' /\ SrejInv' /\ Decided
  BY DEF RcvTypeOK, OutputOrdered, SrejInv, Decided, rcvVars, counters

\* Every step keeps the inductive invariant, and decides chunks or none.
LEMMA IInvStep == IInv /\ [Next]_vars => IInv' /\ (Decides \/ Decided)
<1> SUFFICES ASSUME IInv, [Next]_vars PROVE IInv' /\ (Decides \/ Decided)
  OBVIOUS
<1> USE DEF IInv
<1>1. CASE RcvNext
  <2>1. RcvTypeOK' /\ SrejInv' /\ (Decides \/ Decided)
    BY <1>1, RcvTypeStep, SrejStep, RcvDecides
  <2>2. OutputOrdered'
    BY <2>1, OrderedStep
  <2>3. DataIn'
    BY <1>1, RcvTakes DEF DataIn
  <2> QED
    BY <2>1, <2>2, <2>3
<1>2. CASE PeerSend /\ UNCHANGED rcvVars
  BY <1>2, PeerSendsPackets, StutterKeeps
<1>3. CASE PeerTake /\ UNCHANGED rcvVars
  BY <1>3, StutterKeeps DEF PeerTake, DataIn
<1>4. CASE UNCHANGED vars
  BY <1>4, StutterKeeps DEF vars, netVars, DataIn
<1> QED
  BY <1>1, <1>2, <1>3, <1>4 DEF Next

\* The inductive invariant holds always.
LEMMA IInvAlways == Spec => []IInv
  BY IInvInit, IInvStep, PTL DEF Spec

\* Whatever sends to it, rcopy writes chunks in ascending order, none twice,
\* and below the packet it expects (doInOrderState, doFlushingState).
THEOREM OpenOutputOrdered == Spec => []OutputOrdered
<1>1. IInv => OutputOrdered
  BY DEF IInv
<1> QED
  BY <1>1, IInvAlways, PTL

\* Whatever sends to it, rcopy makes at most SrejRetries SREJs for each packet it
\* expects (doBufferState, over all its visits).
THEOREM OpenSrejBudget == Spec => []SrejBudget
<1>1. IInv => SrejBudget
  BY SrejBound DEF IInv
<1> QED
  BY <1>1, IInvAlways, PTL

\* Whatever sends to it, rcopy implements OrderedCopy: the output file only
\* grows, and by chunks in ascending order that were not decided before.
THEOREM OpenImplementsOrderedCopy == Spec => ImplementsOrderedCopy
<1>1. Init => Copy!Init
  BY DEF Init, RcvInit, initReceiverBuffer, Copy!Init, Written
<1>2. IInv /\ [Next]_vars => [Copy!Decide]_<<Written, rbuf.expected>>
  BY IInvStep, DecideRefines DEF IInv
<1> QED
  BY <1>1, <1>2, IInvAlways, PTL DEF Spec, Copy!Spec, ImplementsOrderedCopy
=============================================================================
