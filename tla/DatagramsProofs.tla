-------------------------- MODULE DatagramsProofs ---------------------------
(***************************************************************************)
(* What a send and a receive may do to the bag of datagrams under way.     *)
(***************************************************************************)
EXTENDS Datagrams, TLAPS

\* A send adds at most the PDU that is sent.
LEMMA SendAdds ==
  ASSUME NEW chan, NEW m, NEW after \in sendtoErr(chan, m)
  PROVE  BagToSet(after) \subseteq BagToSet(chan) \cup {m}
<1>1. after = chan \/ after = chan (+) SetToBag({m})
  BY DEF sendtoErr
<1>2. BagToSet(chan (+) SetToBag({m})) \subseteq BagToSet(chan) \cup {m}
  BY DEF BagToSet, SetToBag, (+)
<1> QED
  BY <1>1, <1>2

\* A receive adds nothing.
LEMMA ReceiveTakes ==
  ASSUME NEW chan, NEW m
  PROVE  BagToSet(recvfrom(chan, m)) \subseteq BagToSet(chan)
  BY DEF recvfrom, BagToSet, SetToBag, (-)

\* Nothing is under way in an empty bag.
LEMMA NothingSent ==
  /\ BagToSet(EmptyBag) = {} /\ IsABag(EmptyBag)
  /\ \A m : Copies(m, EmptyBag) = 0
  BY DEF EmptyBag, SetToBag, BagToSet, IsABag, Copies, BagIn

\* A datagram is under way when there is a copy of it.
LEMMA CopiesType ==
  ASSUME NEW chan, IsABag(chan), NEW m
  PROVE  Copies(m, chan) \in Nat /\ (m \in BagToSet(chan) <=> Copies(m, chan) >= 1)
  BY DEF Copies, IsABag, BagIn, BagToSet

\* A send adds one copy of what is sent, or none.
LEMMA SendCounts ==
  ASSUME NEW chan, IsABag(chan), NEW m, NEW after \in sendtoErr(chan, m)
  PROVE  /\ IsABag(after)
         /\ \A x : x # m => Copies(x, after) = Copies(x, chan)
         /\ Copies(m, after) \in {Copies(m, chan), Copies(m, chan) + 1}
<1>1. CASE after = chan
  BY <1>1
<1>2. CASE after = chan (+) SetToBag({m})
  <2>1. /\ DOMAIN after = DOMAIN chan \cup {m}
        /\ \A x \in DOMAIN after : after[x] = (IF x \in DOMAIN chan THEN chan[x] ELSE 0)
                                               + (IF x = m THEN 1 ELSE 0)
        /\ after = [x \in DOMAIN after |-> after[x]]
    BY <1>2 DEF SetToBag, (+)
  <2>2. \A x \in DOMAIN chan : chan[x] \in Nat /\ chan[x] > 0
    BY DEF IsABag
  <2>3. IsABag(after)
    BY <2>1, <2>2 DEF IsABag
  <2> QED
    BY <2>1, <2>2, <2>3 DEF Copies, BagIn, BagToSet
<1> QED
  BY <1>1, <1>2 DEF sendtoErr

\* A receive takes one copy of what is received.
LEMMA ReceiveCounts ==
  ASSUME NEW chan, IsABag(chan), NEW m \in BagToSet(chan)
  PROVE  /\ IsABag(recvfrom(chan, m))
         /\ \A x : x # m => Copies(x, recvfrom(chan, m)) = Copies(x, chan)
         /\ Copies(m, recvfrom(chan, m)) = Copies(m, chan) - 1
<1> DEFINE after == recvfrom(chan, m)
           left(x) == IF x = m THEN chan[x] - 1 ELSE chan[x]
<1>1. \A x \in DOMAIN chan : chan[x] \in Nat /\ chan[x] > 0
  BY DEF IsABag
<1>2. /\ DOMAIN after = {x \in DOMAIN chan : left(x) > 0}
      /\ \A x \in DOMAIN after : after[x] = left(x)
      /\ after = [x \in DOMAIN after |-> after[x]]
  BY DEF recvfrom, SetToBag, (-)
<1>3. m \in DOMAIN chan
  BY DEF BagToSet
<1> HIDE DEF after
<1>4. IsABag(after)
  BY <1>1, <1>2 DEF IsABag
<1>5. \A x : x # m => Copies(x, after) = Copies(x, chan)
  BY <1>1, <1>2 DEF Copies, BagIn, BagToSet
<1>6. Copies(m, after) = Copies(m, chan) - 1
  BY <1>1, <1>2, <1>3 DEF Copies, BagIn, BagToSet
<1> QED
  BY <1>4, <1>5, <1>6 DEF after
=============================================================================
