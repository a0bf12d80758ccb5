--------------------------- MODULE PollSetProofs ---------------------------
(***************************************************************************)
(* For any size of the first table and any numbers socket() returns: what  *)
(* pollCall answers, and that poll stays within the table.                 *)
(***************************************************************************)
EXTENDS PollSet, TLAPS

\* A slot watches its own socket while that is open, and nothing else.
Slot(i) == IF i \in open THEN [fd |-> i, events |-> POLLIN] ELSE Unused

TableInv ==
  /\ currentPollSetSize \in Nat \ {0}
  /\ pollFileDescriptors = [i \in 0 .. currentPollSetSize - 1 |-> Slot(i)]
  /\ maxFileDescriptor \in 0 .. currentPollSetSize

OpenInv ==
  /\ open \subseteq Sockets
  /\ \A s \in open : s < maxFileDescriptor
  /\ readable \subseteq open

IInv == TableInv /\ OpenInv /\ LowestReadable

-----------------------------------------------------------------------------
\* A table of n slots has the size n.
LEMMA SlotsCounted ==
  ASSUME NEW n \in Nat \ {0}, NEW table, DOMAIN table = 0 .. n - 1
  PROVE  Max(DOMAIN table) + 1 = n
<1>1. Max(0 .. n - 1) = n - 1
  BY DEF Max
<1> QED
  BY <1>1

LEMMA InitTable == Init => IInv
<1> SUFFICES ASSUME Init PROVE IInv
  OBVIOUS
<1>1. currentPollSetSize = POLL_SET_SIZE
  BY SlotsCounted, PollAssumption DEF Init, currentPollSetSize
<1>2. TableInv
  BY <1>1, PollAssumption DEF Init, TableInv, Slot
<1>3. OpenInv /\ LowestReadable
  BY DEF Init, OpenInv, LowestReadable
<1> QED
  BY <1>2, <1>3 DEF IInv

\* Adding a socket, in the table there is or in a larger one.
LEMMA AddKeeps ==
  ASSUME IInv, NEW s \in Sockets, addToPollSet(s) PROVE IInv'
<1> DEFINE size  == IF s >= currentPollSetSize THEN s + POLL_SET_SIZE ELSE currentPollSetSize
           table == IF s >= currentPollSetSize THEN growPollSet(s + POLL_SET_SIZE)
                    ELSE pollFileDescriptors
<1>1. s \in Nat /\ currentPollSetSize \in Nat \ {0} /\ size \in Nat \ {0} /\ s < size
      /\ currentPollSetSize <= size
  BY PollAssumption DEF IInv, TableInv
<1>2. table = [i \in 0 .. size - 1 |-> Slot(i)]
  <2>1. CASE s < currentPollSetSize
    BY <1>1, <2>1 DEF IInv, TableInv
  <2>2. ASSUME s >= currentPollSetSize PROVE table = [i \in 0 .. size - 1 |-> Slot(i)]
    <3>1. table = [i \in 0 .. size - 1 |->
                     IF i < currentPollSetSize THEN pollFileDescriptors[i] ELSE Unused]
      BY <2>2 DEF growPollSet
    <3>2. ASSUME NEW i \in 0 .. size - 1
          PROVE  Slot(i) = IF i < currentPollSetSize THEN pollFileDescriptors[i] ELSE Unused
      <4>1. CASE i < currentPollSetSize
        BY <1>1, <4>1 DEF IInv, TableInv
      <4>2. CASE ~(i < currentPollSetSize)
        BY <1>1, <4>2 DEF IInv, TableInv, OpenInv, Slot
      <4> QED
        BY <4>1, <4>2
    <3> QED
      BY <3>1, <3>2
  <2> QED
    BY <1>1, <2>1, <2>2
<1>3. /\ pollFileDescriptors' = [table EXCEPT ![s] = [fd |-> s, events |-> POLLIN]]
      /\ open' = open \cup {s}
      /\ maxFileDescriptor' = Highest(s)
      /\ answer' = Asleep /\ readable' = readable
  BY DEF addToPollSet
<1>4. pollFileDescriptors' = [i \in 0 .. size - 1 |-> Slot(i)']
  BY <1>1, <1>2, <1>3 DEF Slot
<1>5. currentPollSetSize' = size
  BY <1>1, <1>4, SlotsCounted DEF currentPollSetSize
<1>6. maxFileDescriptor' \in 0 .. size /\ s < maxFileDescriptor'
      /\ maxFileDescriptor <= maxFileDescriptor'
  BY <1>1, <1>3 DEF Highest, IInv, TableInv
<1>7. TableInv'
  BY <1>1, <1>4, <1>5, <1>6 DEF TableInv
<1>8. OpenInv'
  BY <1>1, <1>3, <1>6, PollAssumption DEF IInv, OpenInv, TableInv
<1>9. LowestReadable'
  BY <1>3 DEF LowestReadable
<1> QED
  BY <1>7, <1>8, <1>9 DEF IInv

\* Removing one frees its slot and no other.
LEMMA RemoveKeeps ==
  ASSUME IInv, NEW s \in Sockets, removeFromPollSet(s) PROVE IInv'
<1> DEFINE n == currentPollSetSize
<1>1. n \in Nat \ {0} /\ s \in 0 .. n - 1
  BY PollAssumption DEF IInv, TableInv, removeFromPollSet
<1>2. /\ pollFileDescriptors' = [pollFileDescriptors EXCEPT ![s] = Unused]
      /\ open' = open \ {s} /\ readable' = readable \ {s}
      /\ answer' = Asleep /\ maxFileDescriptor' = maxFileDescriptor
  BY DEF removeFromPollSet
<1>3. pollFileDescriptors' = [i \in 0 .. n - 1 |-> Slot(i)']
  BY <1>1, <1>2 DEF IInv, TableInv, Slot
<1>4. currentPollSetSize' = n
  BY <1>1, <1>3, SlotsCounted DEF currentPollSetSize
<1>5. TableInv'
  BY <1>1, <1>2, <1>3, <1>4 DEF IInv, TableInv
<1>6. OpenInv' /\ LowestReadable'
  BY <1>2 DEF IInv, OpenInv, LowestReadable
<1> QED
  BY <1>5, <1>6 DEF IInv

\* With standard input open, poll reports the readable sockets and no other slot.
LEMMA ReportsReadable ==
  ASSUME TableInv, OpenInv, stdin = "open"
  PROVE  {i \in 0 .. maxFileDescriptor - 1 : revents(pollFileDescriptors[i])} = readable
<1>1. ASSUME NEW i \in 0 .. maxFileDescriptor - 1
      PROVE  revents(pollFileDescriptors[i]) <=> i \in readable
  <2>1. pollFileDescriptors[i] = Slot(i)
    BY DEF TableInv
  <2>2. CASE i \in open
    BY <2>1, <2>2, PollAssumption DEF OpenInv, Slot, revents, POLLIN
  <2>3. CASE i \notin open
    BY <2>1, <2>3 DEF OpenInv, Slot, Unused, revents, POLLIN
  <2> QED
    BY <2>2, <2>3
<1>2. readable \subseteq 0 .. maxFileDescriptor - 1
  BY PollAssumption DEF TableInv, OpenInv
<1> QED
  BY <1>1, <1>2

LEMMA StepKeeps == IInv /\ [Next]_vars => IInv'
<1> SUFFICES ASSUME IInv, [Next]_vars PROVE IInv'
  OBVIOUS
<1>1. ASSUME UNCHANGED <<pollFileDescriptors, maxFileDescriptor, open>> PROVE TableInv'
  BY <1>1 DEF IInv, TableInv, currentPollSetSize, Slot
<1>2. CASE pollCall
  <2>1. TableInv' /\ OpenInv'
    BY <1>1, <1>2 DEF pollCall, IInv, OpenInv
  <2>2. LowestReadable'
    BY <1>2, ReportsReadable DEF pollCall, IInv, LowestReadable
  <2> QED
    BY <2>1, <2>2 DEF IInv
<1>3. CASE HangUp
  BY <1>1, <1>3 DEF HangUp, IInv, OpenInv, LowestReadable
<1>4. ASSUME NEW s \in Sockets, Arrive(s) \/ Take(s) PROVE IInv'
  BY <1>1, <1>4 DEF Arrive, Take, IInv, OpenInv, LowestReadable
<1>5. CASE UNCHANGED vars
  BY <1>1, <1>5 DEF vars, IInv, OpenInv, LowestReadable
<1> QED
  BY <1>2, <1>3, <1>4, <1>5, AddKeeps, RemoveKeeps DEF Next

LEMMA TableAlways == Spec => []IInv
BY InitTable, StepKeeps, PTL DEF Spec

-----------------------------------------------------------------------------
\* For any first size and any socket numbers, pollCall answers with the lowest
\* readable socket of the set, or the timeout, while standard input is open.
THEOREM PollLowestReadable == Spec => []LowestReadable
BY TableAlways, PTL DEF IInv

\* For any first size and any socket numbers, poll is handed no slot beyond the
\* table, and every slot watches an open socket or nothing.
THEOREM PollWithinTable == Spec => []WithinTable
<1>1. IInv => WithinTable
  <2> SUFFICES ASSUME IInv PROVE WithinTable
    OBVIOUS
  <2>1. \A i \in DOMAIN pollFileDescriptors : pollFileDescriptors[i] = Slot(i)
    BY DEF IInv, TableInv
  <2>2. \A i : Slot(i).fd \in open \cup {0}
    BY DEF Slot, Unused
  <2> QED
    BY <2>1, <2>2 DEF IInv, TableInv, WithinTable
<1> QED
  BY <1>1, TableAlways, PTL
=============================================================================
