---- MODULE PollSet ----
(***************************************************************************)
(* pollLib: the table handed to poll, slot s for socket s.  A slot nobody  *)
(* added, or that was removed, is zero: it watches descriptor 0, standard  *)
(* input, for no event, and poll reports a hang-up whatever it watches.    *)
(* The caller opens sockets, adds each of them and removes it when it is   *)
(* closed, as rcopy, the main server and its children do; the numbers are  *)
(* the kernel's choice.                                                    *)
(***************************************************************************)
EXTENDS Integers, FiniteSetsExt

CONSTANTS
  POLL_SET_SIZE,  \* the size of the first table, and the room added behind a socket
  Sockets         \* descriptors socket() may return: not 0, 1 and 2

ASSUME PollAssumption ==
  POLL_SET_SIZE \in Nat \ {0} /\ Sockets \subseteq Nat \ 0 .. 2

VARIABLES
  pollFileDescriptors, maxFileDescriptor,
  open,      \* the open sockets: all of them are in the set
  readable,  \* those with a datagram to read
  stdin,     \* "open" or "hungup"
  answer     \* what pollCall has just returned, Asleep between two calls

vars == <<pollFileDescriptors, maxFileDescriptor, open, readable, stdin, answer>>

POLLIN == 1
Timeout == -1
Asleep == -2

Unused == [fd |-> 0, events |-> 0]
currentPollSetSize == Max(DOMAIN pollFileDescriptors) + 1

\* setupPollSet, before the first socket.
Init ==
  /\ pollFileDescriptors = [i \in 0 .. POLL_SET_SIZE - 1 |-> Unused]
  /\ maxFileDescriptor = 0
  /\ open = {} /\ readable = {}
  /\ stdin = "open"
  /\ answer = Asleep

-----------------------------------------------------------------------------
\* Mutant: no room is added behind the socket.
growPollSet_short(newSetSize) ==
  [i \in 0 .. newSetSize - POLL_SET_SIZE - 1 |->
     IF i < currentPollSetSize THEN pollFileDescriptors[i] ELSE Unused]

growPollSet(newSetSize) ==
  [i \in 0 .. newSetSize - 1 |->
     IF i < currentPollSetSize THEN pollFileDescriptors[i] ELSE Unused]

\* Mutant: the socket added last is taken for the highest.
Highest_last(s) == s + 1

Highest(s) == IF s + 1 >= maxFileDescriptor THEN s + 1 ELSE maxFileDescriptor

\* The socket is new, or it is added again (rcopy, back in SEND_FILENAME).
addToPollSet(s) ==
  LET table == IF s >= currentPollSetSize THEN growPollSet(s + POLL_SET_SIZE)
               ELSE pollFileDescriptors
  IN  /\ pollFileDescriptors' = [table EXCEPT ![s] = [fd |-> s, events |-> POLLIN]]
      /\ maxFileDescriptor' = Highest(s)
      /\ open' = open \cup {s}
      /\ answer' = Asleep
      /\ UNCHANGED <<readable, stdin>>

\* The socket is closed too; doDoneState removes it once more.
removeFromPollSet(s) ==
  /\ s < maxFileDescriptor
  /\ pollFileDescriptors' = [pollFileDescriptors EXCEPT ![s] = Unused]
  /\ open' = open \ {s}
  /\ readable' = readable \ {s}
  /\ answer' = Asleep
  /\ UNCHANGED <<maxFileDescriptor, stdin>>

\* poll: what is asked for, and what cannot be refused (POLLHUP, POLLNVAL).
revents(e) ==
  \/ e.events = POLLIN /\ e.fd \in readable
  \/ e.fd = 0 /\ stdin = "hungup"
  \/ e.fd # 0 /\ e.fd \notin open

\* The first slot poll has reported, of those below maxFileDescriptor.
pollCall ==
  LET reported == {i \in 0 .. maxFileDescriptor - 1 : revents(pollFileDescriptors[i])}
  IN  /\ open # {}
      /\ answer' = IF reported = {} THEN Timeout ELSE Min(reported)
      /\ UNCHANGED <<pollFileDescriptors, maxFileDescriptor, open, readable, stdin>>

-----------------------------------------------------------------------------
(* The world outside.                                                      *)

Arrive(s) == /\ s \in open
             /\ readable' = readable \cup {s}
             /\ answer' = Asleep
             /\ UNCHANGED <<pollFileDescriptors, maxFileDescriptor, open, stdin>>

\* recvfrom, of the last datagram there was.
Take(s) == /\ s \in readable
           /\ readable' = readable \ {s}
           /\ answer' = Asleep
           /\ UNCHANGED <<pollFileDescriptors, maxFileDescriptor, open, stdin>>

\* The other end of the pipe or terminal on descriptor 0 is closed.
HangUp == /\ stdin' = "hungup"
          /\ answer' = Asleep
          /\ UNCHANGED <<pollFileDescriptors, maxFileDescriptor, open, readable>>

Next ==
  \/ \E s \in Sockets : addToPollSet(s) \/ removeFromPollSet(s) \/ Arrive(s) \/ Take(s)
  \/ pollCall
  \/ HangUp

Spec == Init /\ [][Next]_vars

-----------------------------------------------------------------------------
(* Properties.                                                             *)

\* However the table grew and whatever was removed, pollCall returns the lowest
\* added socket that can be read, and the timeout if there is none, as long as
\* standard input has not hung up.
LowestReadable ==
  stdin = "open" /\ answer # Asleep =>
    answer = IF readable = {} THEN Timeout ELSE Min(readable)

\* However the numbers of the sockets jump, poll is never handed more slots than
\* the table has, and no slot of a closed socket keeps its number, which the
\* kernel may give to a file (growPollSet, addToPollSet, removeFromPollSet).
WithinTable ==
  /\ maxFileDescriptor <= currentPollSetSize
  /\ \A i \in DOMAIN pollFileDescriptors : pollFileDescriptors[i].fd \in open \cup {0}

\* pollLib.c:65-66: pollCall "returns the socket number if one is ready for read"
\* and "-1 if timeout occurred".  An unused slot reports a hang-up of standard
\* input: pollCall returns 0, which is no socket, in place of either.
AnswerIsReadable == answer # Asleep => answer = Timeout \/ answer \in readable
====
