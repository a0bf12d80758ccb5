------------------------------ MODULE Dispatch ------------------------------
(***************************************************************************)
(* What the server promises its clients, whatever PDUs do the work: a      *)
(* process serves one client for life, a client is given no more processes *)
(* than it asked for (some clients excepted), and it copies from one       *)
(* process only, one that opened the file for it.                          *)
(***************************************************************************)
EXTENDS Integers, FiniteSets

CONSTANTS Clients, Processes, Nobody,
          Unlimited   \* the clients that may be given more than they asked for

VARIABLES
  asked,   \* how often each client asked
  serves,  \* the client a process serves, or Nobody
  ready,   \* the processes that opened the file
  source,  \* the process a client copies from, as a set of at most one
  left     \* the clients that are done

Init == /\ asked = [r \in Clients |-> 0]
        /\ serves = [p \in Processes |-> Nobody]
        /\ ready = {}
        /\ source = [r \in Clients |-> {}]
        /\ left = {}

Waiting(r) == r \notin left /\ source[r] = {}

Ask(r) == /\ Waiting(r)
          /\ asked' = [asked EXCEPT ![r] = @ + 1]
          /\ UNCHANGED <<serves, ready, source, left>>

Assign(p, r) == /\ serves[p] = Nobody
                /\ r \in Unlimited \/ Cardinality({q \in Processes : serves[q] = r}) < asked[r]
                /\ serves' = [serves EXCEPT ![p] = r]
                /\ UNCHANGED <<asked, ready, source, left>>

Open(p) == /\ serves[p] # Nobody
           /\ p \notin ready
           /\ ready' = ready \cup {p}
           /\ UNCHANGED <<asked, serves, source, left>>

CopyFrom(r, p) == /\ Waiting(r)
                  /\ serves[p] = r /\ p \in ready
                  /\ source' = [source EXCEPT ![r] = {p}]
                  /\ UNCHANGED <<asked, serves, ready, left>>

Leave(r) == /\ r \notin left
            /\ left' = left \cup {r}
            /\ source' = [source EXCEPT ![r] = {}]
            /\ UNCHANGED <<asked, serves, ready>>

Next == \/ \E r \in Clients : Ask(r) \/ Leave(r)
        \/ \E p \in Processes : Open(p)
        \/ \E p \in Processes, r \in Clients : Assign(p, r) \/ CopyFrom(r, p)

Spec == Init /\ [][Next]_<<asked, serves, ready, source, left>>
=============================================================================
