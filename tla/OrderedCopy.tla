----------------------------- MODULE OrderedCopy -----------------------------
(***************************************************************************)
(* What the receiving half of a copy promises, whatever protocol is below  *)
(* it: the file only grows, each chunk is decided once, and the chunks     *)
(* that are written are written in ascending order.  A chunk may be        *)
(* decided without being written.                                          *)
(***************************************************************************)
EXTENDS Integers, Sequences

VARIABLES written,  \* chunk numbers, in the order they were written
          next      \* the first chunk that is not decided yet

Init == written = <<>> /\ next = 0

Decide ==
  /\ next' > next
  /\ Len(written') >= Len(written)
  /\ \A i \in 1 .. Len(written) : written'[i] = written[i]
  /\ \A i \in Len(written) + 1 .. Len(written') : written'[i] \in next .. next' - 1
  /\ \A i, j \in Len(written) + 1 .. Len(written') :
       i < j => written'[i] < written'[j]

Spec == Init /\ [][Decide]_<<written, next>>
=============================================================================
