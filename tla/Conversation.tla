---- MODULE Conversation ----
(***************************************************************************)
(* The two directions of the conversation that copies a file.              *)
(***************************************************************************)
EXTENDS Packets, Datagrams

VARIABLES
  data,  \* server's child -> rcopy
  ctl    \* rcopy -> server's child

netVars == <<data, ctl>>

NetInit == data = EmptyBag /\ ctl = EmptyBag
=============================================================================
