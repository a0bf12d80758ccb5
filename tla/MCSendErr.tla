---- MODULE MCSendErr ----
(***************************************************************************)
(* Settings for SendErr: an empty and a negative list, lists that are cut  *)
(* at a bad token, and rates of none, half and all.                        *)
(***************************************************************************)
EXTENDS SendErr

MCLists == {<<Bad, 1>>, <<-1>>, <<2>>, <<1, Bad, 2>>, <<3, 1>>}
MCRates == {Bad, 0, 2}
====
