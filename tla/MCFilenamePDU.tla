---- MODULE MCFilenamePDU ----
(***************************************************************************)
(* Command lines for FilenamePDU: names of every length up to the field's  *)
(* and one beyond, sizes at the edges of 8 and 16 bits, and the sums at    *)
(* which the checksum carries twice or an old name cancels out.            *)
(***************************************************************************)
EXTENDS FilenamePDU

MCNames == {<<>>, <<97>>, <<200, 100, 55>>, <<255, 255, 254>>, <<255, 255, 254, 246>>,
            <<97, 98, 99, 100, 101>>}
MCBuffers == {0, 1, 154, 247, 300, 65534, 65837}
MCWindows == {0, 1, 65535, 65537}

MCCommandLines ==
  [name : MCNames, window : {1}, buffer : MCBuffers] \cup
  [name : {<<97>>}, window : MCWindows, buffer : {1}]

MCTails == {<<0>>, <<98, 0>>}
====
