--------------------------------- MODULE MCRing --------------------------------
(***************************************************************************)
(* A ring of three slots with six index values: the indices wrap at the    *)
(* width of size_t after the buffer has been filled twice, and a chunk of  *)
(* four samples is longer than the ring.                                   *)
(***************************************************************************)
EXTENDS Ring

MCSample == {0, 1}
MCChunks == {<<>>, <<1>>, <<0, 1>>, <<1, 1, 0>>, <<1, 0, 0, 1>>}
================================================================================
