----------------------------- MODULE MCSuperFIFO -----------------------------
(***************************************************************************)
(* SuperFIFO with two writers: the greeting and file of the first fit into *)
(* a FIFO of two blocks, those of the second do not.                       *)
(***************************************************************************)
EXTENDS SuperFIFO, TLC

CONSTANTS w1, w2

MCWriters == {w1, w2}
MCFileLen == w1 :> 1 @@ w2 :> 2
=============================================================================
