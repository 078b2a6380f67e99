------------------------------ MODULE MCProxy ------------------------------
(***************************************************************************)
(* Proxy with two clients, buffers that shrink along the chain (3^(n - i)  *)
(* * 1000 bytes there) and are smaller than a pipe.                        *)
(***************************************************************************)
EXTENDS Proxy, TLC

MCCapacity == 0 :> 2 @@ 1 :> 1

A == <<"a">>        B == <<"b">>

(* The second name, over the first, is the first again; the second behind  *)
(* the first has a file too, and so has the third over both.  The file of  *)
(* the third is longer than any pipe or buffer.                            *)
Overlaying == <<A \o B, A, B \o B>>
AllOnDisk == A \o B :> 1 @@ A :> 2 @@ B \o B :> 3 @@ A \o B \o A :> 1
             @@ B \o B \o A :> 1

(* The second name, over the first, is no file's.                          *)
TwoFiles == <<A \o A, B>>
TwoOnDisk == A \o A :> 1 @@ B :> 1
=============================================================================
