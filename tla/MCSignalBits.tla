---------------------------- MODULE MCSignalBits ----------------------------
(* SignalBits with every file of up to 2 bytes of BITS bits, and two files *)
(* of 3 bytes, which take more than one read.                              *)
EXTENDS SignalBits

MCFiles ==
  UNION {[1..(BITS * n) -> BOOLEAN] : n \in 0..2}
    \cup {[i \in 1..(BITS * 3) |-> i % k = 0] : k \in {2, 3}}
=============================================================================
