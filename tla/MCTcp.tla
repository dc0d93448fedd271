-------------------------------- MODULE MCTcp --------------------------------
(***************************************************************************)
(* Model checking Tcp: writes of one and two bytes, so that a write can be *)
(* partly sent, and reads of one byte.                                     *)
(***************************************************************************)
EXTENDS Tcp

CONSTANTS r1, w1, w2

MCOpSize == [o \in Ops |-> IF o = w2 THEN 2 ELSE 1]
==============================================================================
