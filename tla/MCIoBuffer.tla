----------------------------- MODULE MCIoBuffer ------------------------------
(***************************************************************************)
(* Model checking IoBuffer: two buffers, pages of two bytes.               *)
(***************************************************************************)
EXTENDS IoBuffer

MCInputs == {<<1, 2>>}
==============================================================================
