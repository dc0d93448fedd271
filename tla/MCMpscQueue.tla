----------------------------- MODULE MCMpscQueue -----------------------------
(***************************************************************************)
(* Model checking MpscQueue with two remote producers.                     *)
(***************************************************************************)
EXTENDS MpscQueue
==============================================================================
