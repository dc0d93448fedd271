----------------------------- MODULE MCEventLoop -----------------------------
(***************************************************************************)
(* Model checking EventLoop: clients and tasks are interchangeable in the  *)
(* runs that check no liveness property.                                   *)
(***************************************************************************)
EXTENDS EventLoop, TLC

Interchangeable == Permutations(Clients) \cup Permutations(Tasks)
==============================================================================
