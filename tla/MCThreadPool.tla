----------------------------- MODULE MCThreadPool ----------------------------
(***************************************************************************)
(* Model checking ThreadPool with two workers.                             *)
(***************************************************************************)
EXTENDS ThreadPool
==============================================================================
