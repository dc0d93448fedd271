--------------------------- MODULE MCCoroutinePool ---------------------------
(***************************************************************************)
(* Model checking CoroutinePool: a chain of three coroutines whose last is *)
(* awaited at its start, and a pair that is awaited at its end.            *)
(***************************************************************************)
EXTENDS CoroutinePool

CONSTANTS r, a, b, q, c

MCChild == [n \in Coroutines |-> CASE n = r -> a [] n = a -> b [] n = q -> c [] OTHER -> None]
MCMode == [n \in Coroutines |-> IF n = b THEN "start" ELSE "end"]
==============================================================================
