------------------------------- MODULE MCLogger ------------------------------
(***************************************************************************)
(* Model checking Logger: two loggers with a file each, a third that is    *)
(* not constructed, two threads, and the end of a day.                     *)
(***************************************************************************)
EXTENDS Logger

CONSTANTS i1, i2, empty

MCInitialLog == <<i1, i2, None>>

MCInstants == <<[year |-> 119, month |-> 2, date |-> 31, hour |-> 8],
                [year |-> 119, month |-> 3, date |-> 1, hour |-> 8]>>
==============================================================================
