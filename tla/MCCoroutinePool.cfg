\* Two workers, two roots, three coroutines submitted; b, awaited at its start, throws.
SPECIFICATION FairSpec
CONSTANTS
  r = r
  a = a
  b = b
  q = q
  c = c
  None = none
  Workers = {w1, w2}
  Coroutines = {r, a, b, q, c}
  Roots = {r, q}
  Child <- MCChild
  Mode <- MCMode
  Throwing = {b}
INVARIANTS OneResumer ValueIsThere
PROPERTIES EveryCoroutineEnds
\* Everything has run: the workers wait.
CHECK_DEADLOCK FALSE
