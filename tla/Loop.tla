--------------------------------- MODULE Loop ---------------------------------
(***************************************************************************)
(* A loop of the code that runs its body a number of times, and what is    *)
(* known of it for every body.                                             *)
(***************************************************************************)
EXTENDS Integers

CONSTANT Step(_, _)  \* the body, on a state and on what the loop does not change

\* The state after n turns; none when n is not positive.
Times(n, s, x) ==
  LET g[k \in 0..n] == IF k = 0 THEN s ELSE Step(g[k - 1], x)
  IN IF n <= 0 THEN s ELSE g[n]

-----------------------------------------------------------------------------
\* The states of the first n turns.
Run(n, s, x, g) == g = [k \in 0..n |-> IF k = 0 THEN s ELSE Step(g[k - 1], x)]

\* Counting up from 0 in steps of one reaches n: the lemmas below rest on it, and who uses them
\* proves it, with the library on induction, which every instance of this module would drag along.
CountsUpTo(n) ==
  \A K : 0 \in K /\ (\A k \in 0..n - 1 : k \in K => k + 1 \in K) => n \in K

\* The turns of a loop exist.
LEMMA RunExists ==
  ASSUME NEW n \in Nat, CountsUpTo(n), NEW s, NEW x
  PROVE  \E g : Run(n, s, x, g)
<1> DEFINE K == {k \in Nat : \E g : Run(k, s, x, g)}
<1>1. 0 \in K
  <2> DEFINE g == [k \in 0..0 |-> s]
  <2>1. g = [k \in 0..0 |-> IF k = 0 THEN s ELSE Step(g[k - 1], x)] BY \A k \in 0..0 : k = 0
  <2> QED BY <2>1 DEF Run
<1>2. ASSUME NEW k \in 0..n - 1, k \in K PROVE k + 1 \in K
  <2>1. PICK g : Run(k, s, x, g) BY <1>2
  <2> DEFINE h == [i \in 0..k + 1 |-> IF i = k + 1 THEN Step(g[k], x) ELSE g[i]]
  <2>2. g = [i \in 0..k |-> IF i = 0 THEN s ELSE Step(g[i - 1], x)] BY <2>1 DEF Run
  <2>3. ASSUME NEW i \in 0..k + 1
        PROVE  h[i] = IF i = 0 THEN s ELSE Step(h[i - 1], x)
    <3>1. CASE i = 0
      <4>1. h[0] = g[0] /\ 0 \in 0..k OBVIOUS
      <4>2. g[0] = s BY <2>2, <4>1
      <4> QED BY <3>1, <4>1, <4>2
    <3>2. CASE i = k + 1
      <4>1. k \in 0..k + 1 /\ k # k + 1 /\ i - 1 = k /\ i # 0 BY <3>2
      <4>2. h[k] = g[k] BY <4>1
      <4> QED BY <3>2, <4>1, <4>2
    <3>3. CASE i # 0 /\ i # k + 1
      <4>1. i \in 0..k /\ i - 1 \in 0..k + 1 /\ i - 1 # k + 1 BY <3>3
      <4>2. h[i] = g[i] /\ h[i - 1] = g[i - 1] BY <3>3, <4>1
      <4>3. g[i] = Step(g[i - 1], x) BY <2>2, <3>3, <4>1
      <4> QED BY <3>3, <4>2, <4>3
    <3> QED BY <3>1, <3>2, <3>3
  <2>4. h = [i \in 0..k + 1 |-> h[i]] OBVIOUS
  <2> HIDE DEF h
  <2>5. h = [i \in 0..k + 1 |-> IF i = 0 THEN s ELSE Step(h[i - 1], x)] BY <2>3, <2>4
  <2> QED BY <2>5 DEF Run
<1> HIDE DEF K
<1>3. n \in K BY <1>1, <1>2 DEF CountsUpTo
<1> QED BY <1>3 DEF K

\* Turn by turn, a loop of n turns goes through the states g.
LEMMA Iterates ==
  ASSUME NEW n \in Nat, CountsUpTo(n), NEW s, NEW x
  PROVE  \E g : /\ g[0] = s /\ Times(n, s, x) = g[n]
                /\ \A k \in 1..n : g[k] = Step(g[k - 1], x)
<1> DEFINE g == CHOOSE f : f = [k \in 0..n |-> IF k = 0 THEN s ELSE Step(f[k - 1], x)]
<1>1. \E f : Run(n, s, x, f) BY RunExists
<1>2. g = [k \in 0..n |-> IF k = 0 THEN s ELSE Step(g[k - 1], x)] BY ONLY <1>1 DEF Run
<1>3. Times(n, s, x) = IF n <= 0 THEN s ELSE g[n] BY DEF Times
<1> HIDE DEF g
<1>4. g[0] = s
  <2>1. 0 \in 0..n OBVIOUS
  <2> QED BY <1>2, <2>1
<1>5. ASSUME NEW k \in 1..n PROVE g[k] = Step(g[k - 1], x)
  <2>1. k \in 0..n /\ k # 0 OBVIOUS
  <2> QED BY <1>2, <2>1
<1>6. Times(n, s, x) = g[n] BY <1>3, <1>4
<1> QED BY <1>4, <1>5, <1>6

\* A loop that is to run no turn leaves the state alone.
LEMMA NoTurn ==
  ASSUME NEW n \in Int, n <= 0, NEW s, NEW x
  PROVE  Times(n, s, x) = s
BY DEF Times
===============================================================================
