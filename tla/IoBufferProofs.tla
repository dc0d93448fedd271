--------------------------- MODULE IoBufferProofs ---------------------------
(***************************************************************************)
(* Proofs about IoBuffer: each page is owned once, the bytes of every      *)
(* buffer stay within its pages and were written to, and every buffer has  *)
(* the bytes ByteBuffers says, whatever the size of a page, of the pool    *)
(* and of what is pushed and moved.                                        *)
(***************************************************************************)
EXTENDS IoBuffer, FiniteSetTheorems, SequenceTheorems, NaturalsInduction,
        WellFoundedInduction, TLAPS

(*** Counting. ***)

\* Counting up from 0 in steps of one reaches n.
LEMMA CountingUp ==
  ASSUME NEW n \in Nat, NEW K, 0 \in K, \A k \in 0..n - 1 : k \in K => k + 1 \in K
  PROVE  n \in K
<1> DEFINE M == {m \in Nat : m \in K /\ m <= n}
           L == {n - m : m \in M}
<1> SUFFICES ASSUME n \notin K PROVE FALSE OBVIOUS
<1>1. L \subseteq Nat /\ n \in L
  <2>1. 0 \in M BY DEF M
  <2>2. \A m \in M : n - m \in Nat OBVIOUS
  <2> QED BY <2>1, <2>2
<1>2. IsWellFoundedOn(OpToRel(<, Nat), Nat) BY NatLessThanWellFounded
<1>3. PICK l \in L : \A y \in L : ~(<<y, l>> \in OpToRel(<, Nat))
  <2> HIDE DEF L
  <2> QED BY <1>1, <1>2, WFMin
<1>4. PICK m \in M : l = n - m BY <1>3
<1>5. m < n /\ m \in K /\ m \in Nat BY <1>4
<1>6. m + 1 \in M BY <1>5
<1>7. n - (m + 1) \in L BY <1>6
<1>8. n - (m + 1) < l /\ n - (m + 1) \in Nat /\ l \in Nat BY <1>4, <1>5
<1>9. <<n - (m + 1), l>> \in OpToRel(<, Nat) BY <1>8 DEF OpToRel
<1> QED BY <1>3, <1>7, <1>9

\* Which is what the loops rest on.
LEMMA CountsUp ==
  ASSUME NEW n \in Nat
  PROVE  /\ AddBacks!CountsUpTo(n)
         /\ AddFronts!CountsUpTo(n)
         /\ BackReleases!CountsUpTo(n)
         /\ BytesBefore!CountsUpTo(n)
         /\ BytesBehind!CountsUpTo(n)
         /\ FrontReleases!CountsUpTo(n)
         /\ PagesBefore!CountsUpTo(n)
         /\ PagesBehind!CountsUpTo(n)
         /\ ReleasesBefore!CountsUpTo(n)
<1>1. \A K : 0 \in K /\ (\A k \in 0..n - 1 : k \in K => k + 1 \in K) => n \in K
  BY CountingUp
<1> QED
  BY <1>1
  DEF AddBacks!CountsUpTo,
      AddFronts!CountsUpTo,
      BackReleases!CountsUpTo,
      BytesBefore!CountsUpTo,
      BytesBehind!CountsUpTo,
      FrontReleases!CountsUpTo,
      PagesBefore!CountsUpTo,
      PagesBehind!CountsUpTo,
      ReleasesBefore!CountsUpTo

(*** Positions: a page and an offset in it. ***)

\* A page has at least one byte.
LEMMA SizeIs == PageSize \in Nat /\ PageSize > 0 /\ PageSize \in Int
BY IoBufferAssumption

\* The page of a position and its offset, read off the position.
LEMMA QuotIs ==
  ASSUME NEW x \in Int, NEW q \in Int, NEW r \in Offsets, x = PageSize * q + r
  PROVE  x \div PageSize = q /\ x % PageSize = r
BY SizeIs, Z3 DEF Offsets

\* Every position is an offset in some page.
LEMMA Quot ==
  ASSUME NEW x \in Int
  PROVE  /\ x \div PageSize \in Int /\ x % PageSize \in Offsets
         /\ x = PageSize * (x \div PageSize) + (x % PageSize)
BY SizeIs, Z3 DEF Offsets

\* A position from 0 is in a page from 0.
LEMMA QuotNat ==
  ASSUME NEW x \in Nat
  PROVE  x \div PageSize \in Nat
BY SizeIs, Z3

\* A position below the end of the first l pages is in one of them.
LEMMA QuotBelow ==
  ASSUME NEW x \in Int, NEW l \in Int
  PROVE  x < l * PageSize <=> x \div PageSize < l
BY SizeIs, Z3

\* One page further: the same offset.
LEMMA QuotNext ==
  ASSUME NEW x \in Int
  PROVE  /\ (x + PageSize) \div PageSize = (x \div PageSize) + 1
         /\ (x + PageSize) % PageSize = x % PageSize
<1> DEFINE q == x \div PageSize
           r == x % PageSize
<1>1. q \in Int /\ r \in Offsets /\ x = PageSize * q + r BY Quot
<1>2. PageSize * (q + 1) = PageSize * q + PageSize BY <1>1, SizeIs, Z3
<1> HIDE DEF q, r
<1>3. x + PageSize \in Int /\ q + 1 \in Int /\ x + PageSize = PageSize * (q + 1) + r
  <2>1. r \in Int BY <1>1, SizeIs DEF Offsets
  <2>2. PageSize * q \in Int BY <1>1, SizeIs
  <2> QED BY <1>1, <1>2, <2>1, <2>2, SizeIs
<1> DEFINE y == x + PageSize
           k == q + 1
<1>4. y \in Int /\ k \in Int /\ y = PageSize * k + r BY <1>3
<1> HIDE DEF y, k
<1>5. y \div PageSize = k /\ y % PageSize = r BY ONLY <1>1, <1>4, QuotIs
<1> QED BY <1>5 DEF y, k, q, r

\* One page back: the same offset.
LEMMA QuotBefore ==
  ASSUME NEW x \in Int
  PROVE  /\ (x - PageSize) \div PageSize = (x \div PageSize) - 1
         /\ (x - PageSize) % PageSize = x % PageSize
<1> DEFINE y == x - PageSize
<1>1. y \in Int /\ y + PageSize = x BY SizeIs
<1> HIDE DEF y
<1>2. /\ (y + PageSize) \div PageSize = (y \div PageSize) + 1
      /\ (y + PageSize) % PageSize = y % PageSize BY <1>1, QuotNext
<1>3. y \div PageSize \in Int BY <1>1, Quot
<1> QED BY <1>1, <1>2, <1>3 DEF y

\* Further positions are not in earlier pages.
LEMMA QuotMono ==
  ASSUME NEW x \in Int, NEW y \in Int, x <= y
  PROVE  x \div PageSize <= y \div PageSize
BY SizeIs, Z3

\* The cells of a page that starts at x.
LEMMA QuotAligned ==
  ASSUME NEW x \in Int, x % PageSize = 0, NEW o \in Offsets
  PROVE  /\ (x + o) \div PageSize = x \div PageSize /\ (x + o) % PageSize = o
<1> DEFINE q == x \div PageSize
           y == x + o
<1>1. q \in Int /\ x = PageSize * q + (x % PageSize) BY Quot
<1>2. o \in Int BY SizeIs DEF Offsets
<1>3. y \in Int /\ y = PageSize * q + o
  <2>1. PageSize * q \in Int BY <1>1, SizeIs
  <2> QED BY <1>1, <1>2, <2>1
<1> HIDE DEF q, y
<1>4. y \div PageSize = q /\ y % PageSize = o BY ONLY <1>1, <1>3, QuotIs
<1> QED BY <1>4 DEF q, y

\* Offsets do not tell positions apart that are some pages away.
LEMMA QuotStep ==
  ASSUME NEW x \in Int, NEW y \in Int, NEW d \in Int, x % PageSize = y % PageSize
  PROVE  (x + d) % PageSize = (y + d) % PageSize
BY SizeIs, Z3

\* Equal offsets: the distance is a number of pages.
LEMMA QuotDiff ==
  ASSUME NEW x \in Int, NEW y \in Int
  PROVE  (x - y) % PageSize = 0 <=> x % PageSize = y % PageSize
<1> DEFINE d == -y
           z == x - y
<1>1. d \in Int /\ z \in Int /\ x + d = z /\ y + d = 0 /\ z + y = x /\ 0 + y = y OBVIOUS
<1>2. 0 \in Int /\ 0 % PageSize = 0 BY SizeIs, Z3
<1> HIDE DEF d, z
<1>3. x % PageSize = y % PageSize => (x + d) % PageSize = (y + d) % PageSize
  BY ONLY <1>1, QuotStep, x \in Int, y \in Int
<1>4. z % PageSize = 0 % PageSize => (z + y) % PageSize = (0 + y) % PageSize
  BY ONLY <1>1, <1>2, QuotStep, y \in Int
<1>5. z % PageSize = 0 <=> x % PageSize = y % PageSize BY ONLY <1>1, <1>2, <1>3, <1>4
<1> QED BY <1>5 DEF z

\* The bytes of l pages.
LEMMA RowSize ==
  ASSUME NEW l \in Nat
  PROVE  /\ (l + 1) * PageSize = l * PageSize + PageSize /\ l * PageSize \in Nat
         /\ (l * PageSize) % PageSize = 0 /\ (l * PageSize) \div PageSize = l
<1>1. (l + 1) * PageSize = l * PageSize + PageSize /\ l * PageSize \in Nat
  <2>1. (l + 1) * PageSize = l * PageSize + PageSize BY SizeIs, Z3
  <2>2. l * PageSize \in Int BY SizeIs
  <2>3. l * PageSize >= 0 BY SizeIs, Z3
  <2> QED BY <2>1, <2>2, <2>3
<1> DEFINE x == l * PageSize
<1>2. x \in Int /\ x = PageSize * l + 0 /\ 0 \in Offsets /\ l \in Int
  BY SizeIs, Z3 DEF Offsets
<1> HIDE DEF x
<1>3. x \div PageSize = l /\ x % PageSize = 0 BY ONLY <1>2, QuotIs
<1> QED BY <1>1, <1>3 DEF x

\* Between the starts of pages lie whole pages.
LEMMA PageOrder ==
  ASSUME NEW x \in Int, NEW y \in Int, x % PageSize = 0
  PROVE  /\ y \div PageSize < x \div PageSize <=> y < x
         /\ y \div PageSize > x \div PageSize <=> y >= x + PageSize
BY SizeIs, Z3

\* Rounding up to whole pages.
LEMMA CeilIs ==
  ASSUME NEW n \in Int
  PROVE  /\ CeilDiv(n) \in Int
         /\ CeilDiv(n) * PageSize >= n /\ n > (CeilDiv(n) - 1) * PageSize
BY SizeIs, Z3 DEF CeilDiv

(*** Who holds which page: the rows of the buffers and of the pool. ***)

Holders == Buffers \cup {"pool"}

\* Each page of D is in one place of one row, but for those in hand, which are in none.
Held(R, D, hand) ==
  /\ hand \subseteq D
  /\ R \in [Holders -> Seq(D)]
  /\ \A h \in Holders : \A i \in 1..Len(R[h]) : R[h][i] \notin hand
  /\ \A g, h \in Holders : \A i \in 1..Len(R[g]), j \in 1..Len(R[h]) :
       R[g][i] = R[h][j] => g = h /\ i = j
  /\ \A p \in D \ hand : \E h \in Holders : \E i \in 1..Len(R[h]) : R[h][i] = p

\* The sequence q is ps without its element j.
Without(q, ps, j) ==
  /\ j \in 1..Len(ps) /\ Len(q) = Len(ps) - 1
  /\ \A i \in 1..Len(q) : q[i] = ps[IF i < j THEN i ELSE i + 1]

\* The tail is what is left without the head.
LEMMA TailIs ==
  ASSUME NEW D, NEW ps \in Seq(D), ps # <<>>
  PROVE  /\ Tail(ps) \in Seq(D) /\ Without(Tail(ps), ps, 1) /\ Head(ps) = ps[1]
         /\ Len(Tail(ps)) = Len(ps) - 1 /\ Head(ps) \in D
<1>1. Len(ps) \in Nat /\ Len(ps) > 0 /\ Tail(ps) \in Seq(D) /\ Len(Tail(ps)) = Len(ps) - 1
  BY Z3
<1>2. \A i \in 1..Len(Tail(ps)) : Tail(ps)[i] = ps[i + 1] OBVIOUS
<1>3. Head(ps) = ps[1] /\ ps[1] \in D BY <1>1
<1> QED BY <1>1, <1>2, <1>3 DEF Without

\* The front is what is left without the last.
LEMMA FrontIs ==
  ASSUME NEW D, NEW ps \in Seq(D), ps # <<>>
  PROVE  /\ Front(ps) \in Seq(D) /\ Without(Front(ps), ps, Len(ps)) /\ Last(ps) = ps[Len(ps)]
         /\ Len(Front(ps)) = Len(ps) - 1 /\ Last(ps) \in D
<1> DEFINE l == Len(ps) - 1
           q == SubSeq(ps, 1, l)
<1>1. Len(ps) \in Nat /\ Len(ps) > 0 /\ l \in Nat OBVIOUS
<1>2. \A i \in 1..l : ps[i] \in D BY <1>1
<1>3. q = [i \in 1..l |-> ps[i]] /\ Len(q) = l
  <2> HIDE DEF l
  <2>1. 1 \in Int /\ l \in Int BY <1>1
  <2>2. q = [i \in 1..l |-> ps[1 + i - 1]] BY <1>1, <1>2
  <2>3. \A i \in 1..l : 1 + i - 1 = i BY <1>1
  <2> QED BY <1>1, <2>2, <2>3
<1>4. q \in Seq(D) BY <1>1, <1>2, <1>3
<1>5. Front(ps) = q /\ Last(ps) = ps[Len(ps)] BY DEF Front, Last
<1>6. Without(q, ps, Len(ps)) BY <1>1, <1>3 DEF Without
<1> QED BY <1>1, <1>3, <1>4, <1>5, <1>6

\* Appended behind, a page is the last.
LEMMA AppendIs ==
  ASSUME NEW D, NEW ps \in Seq(D), NEW p \in D
  PROVE  /\ Append(ps, p) \in Seq(D) /\ Without(ps, Append(ps, p), Len(ps) + 1)
         /\ Append(ps, p)[Len(ps) + 1] = p /\ Len(Append(ps, p)) = Len(ps) + 1
<1> DEFINE q == Append(ps, p)
<1>1. Len(ps) \in Nat /\ q \in Seq(D) /\ Len(q) = Len(ps) + 1 OBVIOUS
<1>2. q[Len(ps) + 1] = p /\ \A i \in 1..Len(ps) : q[i] = ps[i] OBVIOUS
<1> HIDE DEF q
<1>3. Without(ps, q, Len(ps) + 1) BY <1>1, <1>2 DEF Without
<1> QED BY <1>1, <1>2, <1>3 DEF q

\* Put in front, a page is the first.
LEMMA InFrontIs ==
  ASSUME NEW D, NEW ps \in Seq(D), NEW p \in D
  PROVE  /\ <<p>> \o ps \in Seq(D) /\ Without(ps, <<p>> \o ps, 1)
         /\ (<<p>> \o ps)[1] = p /\ Len(<<p>> \o ps) = Len(ps) + 1
<1> DEFINE o == <<p>>
           q == o \o ps
<1>1. o \in Seq(D) /\ Len(o) = 1 /\ o[1] = p OBVIOUS
<1> HIDE DEF o
<1>2. q \in Seq(D) /\ Len(q) = 1 + Len(ps) /\ Len(ps) \in Nat
  <2>1. q \in Seq(D) /\ Len(q) = Len(o) + Len(ps) BY <1>1, ConcatProperties
  <2> QED BY <1>1, <2>1
<1>3. \A i \in 1..Len(q) : q[i] = IF i <= 1 THEN o[i] ELSE ps[i - 1]
  BY ONLY <1>1, <1>2, ConcatProperties, ps \in Seq(D)
<1>4. q[1] = p BY <1>1, <1>2, <1>3
<1>5. \A i \in 1..Len(ps) : q[i + 1] = ps[i]
  <2> HIDE DEF q
  <2> TAKE i \in 1..Len(ps)
  <2>1. i + 1 \in 1..Len(q) /\ ~(i + 1 <= 1) /\ (i + 1) - 1 = i BY <1>2
  <2> QED BY <1>3, <2>1
<1> HIDE DEF q
<1>6. Without(ps, q, 1) BY <1>2, <1>5 DEF Without
<1> QED BY <1>2, <1>4, <1>6 DEF q, o

\* Two places with one page are one place.
LEMMA HeldOnce ==
  ASSUME NEW R, NEW D, NEW hand, Held(R, D, hand), NEW g \in Holders, NEW h \in Holders,
         NEW i \in 1..Len(R[g]), NEW j \in 1..Len(R[h]), R[g][i] = R[h][j]
  PROVE  g = h /\ i = j
BY DEF Held

\* A page taken out of its row is in hand.
LEMMA HeldTake ==
  ASSUME NEW R, NEW D, Held(R, D, {}), NEW h \in Holders, NEW q \in Seq(D), NEW j,
         Without(q, R[h], j)
  PROVE  Held([R EXCEPT ![h] = q], D, {R[h][j]})
<1> DEFINE S == [R EXCEPT ![h] = q]
           p == R[h][j]
           To(g, i) == IF g = h /\ ~(i < j) THEN i + 1 ELSE i
<1>1. R \in [Holders -> Seq(D)] /\ S \in [Holders -> Seq(D)] BY DEF Held
<1>2. S[h] = q /\ \A g \in Holders : g # h => S[g] = R[g] BY <1>1
<1>3. /\ j \in 1..Len(R[h]) /\ Len(R[h]) \in Nat /\ Len(q) = Len(R[h]) - 1 /\ Len(q) \in Nat
      /\ \A i \in 1..Len(q) : q[i] = R[h][IF i < j THEN i ELSE i + 1]
  BY <1>1 DEF Without
<1>4. p \in D BY <1>1, <1>3
<1>5. \A g \in Holders : \A i \in 1..Len(S[g]) :
        /\ S[g][i] = R[g][To(g, i)] /\ To(g, i) \in 1..Len(R[g])
        /\ ~(g = h /\ To(g, i) = j)
  <2> TAKE g \in Holders
  <2> TAKE i \in 1..Len(S[g])
  <2> HIDE DEF S
  <2>0. Len(R[g]) \in Nat BY <1>1
  <2>1. CASE g # h BY <1>2, <2>1, <2>0
  <2>2. CASE g = h BY <1>2, <1>3, <2>2
  <2> QED BY <2>1, <2>2
<1>6. /\ \A g, k \in Holders : \A i \in 1..Len(R[g]), l \in 1..Len(R[k]) :
           R[g][i] = R[k][l] => g = k /\ i = l
      /\ \A x \in D : \E g \in Holders : \E i \in 1..Len(R[g]) : R[g][i] = x
  BY DEF Held
<1>7. \A g \in Holders : \A i \in 1..Len(S[g]) : S[g][i] \notin {p}
  <2> TAKE g \in Holders
  <2> TAKE i \in 1..Len(S[g])
  <2> DEFINE x == To(g, i)
  <2> HIDE DEF S
  <2>1. S[g][i] = R[g][x] /\ x \in 1..Len(R[g]) /\ ~(g = h /\ x = j) BY <1>5
  <2> HIDE DEF x
  <2>2. R[g][x] = R[h][j] => g = h /\ x = j BY <1>3, <1>6, <2>1
  <2> QED BY <2>1, <2>2
<1>8. \A g, k \in Holders : \A i \in 1..Len(S[g]), l \in 1..Len(S[k]) :
        S[g][i] = S[k][l] => g = k /\ i = l
  <2> SUFFICES ASSUME NEW g \in Holders, NEW k \in Holders,
                      NEW i \in 1..Len(S[g]), NEW l \in 1..Len(S[k]), S[g][i] = S[k][l]
               PROVE  g = k /\ i = l OBVIOUS
  <2> HIDE DEF S
  <2>1. g = k /\ To(g, i) = To(k, l)
    <3> DEFINE x == To(g, i)
               y == To(k, l)
    <3>1. S[g][i] = R[g][x] /\ x \in 1..Len(R[g]) BY <1>5
    <3>2. S[k][l] = R[k][y] /\ y \in 1..Len(R[k]) BY <1>5
    <3> HIDE DEF x, y
    <3>3. R[g][x] = R[k][y] BY ONLY <3>1, <3>2, S[g][i] = S[k][l]
    <3>4. g = k /\ x = y
      <4>1. Held(R, D, {}) OBVIOUS
      <4>2. x \in 1..Len(R[g]) /\ y \in 1..Len(R[k]) BY <3>1, <3>2
      <4> QED BY ONLY <4>1, <4>2, <3>3, HeldOnce, g \in Holders, k \in Holders
    <3> QED BY <3>4 DEF x, y
  <2>2. Len(S[g]) \in Nat /\ Len(S[k]) \in Nat BY <1>1
  <2>3. i \in Int /\ l \in Int /\ j \in Int BY <1>3, <2>2
  <2> QED BY ONLY <2>1, <2>3
<1>9. \A x \in D \ {p} : \E g \in Holders : \E i \in 1..Len(S[g]) : S[g][i] = x
  <2> SUFFICES ASSUME NEW x \in D, x # p
               PROVE  \E g \in Holders : \E i \in 1..Len(S[g]) : S[g][i] = x OBVIOUS
  <2>0. PICK g \in Holders : \E i \in 1..Len(R[g]) : R[g][i] = x BY <1>6
  <2>1. PICK i \in 1..Len(R[g]) : R[g][i] = x BY <2>0
  <2> HIDE DEF S
  <2>2. CASE g # h BY <1>2, <2>1, <2>2
  <2>3. CASE g = h
    <3>1. i # j BY <2>1, <2>3 DEF p
    <3>2. CASE i < j
      <4>1. i \in 1..Len(q) /\ q[i] = R[h][i] BY <1>3, <2>3, <3>2
      <4> QED BY <1>2, <2>1, <2>3, <4>1
    <3>3. CASE i > j
      <4>1. i - 1 \in 1..Len(q) /\ ~(i - 1 < j) /\ (i - 1) + 1 = i BY <1>3, <2>3, <3>3
      <4>2. q[i - 1] = R[h][i] BY <1>3, <4>1
      <4> QED BY <1>2, <2>1, <2>3, <4>1, <4>2
    <3> QED BY <1>3, <2>3, <3>1, <3>2, <3>3
  <2> QED BY <2>2, <2>3
<1> HIDE DEF S, p
<1>10. Held(S, D, {p}) BY <1>1, <1>4, <1>7, <1>8, <1>9 DEF Held
<1> QED BY <1>10 DEF S, p

\* The page in hand is put into a row.
LEMMA HeldPut ==
  ASSUME NEW R, NEW D, NEW p, Held(R, D, {p}), NEW h \in Holders, NEW ps \in Seq(D), NEW j,
         Without(R[h], ps, j), ps[j] = p
  PROVE  Held([R EXCEPT ![h] = ps], D, {})
<1> DEFINE S == [R EXCEPT ![h] = ps]
           To(g, i) == IF g = h /\ ~(i < j) THEN i + 1 ELSE i
<1>1. R \in [Holders -> Seq(D)] /\ S \in [Holders -> Seq(D)] BY DEF Held
<1>2. S[h] = ps /\ \A g \in Holders : g # h => S[g] = R[g] BY <1>1
<1>3. /\ j \in 1..Len(ps) /\ Len(R[h]) \in Nat /\ Len(R[h]) = Len(ps) - 1 /\ Len(ps) \in Nat
      /\ \A i \in 1..Len(R[h]) : R[h][i] = ps[IF i < j THEN i ELSE i + 1]
  BY <1>1 DEF Without
<1>4. \A g \in Holders : \A i \in 1..Len(R[g]) :
        /\ R[g][i] = S[g][To(g, i)] /\ To(g, i) \in 1..Len(S[g])
  <2> TAKE g \in Holders
  <2> TAKE i \in 1..Len(R[g])
  <2> HIDE DEF S
  <2>0. Len(R[g]) \in Nat BY <1>1
  <2>1. CASE g # h BY <1>2, <2>1, <2>0
  <2>2. CASE g = h BY <1>2, <1>3, <2>2
  <2> QED BY <2>1, <2>2
<1>5. \A g \in Holders : \A i \in 1..Len(S[g]) :
        \/ g = h /\ i = j
        \/ \E l \in 1..Len(R[g]) : To(g, l) = i
  <2> TAKE g \in Holders
  <2> TAKE i \in 1..Len(S[g])
  <2> HIDE DEF S
  <2>0. Len(S[g]) \in Nat BY <1>1
  <2>1. CASE g # h BY <1>2, <2>1, <2>0
  <2>2. CASE g = h /\ i < j
    <3>1. i \in 1..Len(R[h]) BY <1>2, <1>3, <2>2
    <3> QED BY <2>2, <3>1
  <2>3. CASE g = h /\ i > j
    <3>1. i - 1 \in 1..Len(R[h]) /\ ~(i - 1 < j) /\ (i - 1) + 1 = i BY <1>2, <1>3, <2>3
    <3> QED BY <2>3, <3>1
  <2> QED BY <1>3, <2>0, <2>1, <2>2, <2>3
<1>6. /\ \A g, k \in Holders : \A i \in 1..Len(R[g]), l \in 1..Len(R[k]) :
           R[g][i] = R[k][l] => g = k /\ i = l
      /\ \A x \in D \ {p} : \E g \in Holders : \E i \in 1..Len(R[g]) : R[g][i] = x
      /\ \A g \in Holders : \A i \in 1..Len(R[g]) : R[g][i] # p
  BY DEF Held
<1>7. \A g, k \in Holders : \A i \in 1..Len(S[g]), l \in 1..Len(S[k]) :
        S[g][i] = S[k][l] => g = k /\ i = l
  <2> SUFFICES ASSUME NEW g \in Holders, NEW k \in Holders,
                      NEW i \in 1..Len(S[g]), NEW l \in 1..Len(S[k]), S[g][i] = S[k][l]
               PROVE  g = k /\ i = l OBVIOUS
  <2> HIDE DEF S, To
  <2>1. g = h /\ i = j => S[g][i] = p BY <1>2
  <2>2. k = h /\ l = j => S[k][l] = p BY <1>2
  <2>3. CASE ~(g = h /\ i = j) /\ ~(k = h /\ l = j)
    <3>1. PICK x \in 1..Len(R[g]), y \in 1..Len(R[k]) : To(g, x) = i /\ To(k, y) = l
      BY <1>5, <2>3
    <3> QED BY <1>4, <1>6, <3>1
  <2>4. CASE ~(g = h /\ i = j) /\ (k = h /\ l = j)
    <3>1. PICK x \in 1..Len(R[g]) : To(g, x) = i BY <1>5, <2>4
    <3> QED BY <1>4, <1>6, <2>2, <2>4, <3>1, SMTT(30)
  <2>5. CASE (g = h /\ i = j) /\ ~(k = h /\ l = j)
    <3>1. PICK y \in 1..Len(R[k]) : To(k, y) = l BY <1>5, <2>5
    <3> QED BY <1>4, <1>6, <2>1, <2>5, <3>1
  <2> QED BY <2>3, <2>4, <2>5
<1>8. \A x \in D : \E g \in Holders : \E i \in 1..Len(S[g]) : S[g][i] = x
  <2> TAKE x \in D
  <2>1. CASE x = p BY <1>2, <1>3, <2>1
  <2>2. CASE x # p
    <3> HIDE DEF S, To
    <3> QED BY <1>4, <1>6, <2>2
  <2> QED BY <2>1, <2>2
<1> HIDE DEF S
<1>9. Held(S, D, {}) BY <1>1, <1>7, <1>8 DEF Held
<1> QED BY <1>9 DEF S

\* A new page is in hand first.
LEMMA HeldNew ==
  ASSUME NEW R, NEW D, Held(R, D, {}), NEW p, p \notin D
  PROVE  Held(R, D \cup {p}, {p})
<1>1. R \in [Holders -> Seq(D)] /\ \A h \in Holders : \A i \in 1..Len(R[h]) : R[h][i] \in D
  BY DEF Held
<1>2. \A h \in Holders : R[h] \in Seq(D \cup {p}) BY <1>1
<1>3. R \in [Holders -> Seq(D \cup {p})] BY <1>1, <1>2
<1>4. \A h \in Holders : \A i \in 1..Len(R[h]) : R[h][i] \notin {p} BY <1>1
<1> QED BY <1>3, <1>4 DEF Held

\* A page in hand can be deleted.
LEMMA HeldDelete ==
  ASSUME NEW R, NEW D, NEW p, Held(R, D, {p})
  PROVE  Held(R, D \ {p}, {})
<1>1. R \in [Holders -> Seq(D)] /\ \A h \in Holders : \A i \in 1..Len(R[h]) : R[h][i] # p
  BY DEF Held
<1>2. ASSUME NEW h \in Holders PROVE R[h] \in Seq(D \ {p})
  <2>1. R[h] \in Seq(D) /\ \A i \in 1..Len(R[h]) : R[h][i] \in D \ {p} BY <1>1
  <2> DEFINE E == D \ {p}
             r == R[h]
  <2>2. r = [i \in 1..Len(r) |-> r[i]] /\ Len(r) \in Nat BY <2>1
  <2>3. \A i \in 1..Len(r) : r[i] \in E BY <2>1
  <2> HIDE DEF E, r
  <2>4. r \in Seq(E) BY <2>2, <2>3
  <2> QED BY <2>4 DEF E, r
<1>3. R \in [Holders -> Seq(D \ {p})] BY <1>1, <1>2
<1> QED BY <1>3 DEF Held

\* In the rows S, the pages at (g, k) and at (h, l) of R have changed places.
Exchanged(R, S, g, k, h, l) ==
  /\ \A a \in Holders : Len(S[a]) = Len(R[a])
  /\ \A a \in Holders : \A i \in 1..Len(S[a]) :
       S[a][i] = IF a = g /\ i = k THEN R[h][l]
                 ELSE IF a = h /\ i = l THEN R[g][k] ELSE R[a][i]

\* Two pages that change places.
LEMMA HeldSwap ==
  ASSUME NEW R, NEW D, Held(R, D, {}), NEW g \in Holders, NEW h \in Holders,
         NEW k, k \in 1..Len(R[g]), NEW l, l \in 1..Len(R[h]),
         NEW S \in [Holders -> Seq(D)], Exchanged(R, S, g, k, h, l)
  PROVE  Held(S, D, {})
<1>0. /\ \A a \in Holders : Len(S[a]) = Len(R[a])
      /\ \A a \in Holders : \A i \in 1..Len(S[a]) :
           S[a][i] = IF a = g /\ i = k THEN R[h][l]
                     ELSE IF a = h /\ i = l THEN R[g][k] ELSE R[a][i]
  BY DEF Exchanged
<1>1. /\ \A a, b \in Holders : \A i \in 1..Len(R[a]), j \in 1..Len(R[b]) :
           R[a][i] = R[b][j] => a = b /\ i = j
      /\ \A x \in D : \E a \in Holders : \E i \in 1..Len(R[a]) : R[a][i] = x
  BY DEF Held
<1>2. ASSUME NEW a \in Holders, NEW b \in Holders,
             NEW i \in 1..Len(S[a]), NEW j \in 1..Len(S[b]), S[a][i] = S[b][j]
      PROVE  a = b /\ i = j
  <2> DEFINE Old(d, m) == IF d = g /\ m = k THEN R[h][l]
                          ELSE IF d = h /\ m = l THEN R[g][k] ELSE R[d][m]
  <2>1. i \in 1..Len(R[a]) /\ j \in 1..Len(R[b]) BY <1>0
  <2>2. S[a][i] = Old(a, i) /\ S[b][j] = Old(b, j) BY <1>0
  <2>3. Old(a, i) = Old(b, j) BY <1>2, <2>2
  <2>4. k \in 1..Len(R[g]) /\ l \in 1..Len(R[h]) OBVIOUS
  <2> DEFINE X == R[h][l]
             Y == R[g][k]
             U == R[a][i]
             V == R[b][j]
  <2>5. (IF a = g /\ i = k THEN X ELSE IF a = h /\ i = l THEN Y ELSE U)
        = (IF b = g /\ j = k THEN X ELSE IF b = h /\ j = l THEN Y ELSE V)
    BY <2>3
  <2>6. U = V => a = b /\ i = j BY ONLY <1>1, <2>1, a \in Holders, b \in Holders, SMTT(30)
  <2>7. Y = X => g = h /\ k = l BY ONLY <1>1, <2>4, g \in Holders, h \in Holders
  <2>8. U = X => a = h /\ i = l BY ONLY <1>1, <2>1, <2>4, a \in Holders, h \in Holders
  <2>9. U = Y => a = g /\ i = k BY ONLY <1>1, <2>1, <2>4, a \in Holders, g \in Holders
  <2>10. V = X => b = h /\ j = l BY ONLY <1>1, <2>1, <2>4, b \in Holders, h \in Holders
  <2>11. V = Y => b = g /\ j = k BY ONLY <1>1, <2>1, <2>4, b \in Holders, g \in Holders
  <2> HIDE DEF X, Y, U, V
  <2> QED BY ONLY <2>5, <2>6, <2>7, <2>8, <2>9, <2>10, <2>11
<1>3. ASSUME NEW x \in D PROVE \E a \in Holders : \E i \in 1..Len(S[a]) : S[a][i] = x
  <2>0. PICK a \in Holders : \E i \in 1..Len(R[a]) : R[a][i] = x BY <1>1
  <2>1. PICK i \in 1..Len(R[a]) : R[a][i] = x BY <2>0
  <2>2. CASE a = g /\ i = k
    <3>1. l \in 1..Len(S[h]) BY <1>0
    <3>2. S[h][l] = x BY <1>0, <2>1, <2>2, <3>1
    <3> QED BY <3>1, <3>2
  <2>3. CASE a = h /\ i = l
    <3>1. k \in 1..Len(S[g]) BY <1>0
    <3>2. S[g][k] = x BY <1>0, <2>1, <2>3, <3>1
    <3> QED BY <3>1, <3>2
  <2>4. CASE ~(a = g /\ i = k) /\ ~(a = h /\ i = l) BY <1>0, <2>1, <2>4
  <2> QED BY <2>2, <2>3, <2>4
<1> QED BY <1>2, <1>3 DEF Held

(*** The states the operations go through. ***)

PageBytes == [Offsets -> Nat \cup {Junk}]
Rows(s) == [h \in Holders |-> Row(s, h)]

\* A store, a pool and a control block per buffer.
Shaped(s) ==
  /\ s = [heap |-> s.heap, pool |-> s.pool, buf |-> s.buf]
  /\ s.buf = [b \in Buffers |-> [pages |-> Pages(s, b), begin |-> Begin(s, b), end |-> End(s, b)]]

\* What the steps do to a state, part by part: other pages for b, another range, another store.
Paged(s, t, b, ps) ==
  /\ Shaped(t) /\ t.heap = s.heap /\ t.pool = s.pool
  /\ \A a \in Buffers : /\ Pages(t, a) = (IF a = b THEN ps ELSE Pages(s, a))
                        /\ Begin(t, a) = Begin(s, a) /\ End(t, a) = End(s, a)
Ranged(s, t, b, from, to) ==
  /\ Shaped(t) /\ t.heap = s.heap /\ t.pool = s.pool
  /\ \A a \in Buffers : /\ Pages(t, a) = Pages(s, a)
                        /\ Begin(t, a) = (IF a = b THEN from ELSE Begin(s, a))
                        /\ End(t, a) = (IF a = b THEN to ELSE End(s, a))
Stored(s, t, H, Q) ==
  /\ Shaped(t) /\ t.heap = H /\ t.pool = Q
  /\ \A a \in Buffers : /\ Pages(t, a) = Pages(s, a)
                        /\ Begin(t, a) = Begin(s, a) /\ End(t, a) = End(s, a)

\* The pool is not one of the buffers.
LEMMA PoolIsNoBuffer == "pool" \notin Buffers
BY IoBufferAssumption

\* Another control block for b.
LEMMA BlockIs ==
  ASSUME NEW s, Shaped(s), NEW b \in Buffers, NEW ps, NEW x, NEW y,
         NEW C, C = [s.buf EXCEPT ![b] = [pages |-> ps, begin |-> x, end |-> y]],
         NEW t, t = [heap |-> s.heap, pool |-> s.pool, buf |-> C]
  PROVE  /\ Shaped(t) /\ t.heap = s.heap /\ t.pool = s.pool
         /\ \A a \in Buffers : /\ Pages(t, a) = (IF a = b THEN ps ELSE Pages(s, a))
                               /\ Begin(t, a) = (IF a = b THEN x ELSE Begin(s, a))
                               /\ End(t, a) = (IF a = b THEN y ELSE End(s, a))
<1> DEFINE B == s.buf
<1>1. B = [a \in Buffers |-> [pages |-> B[a].pages, begin |-> B[a].begin, end |-> B[a].end]]
  BY DEF Shaped, Pages, Begin, End
<1>2. C = [B EXCEPT ![b] = [pages |-> ps, begin |-> x, end |-> y]] OBVIOUS
<1> HIDE DEF B
<1>3. \A a \in Buffers :
        /\ C[a].pages = (IF a = b THEN ps ELSE B[a].pages)
        /\ C[a].begin = (IF a = b THEN x ELSE B[a].begin)
        /\ C[a].end = (IF a = b THEN y ELSE B[a].end)
        /\ C[a] = [pages |-> C[a].pages, begin |-> C[a].begin, end |-> C[a].end]
  BY ONLY <1>1, <1>2
<1>4. C = [a \in Buffers |-> C[a]] BY ONLY <1>1, <1>2
<1>5. C = [a \in Buffers |-> [pages |-> C[a].pages, begin |-> C[a].begin, end |-> C[a].end]]
  BY ONLY <1>3, <1>4
<1>6. t = [heap |-> s.heap, pool |-> s.pool, buf |-> C] OBVIOUS
<1> QED BY ONLY <1>3, <1>5, <1>6 DEF Shaped, Pages, Begin, End, B

\* A state is a record, and so is each control block.
LEMMA RecordsAre ==
  ASSUME NEW s, Shaped(s), NEW b \in Buffers
  PROVE  /\ s = [heap |-> s.heap, pool |-> s.pool, buf |-> s.buf]
         /\ s.buf[b] = [pages |-> Pages(s, b), begin |-> Begin(s, b), end |-> End(s, b)]
BY DEF Shaped

\* New pages for b.
LEMMA SetPagesIs ==
  ASSUME NEW s, Shaped(s), NEW b \in Buffers, NEW ps
  PROVE  Paged(s, SetPages(s, b, ps), b, ps)
<1> DEFINE t == [s EXCEPT !.buf[b].pages = ps]
           k == [s.buf[b] EXCEPT !.pages = ps]
           C == [s.buf EXCEPT ![b] = k]
<1>1. /\ s = [heap |-> s.heap, pool |-> s.pool, buf |-> s.buf]
      /\ s.buf[b] = [pages |-> Pages(s, b), begin |-> Begin(s, b), end |-> End(s, b)]
  BY RecordsAre
<1>2. t = [heap |-> s.heap, pool |-> s.pool, buf |-> C] BY ONLY <1>1
<1>3. k = [pages |-> ps, begin |-> Begin(s, b), end |-> End(s, b)] BY ONLY <1>1
<1> HIDE DEF t, k
<1>4. Paged(s, t, b, ps) BY <1>2, <1>3, BlockIs DEF Paged
<1> QED BY <1>4 DEF t, SetPages

\* A new begin for b.
LEMMA BeginIs ==
  ASSUME NEW s, Shaped(s), NEW b \in Buffers, NEW x
  PROVE  Ranged(s, [s EXCEPT !.buf[b].begin = x], b, x, End(s, b))
<1> DEFINE t == [s EXCEPT !.buf[b].begin = x]
           k == [s.buf[b] EXCEPT !.begin = x]
           C == [s.buf EXCEPT ![b] = k]
<1>1. /\ s = [heap |-> s.heap, pool |-> s.pool, buf |-> s.buf]
      /\ s.buf[b] = [pages |-> Pages(s, b), begin |-> Begin(s, b), end |-> End(s, b)]
  BY RecordsAre
<1>2. t = [heap |-> s.heap, pool |-> s.pool, buf |-> C] BY ONLY <1>1
<1>3. k = [pages |-> Pages(s, b), begin |-> x, end |-> End(s, b)] BY ONLY <1>1
<1> HIDE DEF t, k
<1>4. Ranged(s, t, b, x, End(s, b)) BY <1>2, <1>3, BlockIs DEF Ranged
<1> QED BY <1>4 DEF t

\* A new end for b.
LEMMA EndIs ==
  ASSUME NEW s, Shaped(s), NEW b \in Buffers, NEW x
  PROVE  Ranged(s, [s EXCEPT !.buf[b].end = x], b, Begin(s, b), x)
<1> DEFINE t == [s EXCEPT !.buf[b].end = x]
           k == [s.buf[b] EXCEPT !.end = x]
           C == [s.buf EXCEPT ![b] = k]
<1>1. /\ s = [heap |-> s.heap, pool |-> s.pool, buf |-> s.buf]
      /\ s.buf[b] = [pages |-> Pages(s, b), begin |-> Begin(s, b), end |-> End(s, b)]
  BY RecordsAre
<1>2. t = [heap |-> s.heap, pool |-> s.pool, buf |-> C] BY ONLY <1>1
<1>3. k = [pages |-> Pages(s, b), begin |-> Begin(s, b), end |-> x] BY ONLY <1>1
<1> HIDE DEF t, k
<1>4. Ranged(s, t, b, Begin(s, b), x) BY <1>2, <1>3, BlockIs DEF Ranged
<1> QED BY <1>4 DEF t

\* A new range for b.
LEMMA SetRangeIs ==
  ASSUME NEW s, Shaped(s), NEW b \in Buffers, NEW x, NEW y
  PROVE  Ranged(s, SetRange(s, b, x, y), b, x, y)
<1> DEFINE u == [s EXCEPT !.buf[b].begin = x]
           t == [u EXCEPT !.buf[b].end = y]
<1>1. Ranged(s, u, b, x, End(s, b)) BY BeginIs
<1>2. t = SetRange(s, b, x, y)
  <2>1. s = [heap |-> s.heap, pool |-> s.pool, buf |-> s.buf] /\ b \in DOMAIN s.buf
    BY DEF Shaped
  <2> QED BY <2>1 DEF SetRange
<1> HIDE DEF u
<1>3. Shaped(u) BY <1>1 DEF Ranged
<1>4. Ranged(u, t, b, Begin(u, b), y) BY <1>3, EndIs
<1> HIDE DEF t
<1>5. Ranged(s, t, b, x, y) BY <1>1, <1>4 DEF Ranged
<1> QED BY <1>2, <1>5

\* Another store and another pool.
LEMMA StoreIs ==
  ASSUME NEW s, Shaped(s), NEW H, NEW Q
  PROVE  /\ Stored(s, [s EXCEPT !.heap = H], H, s.pool)
         /\ Stored(s, [s EXCEPT !.pool = Q], s.heap, Q)
<1>1. s = [heap |-> s.heap, pool |-> s.pool, buf |-> s.buf] BY DEF Shaped
<1> DEFINE t == [s EXCEPT !.heap = H]
           u == [s EXCEPT !.pool = Q]
<1>2. t = [heap |-> H, pool |-> s.pool, buf |-> s.buf] BY <1>1
<1>3. u = [heap |-> s.heap, pool |-> Q, buf |-> s.buf] BY <1>1
<1> HIDE DEF t, u
<1>4. Stored(s, t, H, s.pool) BY <1>2 DEF Stored, Shaped, Pages, Begin, End
<1>5. Stored(s, u, s.heap, Q) BY <1>3 DEF Stored, Shaped, Pages, Begin, End
<1> QED BY <1>4, <1>5 DEF t, u

\* The rows of a state.
LEMMA RowsAre ==
  ASSUME NEW s
  PROVE  /\ Rows(s) = [h \in Holders |-> Rows(s)[h]]
         /\ Rows(s)["pool"] = s.pool
         /\ \A b \in Buffers : Rows(s)[b] = Pages(s, b)
BY PoolIsNoBuffer DEF Rows, Row, Holders

\* Other pages in the row of b.
RowPut(R, b, ps) == [R EXCEPT ![b] = ps]

\* New pages for b change its row.
LEMMA RowsPaged ==
  ASSUME NEW s, NEW t, NEW b \in Buffers, NEW ps, Paged(s, t, b, ps)
  PROVE  Rows(t) = RowPut(Rows(s), b, ps)
<1>1. b \in Holders BY DEF Holders
<1>2. ASSUME NEW h \in Holders PROVE Row(t, h) = IF h = b THEN ps ELSE Row(s, h)
  BY PoolIsNoBuffer DEF Paged, Row, Holders
<1> QED BY <1>1, <1>2 DEF Rows, RowPut

\* A range changes no row.
LEMMA RowsRanged ==
  ASSUME NEW s, NEW t, NEW b, NEW x, NEW y, Ranged(s, t, b, x, y)
  PROVE  Rows(t) = Rows(s)
<1>1. ASSUME NEW h \in Holders PROVE Row(t, h) = Row(s, h)
  BY PoolIsNoBuffer DEF Ranged, Row, Holders
<1> QED BY <1>1 DEF Rows

\* Another pool changes its own.
LEMMA RowsStored ==
  ASSUME NEW s, NEW t, NEW H, NEW Q, Stored(s, t, H, Q)
  PROVE  Rows(t) = [Rows(s) EXCEPT !["pool"] = Q]
<1>1. "pool" \in Holders BY DEF Holders
<1>2. ASSUME NEW h \in Holders PROVE Row(t, h) = IF h = "pool" THEN Q ELSE Row(s, h)
  BY PoolIsNoBuffer DEF Stored, Row, Holders
<1> QED BY <1>1, <1>2 DEF Rows

\* Finitely many pages, each with its cells.
Heaped(H) == IsFiniteSet(DOMAIN H) /\ H \in [DOMAIN H -> PageBytes]

\* Every page but those in hand is in one place.
Sound(s, hand) == Shaped(s) /\ Heaped(s.heap) /\ Held(Rows(s), DOMAIN s.heap, hand)

\* The bytes of a buffer are within its pages, and were written to.
Ready(s, a) ==
  IF Begin(s, a) = NoPosition THEN End(s, a) = 0
  ELSE /\ Begin(s, a) \in Nat /\ End(s, a) \in Nat
       /\ Begin(s, a) <= End(s, a) /\ End(s, a) <= Len(Pages(s, a)) * PageSize
       /\ \A x \in Begin(s, a)..End(s, a) - 1 : ByteAt(s, a, x) \in Nat

\* What the operations keep; they may leave a buffer whose begin has come to its end.
Fine(s) == Sound(s, {}) /\ \A a \in Buffers : Ready(s, a)

\* The bytes of a, from begin to end.
Text(s, a) ==
  IF Begin(s, a) = NoPosition THEN <<>>
  ELSE [i \in 1..End(s, a) - Begin(s, a) |-> ByteAt(s, a, Begin(s, a) + i - 1)]

\* A buffer is ready, and has the text it had.
Intact(s, t, a) == Ready(t, a) /\ Text(t, a) = Text(s, a)
SameTexts(s, t) == \A a \in Buffers : Text(t, a) = Text(s, a)

\* The pages with bytes of a hold the same bytes d places on.
Carried(s, t, a, d) ==
  \A i \in 1..Len(Pages(s, a)) :
    i > Begin(s, a) \div PageSize /\ i <= ((End(s, a) - 1) \div PageSize) + 1
    => t.heap[Pages(t, a)[i + d]] = s.heap[Pages(s, a)[i]]

\* The positions of b have moved by e, and no others.
Shifted(s, t, b, e) ==
  \A a \in Buffers : /\ Begin(t, a) = (IF a = b THEN Begin(s, a) + e ELSE Begin(s, a))
                     /\ End(t, a) = (IF a = b THEN End(s, a) + e ELSE End(s, a))

\* The pages of a sound state.
LEMMA SoundParts ==
  ASSUME NEW s, NEW hand, Sound(s, hand)
  PROVE  /\ s.pool \in Seq(DOMAIN s.heap)
         /\ \A b \in Buffers : Pages(s, b) \in Seq(DOMAIN s.heap) /\ Len(Pages(s, b)) \in Nat
         /\ \A b \in Buffers : b \in Holders
         /\ "pool" \in Holders
<1>1. Rows(s) \in [Holders -> Seq(DOMAIN s.heap)] BY DEF Sound, Held
<1>2. "pool" \in Holders /\ \A b \in Buffers : b \in Holders BY DEF Holders
<1>3. s.pool \in Seq(DOMAIN s.heap) BY <1>1, <1>2, RowsAre
<1>4. \A b \in Buffers : Pages(s, b) \in Seq(DOMAIN s.heap) BY <1>1, <1>2, RowsAre
<1> QED BY <1>2, <1>3, <1>4

\* Positions of a ready buffer.
LEMMA ReadyParts ==
  ASSUME NEW s, NEW a, Ready(s, a)
  PROVE  /\ Begin(s, a) \in Int /\ End(s, a) \in Nat
         /\ Begin(s, a) # NoPosition =>
              /\ Begin(s, a) \in Nat /\ End(s, a) \in Nat
              /\ Begin(s, a) <= End(s, a) /\ End(s, a) <= Len(Pages(s, a)) * PageSize
              /\ \A x \in Begin(s, a)..End(s, a) - 1 : ByteAt(s, a, x) \in Nat
         /\ Begin(s, a) = NoPosition => End(s, a) = 0
BY DEF Ready, NoPosition

\* The text of a ready buffer.
LEMMA TextIs ==
  ASSUME NEW s, NEW a, Ready(s, a)
  PROVE  /\ Text(s, a) \in Seq(Nat)
         /\ Begin(s, a) = NoPosition => Text(s, a) = <<>>
         /\ Begin(s, a) # NoPosition =>
              /\ Len(Text(s, a)) = End(s, a) - Begin(s, a)
              /\ \A i \in 1..Len(Text(s, a)) : Text(s, a)[i] = ByteAt(s, a, Begin(s, a) + i - 1)
<1>1. CASE Begin(s, a) = NoPosition BY <1>1 DEF Text
<1>2. CASE Begin(s, a) # NoPosition
  <2> DEFINE f == Begin(s, a)
             n == End(s, a) - Begin(s, a)
  <2>1. f \in Nat /\ n \in Nat /\ \A x \in f..f + n - 1 : ByteAt(s, a, x) \in Nat
    BY <1>2, ReadyParts
  <2>2. Text(s, a) = [i \in 1..n |-> ByteAt(s, a, f + i - 1)] BY <1>2 DEF Text
  <2> HIDE DEF f, n
  <2>3. \A i \in 1..n : ByteAt(s, a, f + i - 1) \in Nat BY <2>1
  <2>4. Text(s, a) \in Seq(Nat) /\ Len(Text(s, a)) = n BY <2>1, <2>2, <2>3
  <2> QED BY <1>2, <2>2, <2>4 DEF f, n
<1> QED BY <1>1, <1>2

\* The same bytes, e further, are the same text.
LEMMA SameText ==
  ASSUME NEW s, NEW t, NEW a, NEW e \in Int, Ready(s, a), Begin(s, a) # NoPosition,
         Begin(t, a) # NoPosition, Begin(t, a) = Begin(s, a) + e, End(t, a) = End(s, a) + e,
         \A y \in Begin(t, a)..End(t, a) - 1 : ByteAt(t, a, y) = ByteAt(s, a, y - e)
  PROVE  Text(t, a) = Text(s, a)
<1> DEFINE n == End(s, a) - Begin(s, a)
           f == Begin(s, a)
           g == Begin(t, a)
<1>1. f \in Nat /\ n \in Nat /\ g \in Int /\ g = f + e /\ End(t, a) - g = n
      /\ End(t, a) = g + n
  BY ReadyParts
<1>2. ASSUME NEW i \in 1..n PROVE ByteAt(t, a, g + i - 1) = ByteAt(s, a, f + i - 1)
  <2>1. g + i - 1 \in g..End(t, a) - 1 /\ (g + i - 1) - e = f + i - 1 BY <1>1
  <2>2. ByteAt(t, a, g + i - 1) = ByteAt(s, a, (g + i - 1) - e) BY <2>1
  <2> QED BY <2>1, <2>2
<1>3. Text(s, a) = [i \in 1..n |-> ByteAt(s, a, f + i - 1)] BY DEF Text
<1>4. Text(t, a) = [i \in 1..n |-> ByteAt(t, a, g + i - 1)] BY <1>1 DEF Text
<1> QED BY <1>2, <1>3, <1>4

\* A byte of a buffer is on one of its pages with bytes.
LEMMA LivePage ==
  ASSUME NEW s, NEW a, Len(Pages(s, a)) \in Nat, Ready(s, a), Begin(s, a) # NoPosition,
         NEW x \in Begin(s, a)..End(s, a) - 1
  PROVE  /\ (x \div PageSize) + 1 \in 1..Len(Pages(s, a))
         /\ (x \div PageSize) + 1 > Begin(s, a) \div PageSize
         /\ (x \div PageSize) + 1 <= ((End(s, a) - 1) \div PageSize) + 1
         /\ x \div PageSize \in Nat /\ x % PageSize \in Offsets
<1> DEFINE l == Len(Pages(s, a))
           f == Begin(s, a)
           e == End(s, a) - 1
           g == l * PageSize
<1>1. f \in Nat /\ e \in Int /\ e < g /\ l \in Nat /\ x \in Nat /\ f <= x /\ x <= e /\ g \in Int
  BY ReadyParts, SizeIs
<1> HIDE DEF f, e, l
<1>2. x < l * PageSize BY <1>1, SizeIs
<1>3. x \div PageSize < l /\ x \div PageSize \in Nat BY <1>1, <1>2, QuotBelow, QuotNat
<1>4. f \div PageSize <= x \div PageSize BY <1>1, QuotMono
<1>5. x \div PageSize <= e \div PageSize BY <1>1, QuotMono
<1>6. f \div PageSize \in Int /\ e \div PageSize \in Int /\ x % PageSize \in Offsets BY <1>1, Quot
<1>7. /\ (x \div PageSize) + 1 \in 1..l /\ (x \div PageSize) + 1 > f \div PageSize
      /\ (x \div PageSize) + 1 <= (e \div PageSize) + 1
  BY <1>1, <1>3, <1>4, <1>5, <1>6
<1> QED BY <1>3, <1>6, <1>7 DEF f, e, l

\* Where the pages with bytes are carried over, the buffer stays ready and has its text.
LEMMA CarriedKeeps ==
  ASSUME NEW s, NEW t, NEW a, Len(Pages(s, a)) \in Nat, Ready(s, a), NEW d \in Int, NEW e \in Int,
         (d = 0 /\ e = 0) \/ (d = 1 /\ e = PageSize) \/ (d = -1 /\ e = -PageSize),
         Carried(s, t, a, d),
         Begin(t, a) = Begin(s, a) + e, End(t, a) = End(s, a) + e,
         Begin(s, a) = NoPosition => e = 0,
         Begin(s, a) # NoPosition =>
           Begin(t, a) \in Nat /\ End(t, a) <= Len(Pages(t, a)) * PageSize
  PROVE  Intact(s, t, a)
<1>1. CASE Begin(s, a) = NoPosition
  <2>1. Begin(t, a) = NoPosition /\ End(t, a) = 0 BY <1>1, ReadyParts DEF NoPosition
  <2> QED BY <1>1, <2>1 DEF Ready, Text, Intact
<1>2. CASE Begin(s, a) # NoPosition
  <2>1. /\ Begin(s, a) \in Nat /\ End(s, a) \in Nat /\ Begin(s, a) <= End(s, a)
        /\ \A x \in Begin(s, a)..End(s, a) - 1 : ByteAt(s, a, x) \in Nat
    BY <1>2, ReadyParts
  <2>2. ASSUME NEW y \in Begin(t, a)..End(t, a) - 1
        PROVE  ByteAt(t, a, y) \in Nat /\ ByteAt(t, a, y) = ByteAt(s, a, y - e)
    <3> DEFINE x == y - e
               i == (x \div PageSize) + 1
    <3>1. x \in Begin(s, a)..End(s, a) - 1 /\ x \in Int /\ y \in Int /\ y = x + e
      BY <2>1
    <3>2. (y \div PageSize) + 1 = i + d /\ y % PageSize = x % PageSize
      <4> HIDE DEF x
      <4>1. /\ (x + PageSize) \div PageSize = (x \div PageSize) + 1
            /\ (x + PageSize) % PageSize = x % PageSize
            /\ (x - PageSize) \div PageSize = (x \div PageSize) - 1
            /\ (x - PageSize) % PageSize = x % PageSize
            /\ x \div PageSize \in Int
        BY ONLY <3>1, QuotNext, QuotBefore, Quot
      <4>2. CASE d = 0 /\ e = 0 BY <4>1, <4>2, <3>1
      <4>3. CASE d = 1 /\ e = PageSize
        <5>1. y = x + PageSize BY <3>1, <4>3
        <5> QED BY <4>1, <4>3, <5>1
      <4>4. CASE d = -1 /\ e = -PageSize
        <5>1. y = x - PageSize BY <3>1, <4>4, SizeIs
        <5> QED BY <4>1, <4>4, <5>1
      <4> QED BY <4>2, <4>3, <4>4
    <3> HIDE DEF x
    <3>3. /\ i \in 1..Len(Pages(s, a)) /\ i > Begin(s, a) \div PageSize
          /\ i <= ((End(s, a) - 1) \div PageSize) + 1
      BY <1>2, <3>1, LivePage
    <3> HIDE DEF i
    <3>4. t.heap[Pages(t, a)[i + d]] = s.heap[Pages(s, a)[i]] BY <3>3 DEF Carried
    <3>5. ByteAt(t, a, y) = t.heap[Pages(t, a)[i + d]][x % PageSize]
      BY <3>2 DEF ByteAt, PageAt
    <3>6. ByteAt(s, a, x) = s.heap[Pages(s, a)[i]][x % PageSize] BY DEF ByteAt, PageAt, i
    <3> QED BY <2>1, <3>1, <3>4, <3>5, <3>6 DEF x
  <2>3. /\ Begin(t, a) \in Nat /\ End(t, a) \in Nat /\ Begin(t, a) <= End(t, a)
        /\ End(t, a) <= Len(Pages(t, a)) * PageSize /\ Begin(t, a) # NoPosition
    BY <1>2, <2>1, SizeIs DEF NoPosition
  <2>4. Ready(t, a) BY <2>2, <2>3 DEF Ready
  <2>5. Text(t, a) = Text(s, a) BY <1>2, <2>2, <2>3, SameText
  <2> QED BY <2>4, <2>5 DEF Intact
<1> QED BY <1>1, <1>2

\* A buffer that keeps its pages, their bytes and its range stays ready and has its text.
LEMMA SameKeeps ==
  ASSUME NEW s, NEW t, NEW a, Len(Pages(s, a)) \in Nat, Ready(s, a),
         Pages(t, a) = Pages(s, a), Begin(t, a) = Begin(s, a), End(t, a) = End(s, a),
         \A i \in 1..Len(Pages(s, a)) : t.heap[Pages(s, a)[i]] = s.heap[Pages(s, a)[i]]
  PROVE  Intact(s, t, a)
<1>1. Begin(s, a) \in Int /\ End(s, a) \in Int BY ReadyParts
<1>2. Carried(s, t, a, 0) BY DEF Carried
<1> DEFINE z == 0
<1>3. /\ z \in Int /\ z = 0 /\ Begin(t, a) = Begin(s, a) + z /\ End(t, a) = End(s, a) + z
      /\ Carried(s, t, a, z)
  BY <1>1, <1>2
<1>4. Begin(s, a) # NoPosition =>
        Begin(t, a) \in Nat /\ End(t, a) <= Len(Pages(t, a)) * PageSize
  BY ReadyParts
<1>5. (z = 0 /\ z = 0) \/ (z = 1 /\ z = PageSize) \/ (z = -1 /\ z = -PageSize) BY <1>3
<1>6. Begin(s, a) = NoPosition => z = 0 BY <1>3
<1>7. Len(Pages(s, a)) \in Nat /\ Ready(s, a) OBVIOUS
<1> HIDE DEF z
<1> QED BY ONLY <1>3, <1>4, <1>5, <1>6, <1>7, CarriedKeeps

(*** Pages that come from the pool, or from new. ***)

\* In u, the page p is in hand; the rest is as in s.
InHand(s, u, p) ==
  /\ Sound(u, {p}) /\ DOMAIN s.heap \subseteq DOMAIN u.heap
  /\ \A q \in DOMAIN s.heap : u.heap[q] = s.heap[q]
  /\ \A a \in Buffers : /\ Pages(u, a) = Pages(s, a)
                        /\ Begin(u, a) = Begin(s, a) /\ End(u, a) = End(s, a)

\* A page can always be found that is not allocated.
LEMMA NewPageIs ==
  ASSUME NEW s, IsFiniteSet(DOMAIN s.heap)
  PROVE  NewPage(s) \notin DOMAIN s.heap
<1> DEFINE D == DOMAIN s.heap
           n == Cardinality(D)
           C == {<<"new", i>> : i \in 1..n + 1}
<1>1. n \in Nat BY FS_CardinalityType
<1>2. \E p \in C : p \notin D
  <2> SUFFICES ASSUME C \subseteq D PROVE FALSE OBVIOUS
  <2> DEFINE I == 1..n + 1
             f == [i \in I |-> <<"new", i>>]
  <2>1. f \in [I -> D] OBVIOUS
  <2>2. \A x, y \in I : f[x] = f[y] => x = y OBVIOUS
  <2> HIDE DEF D, n
  <2>3. IsFiniteSet(I) /\ Cardinality(I) = n + 1
    <3>1. n + 1 \in Int /\ 1 \in Int /\ ~(1 > n + 1) /\ n + 1 - 1 + 1 = n + 1 BY <1>1
    <3> QED BY ONLY <3>1, FS_Interval
  <2> HIDE DEF I, f
  <2>4. f \in Injection(I, D) BY <2>1, <2>2 DEF Injection, IsInjective
  <2>5. IsFiniteSet(D) BY DEF D
  <2>6. Cardinality(I) <= Cardinality(D) BY ONLY <2>4, <2>5, FS_Injection
  <2> QED BY <1>1, <2>3, <2>6 DEF n
<1> QED BY <1>2 DEF NewPage

\* An allocated page is in hand.
LEMMA AllocateIs ==
  ASSUME NEW s, Sound(s, {}), NEW p, p \notin DOMAIN s.heap
  PROVE  InHand(s, Allocate(s, p), p)
<1> DEFINE D == DOMAIN s.heap
           H == [q \in D \cup {p} |-> IF q = p THEN [o \in Offsets |-> Junk] ELSE s.heap[q]]
           u == [s EXCEPT !.heap = H]
<1>1. Shaped(s) /\ Heaped(s.heap) /\ Held(Rows(s), D, {}) BY DEF Sound
<1>2. u = Allocate(s, p) BY <1>1 DEF Allocate, Shaped
<1>3. Heaped(H)
  <2>1. DOMAIN H = D \cup {p} /\ IsFiniteSet(D) BY <1>1 DEF Heaped
  <2>2. IsFiniteSet(D \cup {p})
    <3> HIDE DEF D
    <3> QED BY <2>1, FS_AddElement
  <2>3. [o \in Offsets |-> Junk] \in PageBytes BY DEF PageBytes
  <2>4. \A q \in D : s.heap[q] \in PageBytes BY <1>1 DEF Heaped
  <2>5. H \in [D \cup {p} -> PageBytes]
    <3> HIDE DEF D
    <3> QED BY <2>3, <2>4
  <2> QED BY <2>1, <2>2, <2>5 DEF Heaped
<1>4. DOMAIN H = D \cup {p} /\ \A q \in D : H[q] = s.heap[q]
  <2>1. p \notin D OBVIOUS
  <2> HIDE DEF D
  <2> QED BY <2>1
<1> HIDE DEF H
<1>5. Stored(s, u, H, s.pool) BY <1>1, StoreIs
<1>6. Rows(u) = Rows(s)
  <2>1. Rows(u) = [Rows(s) EXCEPT !["pool"] = s.pool] BY <1>5, RowsStored
  <2>2. "pool" \in Holders BY DEF Holders
  <2> QED BY <2>1, <2>2, RowsAre
<1>7. Held(Rows(s), D \cup {p}, {p})
  <2>1. p \notin D OBVIOUS
  <2> HIDE DEF D
  <2> QED BY <1>1, <2>1, HeldNew
<1> HIDE DEF u
<1>8. InHand(s, u, p) BY <1>3, <1>4, <1>5, <1>6, <1>7 DEF InHand, Sound, Stored
<1> QED BY <1>2, <1>8

\* new
LEMMA NewInHand ==
  ASSUME NEW s, Sound(s, {})
  PROVE  InHand(s, Allocate(s, NewPage(s)), NewPage(s))
<1>1. NewPage(s) \notin DOMAIN s.heap BY NewPageIs DEF Sound, Heaped
<1> DEFINE p == NewPage(s)
<1> HIDE DEF p
<1>2. InHand(s, Allocate(s, p), p) BY <1>1, AllocateIs DEF p
<1> QED BY <1>2 DEF p

\* mem_container::get
LEMMA GetInHand ==
  ASSUME NEW s, Sound(s, {})
  PROVE  InHand(s, MemGet(s), MemPage(s))
<1>1. CASE s.pool = <<>> BY <1>1, NewInHand DEF MemGet, MemPage
<1>2. CASE s.pool # <<>>
  <2> DEFINE D == DOMAIN s.heap
             ps == s.pool
             q == Tail(ps)
             u == [s EXCEPT !.pool = q]
  <2>1. Shaped(s) /\ Heaped(s.heap) /\ Held(Rows(s), D, {}) BY DEF Sound
  <2>2. u = MemGet(s) /\ MemPage(s) = Head(ps) BY <1>2, <2>1 DEF MemGet, MemPage, Shaped
  <2>3. "pool" \in Holders /\ Rows(s)["pool"] = ps /\ ps \in Seq(D) BY SoundParts, RowsAre
  <2> HIDE DEF ps, D
  <2>4. /\ q \in Seq(D) /\ Without(q, ps, 1) /\ Head(ps) = ps[1]
    BY <1>2, <2>3, TailIs DEF ps
  <2> HIDE DEF q
  <2>5. Stored(s, u, s.heap, q) BY <2>1, StoreIs
  <2>6. Rows(u) = [Rows(s) EXCEPT !["pool"] = q] BY <2>5, RowsStored
  <2> HIDE DEF u
  <2> DEFINE R == Rows(s)
  <2>7. Held(R, D, {}) /\ "pool" \in Holders /\ R["pool"] = ps BY <2>1, <2>3
  <2> HIDE DEF R
  <2>8. Held([R EXCEPT !["pool"] = q], D, {R["pool"][1]}) BY <2>4, <2>7, HeldTake
  <2>9. Held(Rows(u), D, {Head(ps)}) BY <2>4, <2>6, <2>7, <2>8 DEF R
  <2>10. InHand(s, u, Head(ps)) BY <2>1, <2>5, <2>9 DEF InHand, Sound, Stored, D
  <2> QED BY <2>2, <2>10
<1> QED BY <1>1, <1>2

\* The page in hand is put behind or before the pages of b.
LEMMA PutIs ==
  ASSUME NEW s, NEW u, NEW p, Fine(s), InHand(s, u, p), NEW b \in Buffers
  PROVE  /\ Paged(u, SetPages(u, b, Append(Pages(s, b), p)), b, Append(Pages(s, b), p))
         /\ Sound(SetPages(u, b, Append(Pages(s, b), p)), {})
         /\ Paged(u, SetPages(u, b, <<p>> \o Pages(s, b)), b, <<p>> \o Pages(s, b))
         /\ Sound(SetPages(u, b, <<p>> \o Pages(s, b)), {})
<1> DEFINE D == DOMAIN u.heap
           R == Rows(u)
           ps == Pages(u, b)
<1>1. Shaped(u) /\ Heaped(u.heap) /\ Held(R, D, {p}) BY DEF InHand, Sound
<1>2. /\ b \in Holders /\ R[b] = ps /\ ps \in Seq(D) /\ p \in D /\ ps = Pages(s, b)
      /\ Len(ps) \in Nat
  <2>1. Sound(u, {p}) BY DEF InHand
  <2>2. p \in D BY <1>1 DEF Held
  <2> QED BY <2>1, <2>2, SoundParts, RowsAre DEF InHand
<1> HIDE DEF D, R, ps
<1> DEFINE q == Append(ps, p)
           r == <<p>> \o ps
           t == SetPages(u, b, q)
           v == SetPages(u, b, r)
           l == Len(ps) + 1
<1>3. q \in Seq(D) /\ Without(R[b], q, l) /\ q[l] = p BY <1>2, AppendIs
<1>4. r \in Seq(D) /\ Without(R[b], r, 1) /\ r[1] = p BY <1>2, InFrontIs
<1> HIDE DEF q, r, l
<1>5. Paged(u, t, b, q) /\ Paged(u, v, b, r) BY <1>1, SetPagesIs
<1> HIDE DEF t, v
<1>6. Rows(t) = [R EXCEPT ![b] = q] /\ Rows(v) = [R EXCEPT ![b] = r]
  <2>1. Rows(t) = RowPut(Rows(u), b, q) /\ Rows(v) = RowPut(Rows(u), b, r)
    BY ONLY <1>5, RowsPaged, b \in Buffers
  <2> QED BY <2>1 DEF R, RowPut
<1>7. Held([R EXCEPT ![b] = q], D, {})
  <2>1. Held(R, D, {p}) /\ b \in Holders BY <1>1, <1>2
  <2> QED BY ONLY <2>1, <1>3, HeldPut
<1>8. Held([R EXCEPT ![b] = r], D, {})
  <2> DEFINE k == 1
  <2>1. Held(R, D, {p}) /\ b \in Holders /\ Without(R[b], r, k) /\ r[k] = p
    BY <1>1, <1>2, <1>4
  <2> HIDE DEF k
  <2> QED BY ONLY <2>1, <1>4, HeldPut
<1>9. Sound(t, {}) /\ Sound(v, {}) BY <1>1, <1>5, <1>6, <1>7, <1>8 DEF Sound, Paged, D
<1> QED BY <1>2, <1>5, <1>9 DEF t, v, q, r

\* b has one more page, and its positions have moved by e; every buffer has its text.
Grown(s, t, b, e) ==
  /\ Fine(t) /\ Shifted(s, t, b, e)
  /\ Len(Pages(t, b)) = Len(Pages(s, b)) + 1
  /\ \A a \in Buffers : a # b => Pages(t, a) = Pages(s, a)
  /\ SameTexts(s, t)

\* Positions move together.
LEMMA ShiftIs ==
  ASSUME NEW s, Shaped(s), NEW b \in Buffers, NEW n
  PROVE  Ranged(s, Shift(s, b, n), b, Begin(s, b) + n, End(s, b) + n)
BY SetRangeIs DEF Shift

\* A range changes nothing for the pages.
LEMMA SoundRanged ==
  ASSUME NEW s, NEW hand, Sound(s, hand), NEW t, NEW b, NEW x, NEW y, Ranged(s, t, b, x, y)
  PROVE  Sound(t, hand)
<1>1. Rows(t) = Rows(s) BY RowsRanged
<1> QED BY <1>1 DEF Sound, Ranged

\* A buffer whose pages are left alone as others come into hand.
LEMMA InHandBeside ==
  ASSUME NEW s, NEW u, NEW p, Fine(s), InHand(s, u, p), NEW t, NEW a \in Buffers, t.heap = u.heap,
         Pages(t, a) = Pages(s, a), Begin(t, a) = Begin(s, a), End(t, a) = End(s, a)
  PROVE  Intact(s, t, a)
<1>1. Len(Pages(s, a)) \in Nat /\ Pages(s, a) \in Seq(DOMAIN s.heap) /\ Ready(s, a)
  BY SoundParts DEF Fine
<1>2. \A i \in 1..Len(Pages(s, a)) : t.heap[Pages(s, a)[i]] = s.heap[Pages(s, a)[i]]
  BY <1>1 DEF InHand
<1> QED BY <1>1, <1>2, SameKeeps

\* The page in hand goes behind those of b.
LEMMA PutBehind ==
  ASSUME NEW s, NEW u, NEW p, Fine(s), InHand(s, u, p), NEW b \in Buffers
  PROVE  Grown(s, SetPages(u, b, Append(Pages(s, b), p)), b, 0)
<1> DEFINE ps == Pages(s, b)
           q == Append(ps, p)
           t == SetPages(u, b, q)
           l == Len(ps)
<1>1. Paged(u, t, b, q) /\ Sound(t, {}) BY PutIs
<1>2. /\ l \in Nat /\ ps \in Seq(DOMAIN s.heap) /\ Ready(s, b)
      /\ ps \in Seq(DOMAIN u.heap) /\ p \in DOMAIN u.heap
  <2>1. Sound(s, {}) /\ Ready(s, b) BY DEF Fine
  <2>2. p \in DOMAIN u.heap BY DEF InHand, Sound, Held
  <2>3. Sound(u, {p}) /\ Pages(u, b) = Pages(s, b) BY DEF InHand
  <2> QED BY <2>1, <2>2, <2>3, SoundParts
<1>3. Len(q) = l + 1 /\ Without(ps, q, l + 1) BY <1>2, AppendIs
<1>4. \A i \in 1..l : q[i] = ps[i] BY <1>2, <1>3 DEF Without
<1> HIDE DEF q, t
<1>5. \A a \in Buffers : /\ Begin(t, a) = Begin(s, a) /\ End(t, a) = End(s, a)
                         /\ (a # b => Pages(t, a) = Pages(s, a))
  BY <1>1 DEF Paged, InHand
<1>6. t.heap = u.heap /\ Pages(t, b) = q BY <1>1 DEF Paged
<1>7. \A a \in Buffers : a # b => Intact(s, t, a) BY <1>5, <1>6, InHandBeside
<1>8. Intact(s, t, b)
  <2> DEFINE z == 0
  <2>1. Begin(s, b) \in Int /\ End(s, b) \in Int BY <1>2, ReadyParts
  <2>2. Carried(s, t, b, z)
    <3>1. ASSUME NEW i \in 1..l PROVE t.heap[q[i]] = s.heap[ps[i]]
      <4>1. q[i] = ps[i] /\ ps[i] \in DOMAIN s.heap BY <1>2, <1>4
      <4> QED BY <1>6, <4>1 DEF InHand
    <3>2. \A i \in 1..l : i + 0 = i BY <1>2
    <3> QED BY <1>6, <3>1, <3>2 DEF Carried
  <2>3. Begin(s, b) # NoPosition =>
          Begin(t, b) \in Nat /\ End(t, b) <= Len(Pages(t, b)) * PageSize
    <3> SUFFICES ASSUME Begin(s, b) # NoPosition
                 PROVE  Begin(t, b) \in Nat /\ End(t, b) <= Len(Pages(t, b)) * PageSize OBVIOUS
    <3>1. Begin(s, b) \in Nat /\ End(s, b) <= l * PageSize BY <1>2, ReadyParts
    <3>2. (l + 1) * PageSize = l * PageSize + PageSize /\ l * PageSize \in Nat
      BY <1>2, RowSize
    <3>3. Begin(t, b) = Begin(s, b) /\ End(t, b) = End(s, b)
          /\ Len(Pages(t, b)) * PageSize = (l + 1) * PageSize
      BY <1>3, <1>5, <1>6
    <3> QED BY ONLY <2>1, <3>1, <3>2, <3>3, SizeIs
  <2>4. Begin(t, b) = Begin(s, b) + z /\ End(t, b) = End(s, b) + z /\ z \in Int
    BY <1>5, <2>1
  <2>5. (z = 0 /\ z = 0) \/ (z = 1 /\ z = PageSize) \/ (z = -1 /\ z = -PageSize) OBVIOUS
  <2>6. Len(Pages(s, b)) \in Nat /\ (Begin(s, b) = NoPosition => z = 0) BY <1>2
  <2> HIDE DEF z
  <2> QED BY ONLY <1>2, <2>2, <2>3, <2>4, <2>5, <2>6, CarriedKeeps
<1>9. Begin(s, b) \in Int /\ End(s, b) \in Int BY <1>2, ReadyParts
<1>10. Shifted(s, t, b, 0) BY <1>5, <1>9 DEF Shifted
<1>11. Grown(s, t, b, 0)
  BY <1>1, <1>3, <1>5, <1>6, <1>7, <1>8, <1>10 DEF Grown, Fine, Intact, SameTexts
<1> QED BY <1>11 DEF t, q

\* The page in hand goes before those of b, whose bytes, if any, are one page further then.
LEMMA PutBefore ==
  ASSUME NEW s, NEW u, NEW p, Fine(s), InHand(s, u, p), NEW b \in Buffers
  PROVE  /\ Begin(s, b) = NoPosition => Grown(s, SetPages(u, b, <<p>> \o Pages(s, b)), b, 0)
         /\ Begin(s, b) # NoPosition =>
              Grown(s, Shift(SetPages(u, b, <<p>> \o Pages(s, b)), b, PageSize), b, PageSize)
<1> DEFINE ps == Pages(s, b)
           q == <<p>> \o ps
           v == SetPages(u, b, q)
           w == Shift(v, b, PageSize)
           l == Len(ps)
<1>1. Paged(u, v, b, q) /\ Sound(v, {}) BY PutIs
<1>2. /\ l \in Nat /\ ps \in Seq(DOMAIN s.heap) /\ Ready(s, b)
      /\ ps \in Seq(DOMAIN u.heap) /\ p \in DOMAIN u.heap
  <2>1. Sound(s, {}) /\ Ready(s, b) BY DEF Fine
  <2>2. p \in DOMAIN u.heap BY DEF InHand, Sound, Held
  <2>3. Sound(u, {p}) /\ Pages(u, b) = Pages(s, b) BY DEF InHand
  <2> QED BY <2>1, <2>2, <2>3, SoundParts
<1>3. Len(q) = l + 1 /\ Without(ps, q, 1) BY <1>2, InFrontIs
<1>4. \A i \in 1..l : q[i + 1] = ps[i] BY <1>2, <1>3 DEF Without
<1> HIDE DEF q, v
<1>5. \A a \in Buffers : /\ Begin(v, a) = Begin(s, a) /\ End(v, a) = End(s, a)
                         /\ (a # b => Pages(v, a) = Pages(s, a))
  BY <1>1 DEF Paged, InHand
<1>6. v.heap = u.heap /\ Pages(v, b) = q BY <1>1 DEF Paged
<1>7. Begin(s, b) \in Int /\ End(s, b) \in Int BY <1>2, ReadyParts
<1>8. ASSUME Begin(s, b) = NoPosition PROVE Grown(s, v, b, 0)
  <2>1. \A a \in Buffers : a # b => Intact(s, v, a) BY <1>5, <1>6, InHandBeside
  <2>2. Intact(s, v, b) BY <1>2, <1>5, <1>8 DEF Ready, Intact, Text
  <2>3. Shifted(s, v, b, 0) BY <1>5, <1>7 DEF Shifted
  <2> QED BY <1>1, <1>3, <1>5, <1>6, <2>1, <2>2, <2>3 DEF Grown, Fine, Intact, SameTexts
<1>9. ASSUME Begin(s, b) # NoPosition PROVE Grown(s, w, b, PageSize)
  <2>1. Ranged(v, w, b, Begin(v, b) + PageSize, End(v, b) + PageSize)
    <3>1. Shaped(v) BY <1>1 DEF Paged
    <3> QED BY <3>1, ShiftIs
  <2> HIDE DEF w
  <2>2. Sound(w, {}) BY <1>1, <2>1, SoundRanged
  <2>3. w.heap = u.heap /\ Pages(w, b) = q BY <1>6, <2>1 DEF Ranged
  <2>4. \A a \in Buffers : /\ Begin(w, a) = (IF a = b THEN Begin(s, a) + PageSize ELSE Begin(s, a))
                           /\ End(w, a) = (IF a = b THEN End(s, a) + PageSize ELSE End(s, a))
                           /\ (a # b => Pages(w, a) = Pages(s, a))
    BY <1>5, <2>1 DEF Ranged
  <2>5. \A a \in Buffers : a # b => Intact(s, w, a) BY <2>3, <2>4, InHandBeside
  <2>6. Intact(s, w, b)
    <3> DEFINE d == 1
               e == PageSize
    <3>1. Carried(s, w, b, d)
      <4>1. ASSUME NEW i \in 1..l PROVE w.heap[q[i + 1]] = s.heap[ps[i]]
        <5>1. q[i + 1] = ps[i] /\ ps[i] \in DOMAIN s.heap BY <1>2, <1>4
        <5> QED BY <2>3, <5>1 DEF InHand
      <4> QED BY <2>3, <4>1 DEF Carried
    <3>2. Begin(w, b) \in Nat /\ End(w, b) <= Len(Pages(w, b)) * PageSize
      <4>1. Begin(s, b) \in Nat /\ End(s, b) <= l * PageSize BY <1>2, <1>9, ReadyParts
      <4>2. (l + 1) * PageSize = l * PageSize + PageSize /\ l * PageSize \in Nat
        BY <1>2, RowSize
      <4>3. Begin(w, b) = Begin(s, b) + PageSize /\ End(w, b) = End(s, b) + PageSize
            /\ Len(Pages(w, b)) * PageSize = (l + 1) * PageSize
        BY <1>3, <2>3, <2>4
      <4> QED BY ONLY <1>7, <4>1, <4>2, <4>3, SizeIs
    <3>3. Begin(w, b) = Begin(s, b) + e /\ End(w, b) = End(s, b) + e /\ e \in Int /\ d \in Int
      BY <2>4, SizeIs
    <3>4. (d = 0 /\ e = 0) \/ (d = 1 /\ e = PageSize) \/ (d = -1 /\ e = -PageSize) OBVIOUS
    <3>5. Len(Pages(s, b)) \in Nat /\ (Begin(s, b) = NoPosition => e = 0) BY <1>2, <1>9
    <3> HIDE DEF d, e
    <3> QED BY ONLY <1>2, <3>1, <3>2, <3>3, <3>4, <3>5, CarriedKeeps
  <2>7. Shifted(s, w, b, PageSize) BY <2>4 DEF Shifted
  <2> QED BY <1>3, <2>2, <2>3, <2>4, <2>5, <2>6, <2>7 DEF Grown, Fine, Intact, SameTexts
<1> QED BY <1>8, <1>9 DEF v, q

\* A page of the pool behind b.
LEMMA AddBackKeeps ==
  ASSUME NEW s, Fine(s), NEW b \in Buffers
  PROVE  Grown(s, AddBack(s, b), b, 0)
<1> DEFINE u == MemGet(s)
           p == MemPage(s)
<1>1. InHand(s, u, p) BY GetInHand DEF Fine
<1> HIDE DEF u, p
<1>2. Grown(s, SetPages(u, b, Append(Pages(s, b), p)), b, 0) BY <1>1, PutBehind
<1> QED BY <1>2 DEF AddBack, u, p

\* A page of the pool before b.
LEMMA AddFrontKeeps ==
  ASSUME NEW s, Fine(s), NEW b \in Buffers
  PROVE  Grown(s, AddFront(s, b), b, IF Begin(s, b) = NoPosition THEN 0 ELSE PageSize)
<1> DEFINE u == MemGet(s)
           p == MemPage(s)
           v == SetPages(u, b, <<p>> \o Pages(s, b))
<1>1. InHand(s, u, p) BY GetInHand DEF Fine
<1>2. AddFront(s, b) = IF Begin(s, b) = NoPosition THEN v ELSE Shift(v, b, PageSize)
  BY DEF AddFront
<1> HIDE DEF u, p
<1>3. /\ Begin(s, b) = NoPosition => Grown(s, v, b, 0)
      /\ Begin(s, b) # NoPosition => Grown(s, Shift(v, b, PageSize), b, PageSize)
  BY <1>1, PutBefore
<1> QED BY <1>2, <1>3

\* A new page behind c.
LEMMA FreshBackKeeps ==
  ASSUME NEW s, Fine(s), NEW c \in Buffers
  PROVE  Grown(s, FreshBack(s, c), c, 0)
<1> DEFINE p == NewPage(s)
           u == Allocate(s, p)
<1>1. InHand(s, u, p) BY NewInHand DEF Fine
<1> HIDE DEF u, p
<1>2. Grown(s, SetPages(u, c, Append(Pages(s, c), p)), c, 0) BY <1>1, PutBehind
<1> QED BY <1>2 DEF FreshBack, u, p

\* A new page before the bytes of c.
LEMMA FreshFrontKeeps ==
  ASSUME NEW s, Fine(s), NEW c \in Buffers, Begin(s, c) # NoPosition
  PROVE  Grown(s, Shift(FreshFront(s, c), c, PageSize), c, PageSize)
<1> DEFINE p == NewPage(s)
           u == Allocate(s, p)
           v == SetPages(u, c, <<p>> \o Pages(s, c))
<1>1. InHand(s, u, p) BY NewInHand DEF Fine
<1>2. FreshFront(s, c) = v BY DEF FreshFront
<1> HIDE DEF u, p
<1>3. Begin(s, c) # NoPosition => Grown(s, Shift(v, c, PageSize), c, PageSize)
  BY <1>1, PutBefore
<1> QED BY <1>2, <1>3

(*** Pages that go back to the pool. ***)

\* The page j of b has gone; q are the others, and the other buffers have what they had.
Released(s, t, b, j, q) ==
  /\ Sound(t, {}) /\ Pages(t, b) = q
  /\ \A a \in Buffers : /\ Begin(t, a) = Begin(s, a) /\ End(t, a) = End(s, a)
                        /\ (a # b => Intact(s, t, a))
  /\ \A i \in 1..Len(Pages(s, b)) : i # j => t.heap[Pages(s, b)[i]] = s.heap[Pages(s, b)[i]]

\* b has one page less, and its positions have moved by e; every buffer has its text.
Shrunk(s, t, b, e) ==
  /\ Fine(t) /\ Shifted(s, t, b, e)
  /\ Len(Pages(t, b)) = Len(Pages(s, b)) - 1
  /\ SameTexts(s, t)

\* What mem_container::push leaves: the page in the pool, or deleted.
LEMMA MemPushIs ==
  ASSUME NEW s, Shaped(s), Heaped(s.heap), NEW p
  PROVE  \/ Stored(s, MemPush(s, p), s.heap, Append(s.pool, p))
         \/ /\ Stored(s, MemPush(s, p), MemPush(s, p).heap, s.pool)
            /\ Heaped(MemPush(s, p).heap) /\ DOMAIN MemPush(s, p).heap = DOMAIN s.heap \ {p}
            /\ \A q \in DOMAIN s.heap \ {p} : MemPush(s, p).heap[q] = s.heap[q]
<1> DEFINE u == MemPush(s, p)
<1>1. CASE Len(s.pool) <= MaxPool
  <2> DEFINE Q == Append(s.pool, p)
             v == [s EXCEPT !.pool = Q]
  <2>1. u = v BY <1>1 DEF MemPush, Shaped
  <2> HIDE DEF Q
  <2>2. Stored(s, v, s.heap, Q) BY StoreIs
  <2> QED BY <2>1, <2>2 DEF Q
<1>2. CASE ~(Len(s.pool) <= MaxPool)
  <2> DEFINE D == DOMAIN s.heap
             H == [q \in D \ {p} |-> s.heap[q]]
             v == [s EXCEPT !.heap = H]
  <2>1. u = v BY <1>2 DEF MemPush, Shaped
  <2>2. IsFiniteSet(D) /\ \A q \in D : s.heap[q] \in PageBytes BY DEF Heaped
  <2> HIDE DEF D
  <2>3. IsFiniteSet(D \ {p}) /\ DOMAIN H = D \ {p} BY <2>2, FS_Difference
  <2>4. H \in [D \ {p} -> PageBytes] /\ \A q \in D \ {p} : H[q] = s.heap[q] BY <2>2
  <2> HIDE DEF H
  <2>5. Stored(s, v, H, s.pool) BY StoreIs
  <2>6. v.heap = H BY <2>5 DEF Stored
  <2> QED BY <2>1, <2>3, <2>4, <2>5, <2>6 DEF Heaped, D
<1> QED BY <1>1, <1>2

\* A page of b goes to the pool.
LEMMA ReleaseIs ==
  ASSUME NEW s, Fine(s), NEW b \in Buffers, NEW q, q \in Seq(DOMAIN s.heap), NEW j,
         Without(q, Pages(s, b), j)
  PROVE  Released(s, SetPages(MemPush(s, Pages(s, b)[j]), b, q), b, j, q)
<1> DEFINE D == DOMAIN s.heap
           R == Rows(s)
           ps == Pages(s, b)
           p == ps[j]
           u == MemPush(s, p)
           t == SetPages(u, b, q)
           S == [R EXCEPT ![b] = q]
<1>1. /\ Shaped(s) /\ Heaped(s.heap) /\ Held(R, D, {}) /\ R \in [Holders -> Seq(D)]
      /\ R[b] = ps /\ b \in Holders /\ "pool" \in Holders /\ R["pool"] = s.pool
      /\ s.pool \in Seq(D) /\ "pool" # b /\ ps \in Seq(D) /\ Len(ps) \in Nat /\ Sound(s, {})
      /\ q \in Seq(D)
  <2>1. Sound(s, {}) BY DEF Fine
  <2>2. R \in [Holders -> Seq(D)] /\ Held(R, D, {}) BY <2>1 DEF Sound, Held
  <2> QED BY <2>1, <2>2, SoundParts, RowsAre, PoolIsNoBuffer DEF Sound
<1>2. j \in 1..Len(ps) /\ p \in D BY <1>1 DEF Without
<1>3. \A i \in 1..Len(ps) : i # j => ps[i] \in D \ {p}
  <2> TAKE i \in 1..Len(ps)
  <2>1. ps[i] = ps[j] => i = j
    <3> HIDE DEF D, R, ps
    <3> QED BY ONLY <1>1, <1>2, HeldOnce, i \in 1..Len(ps)
  <2>2. ps[i] \in D BY <1>1
  <2> QED BY <2>1, <2>2
<1>4. \A a \in Buffers : a # b => \A i \in 1..Len(Pages(s, a)) : Pages(s, a)[i] \in D \ {p}
  <2> TAKE a \in Buffers
  <2> SUFFICES ASSUME a # b, NEW i \in 1..Len(Pages(s, a)) PROVE Pages(s, a)[i] \in D \ {p}
    OBVIOUS
  <2>1. Pages(s, a) \in Seq(D) /\ a \in Holders /\ R[a] = Pages(s, a)
    BY <1>1, SoundParts, RowsAre
  <2>2. Pages(s, a)[i] \in D BY <2>1
  <2>3. Pages(s, a)[i] = ps[j] => a = b
    <3> DEFINE r == Pages(s, a)
    <3>1. i \in 1..Len(r) OBVIOUS
    <3> HIDE DEF D, R, ps, r
    <3> QED BY ONLY <1>1, <1>2, <2>1, <3>1, HeldOnce DEF r
  <2> QED BY <2>2, <2>3
<1>5. Held(S, D, {p})
  <2>1. Without(q, R[b], j) /\ p = R[b][j] BY <1>1
  <2> HIDE DEF D, R, ps
  <2>2. Held([R EXCEPT ![b] = q], D, {R[b][j]}) BY ONLY <1>1, <2>1, HeldTake
  <2> QED BY <1>1, <2>1, <2>2
<1> HIDE DEF D, R, ps, p
<1>6. \/ Stored(s, u, s.heap, Append(s.pool, p))
      \/ /\ Stored(s, u, u.heap, s.pool) /\ Heaped(u.heap) /\ DOMAIN u.heap = D \ {p}
         /\ \A x \in D \ {p} : u.heap[x] = s.heap[x]
  BY <1>1, MemPushIs DEF D
<1> HIDE DEF u
<1>7. Shaped(u) BY <1>6 DEF Stored
<1>8. Paged(u, t, b, q) BY <1>7, SetPagesIs
<1> HIDE DEF t
<1>9. Rows(t) = [Rows(u) EXCEPT ![b] = q]
  <2>1. Rows(t) = RowPut(Rows(u), b, q) BY ONLY <1>8, RowsPaged, b \in Buffers
  <2> QED BY ONLY <2>1 DEF RowPut
<1>10. \A a \in Buffers : /\ Begin(t, a) = Begin(s, a) /\ End(t, a) = End(s, a)
                          /\ Pages(t, a) = (IF a = b THEN q ELSE Pages(s, a))
  BY <1>6, <1>8 DEF Stored, Paged
<1>11. /\ Heaped(t.heap) /\ Held(Rows(t), DOMAIN t.heap, {})
       /\ \A x \in D \ {p} : t.heap[x] = s.heap[x]
  <2>1. CASE Stored(s, u, s.heap, Append(s.pool, p))
    <3> DEFINE Q == Append(s.pool, p)
               m == Len(s.pool) + 1
    <3>1. Q \in Seq(D) /\ Without(s.pool, Q, m) /\ Q[m] = p BY <1>1, <1>2, AppendIs
    <3>2. Rows(u) = [R EXCEPT !["pool"] = Q] BY <2>1, RowsStored DEF R
    <3> HIDE DEF Q, m
    <3>3. Rows(t) = [S EXCEPT !["pool"] = Q] /\ S["pool"] = s.pool BY <1>1, <1>9, <3>2
    <3> HIDE DEF S
    <3>4. Held([S EXCEPT !["pool"] = Q], D, {})
      <4>1. "pool" \in Holders /\ Without(S["pool"], Q, m) BY <1>1, <3>1, <3>3
      <4> QED BY ONLY <1>5, <3>1, <4>1, HeldPut
    <3>5. t.heap = s.heap BY <1>8, <2>1 DEF Paged, Stored
    <3> QED BY <1>1, <3>3, <3>4, <3>5 DEF D
  <2>2. CASE /\ Stored(s, u, u.heap, s.pool) /\ Heaped(u.heap) /\ DOMAIN u.heap = D \ {p}
             /\ \A x \in D \ {p} : u.heap[x] = s.heap[x]
    <3>1. Rows(u) = [R EXCEPT !["pool"] = s.pool] BY <2>2, RowsStored DEF R
    <3>2. Rows(t) = S BY <1>1, <1>9, <3>1
    <3>3. Held(S, D \ {p}, {})
      <4> HIDE DEF S
      <4> QED BY <1>5, HeldDelete
    <3>4. t.heap = u.heap BY <1>8 DEF Paged
    <3> QED BY <2>2, <3>2, <3>3, <3>4
  <2> QED BY <1>6, <2>1, <2>2
<1>12. Sound(t, {}) BY <1>8, <1>11 DEF Sound, Paged
<1>13. ASSUME NEW a \in Buffers, a # b PROVE Intact(s, t, a)
  <2>1. Len(Pages(s, a)) \in Nat /\ Ready(s, a) BY <1>1, SoundParts DEF Fine
  <2>2. \A i \in 1..Len(Pages(s, a)) : t.heap[Pages(s, a)[i]] = s.heap[Pages(s, a)[i]]
    BY <1>4, <1>11, <1>13
  <2>3. Pages(t, a) = Pages(s, a) /\ Begin(t, a) = Begin(s, a) /\ End(t, a) = End(s, a)
    BY <1>10, <1>13
  <2> QED BY ONLY <2>1, <2>2, <2>3, SameKeeps
<1>14. \A i \in 1..Len(ps) : i # j => t.heap[ps[i]] = s.heap[ps[i]] BY <1>3, <1>11
<1>15. Released(s, t, b, j, q) BY <1>10, <1>12, <1>13, <1>14 DEF Released, ps
<1> QED BY <1>15 DEF t, u, p, ps

\* An empty buffer gives its first page back.
LEMMA ReleaseFrontKeeps ==
  ASSUME NEW s, Fine(s), NEW b \in Buffers, Pages(s, b) # <<>>, Begin(s, b) = NoPosition
  PROVE  Shrunk(s, ReleaseFront(s, b), b, 0)
<1> DEFINE ps == Pages(s, b)
           q == Tail(ps)
           k == 1
           t == SetPages(MemPush(s, ps[k]), b, q)
<1>1. ps \in Seq(DOMAIN s.heap) /\ Ready(s, b) BY SoundParts DEF Fine
<1>2. /\ q \in Seq(DOMAIN s.heap) /\ Without(q, ps, k) /\ Head(ps) = ps[k]
      /\ Len(q) = Len(ps) - 1
  BY <1>1, TailIs
<1>3. ReleaseFront(s, b) = t BY <1>2 DEF ReleaseFront
<1> HIDE DEF q, k
<1>4. Released(s, t, b, k, q) BY <1>2, ReleaseIs
<1> HIDE DEF t
<1>5. Begin(s, b) \in Int /\ End(s, b) \in Int BY <1>1, ReadyParts
<1>6. Intact(s, t, b) BY <1>1, <1>4 DEF Ready, Released, Intact, Text
<1>7. \A a \in Buffers : Intact(s, t, a) BY <1>4, <1>6 DEF Released
<1>8. Shifted(s, t, b, 0) BY <1>4, <1>5 DEF Released, Shifted
<1> QED BY <1>2, <1>3, <1>4, <1>7, <1>8 DEF Shrunk, Fine, Intact, SameTexts, Released

\* A page before the bytes goes back.
LEMMA ReleaseBeforeKeeps ==
  ASSUME NEW s, Fine(s), NEW b \in Buffers, Begin(s, b) # NoPosition, Begin(s, b) >= PageSize
  PROVE  Shrunk(s, ReleaseBefore(s, b), b, -PageSize)
<1> DEFINE ps == Pages(s, b)
           q == Tail(ps)
           l == Len(ps)
           k == 1
           v == SetPages(MemPush(s, ps[k]), b, q)
           e == -PageSize
           w == Shift(v, b, e)
<1>1. ps \in Seq(DOMAIN s.heap) /\ Ready(s, b) /\ l \in Nat BY SoundParts DEF Fine
<1>2. /\ Begin(s, b) \in Nat /\ End(s, b) \in Nat /\ Begin(s, b) <= End(s, b)
      /\ End(s, b) <= l * PageSize /\ Begin(s, b) >= PageSize
  BY <1>1, ReadyParts
<1>3. l > 0
  <2>1. l = 0 => l * PageSize = 0 BY SizeIs
  <2> QED BY <1>1, <1>2, <2>1, SizeIs
<1>4. /\ q \in Seq(DOMAIN s.heap) /\ Without(q, ps, k) /\ Head(ps) = ps[k] /\ Len(q) = l - 1
  <2>1. ps # <<>> BY <1>1, <1>3
  <2> QED BY <1>1, <2>1, TailIs
<1>5. ReleaseBefore(s, b) = w BY <1>4 DEF ReleaseBefore, ReleaseFront
<1>6. \A i \in 2..l : q[i - 1] = ps[i]
  <2> TAKE i \in 2..l
  <2>1. i - 1 \in 1..Len(q) /\ ~(i - 1 < k) /\ (i - 1) + 1 = i BY <1>1, <1>4
  <2> QED BY <1>4, <2>1 DEF Without
<1>7. \A i \in 1..l : i > Begin(s, b) \div PageSize => i \in 2..l
  <2>1. PageSize \div PageSize = 1 BY SizeIs, Z3
  <2>2. Begin(s, b) \div PageSize >= 1 /\ Begin(s, b) \div PageSize \in Int
    BY <1>2, <2>1, QuotMono, Quot, SizeIs
  <2> QED BY <1>1, <2>2
<1> HIDE DEF q, v
<1>8. Released(s, v, b, k, q) BY <1>4, ReleaseIs DEF v
<1>9. Shaped(v) BY <1>8 DEF Released, Sound
<1> HIDE DEF e
<1>10. Ranged(v, w, b, Begin(v, b) + e, End(v, b) + e) BY <1>9, ShiftIs
<1> HIDE DEF w
<1>11. Sound(w, {})
  <2>1. Sound(v, {}) BY <1>8 DEF Released
  <2> DEFINE x == Begin(v, b) + e
             y == End(v, b) + e
  <2>2. Ranged(v, w, b, x, y) BY <1>10
  <2> HIDE DEF x, y
  <2> QED BY ONLY <2>1, <2>2, SoundRanged
<1>12. /\ w.heap = v.heap /\ Pages(w, b) = q
       /\ \A a \in Buffers : /\ Begin(w, a) = (IF a = b THEN Begin(s, a) + e ELSE Begin(s, a))
                             /\ End(w, a) = (IF a = b THEN End(s, a) + e ELSE End(s, a))
                             /\ Pages(w, a) = Pages(v, a)
                             /\ (a # b => Intact(s, v, a))
  BY <1>8, <1>10, SMTT(30) DEF Ranged, Released
<1>13. ASSUME NEW a \in Buffers, a # b PROVE Intact(s, w, a)
  <2>1. Begin(w, a) = Begin(v, a) /\ End(w, a) = End(v, a) /\ Intact(s, v, a)
    BY <1>8, <1>12, <1>13 DEF Released
  <2> QED BY <1>12, <2>1, ZenonT(60) DEF Ready, Intact, Text, ByteAt, PageAt
<1>14. Intact(s, w, b)
  <2> DEFINE d == -1
  <2>1. Carried(s, w, b, d)
    <3>1. ASSUME NEW i \in 1..l, i > Begin(s, b) \div PageSize
           PROVE  w.heap[q[i + d]] = s.heap[ps[i]]
      <4>1. i \in 2..l BY <1>7, <3>1
      <4>2. q[i - 1] = ps[i] /\ i # k /\ i + d = i - 1 BY <1>1, <1>6, <4>1 DEF k
      <4>3. v.heap[ps[i]] = s.heap[ps[i]] BY <1>8, <4>2 DEF Released
      <4> QED BY <1>12, <4>2, <4>3
    <3> QED BY <1>12, <3>1 DEF Carried
  <2>2. Begin(w, b) \in Nat /\ End(w, b) <= Len(Pages(w, b)) * PageSize
    <3> DEFINE m == l - 1
    <3>1. m \in Nat /\ m + 1 = l /\ Len(Pages(w, b)) = m BY <1>1, <1>3, <1>4, <1>12
    <3> HIDE DEF m, l
    <3>2. (m + 1) * PageSize = m * PageSize + PageSize /\ m * PageSize \in Nat
      BY <3>1, RowSize
    <3>3. Begin(w, b) = Begin(s, b) - PageSize /\ End(w, b) = End(s, b) - PageSize
      BY <1>2, <1>12, SizeIs DEF e
    <3>4. l * PageSize = m * PageSize + PageSize BY <3>1, <3>2
    <3> QED BY ONLY <1>2, <3>1, <3>2, <3>3, <3>4, SizeIs
  <2>3. Begin(w, b) = Begin(s, b) + e /\ End(w, b) = End(s, b) + e /\ e \in Int /\ d \in Int
    BY <1>12, SizeIs DEF e
  <2>4. (d = 0 /\ e = 0) \/ (d = 1 /\ e = PageSize) \/ (d = -1 /\ e = -PageSize) BY DEF e
  <2>5. Len(Pages(s, b)) \in Nat /\ (Begin(s, b) = NoPosition => e = 0) BY <1>1
  <2> HIDE DEF d
  <2> QED BY ONLY <1>1, <2>1, <2>2, <2>3, <2>4, <2>5, CarriedKeeps
<1>15. Shifted(s, w, b, e) BY <1>12 DEF Shifted
<1>16. \A a \in Buffers : Intact(s, w, a) BY <1>13, <1>14
<1>17. Shrunk(s, w, b, e) BY <1>4, <1>11, <1>12, <1>15, <1>16 DEF Shrunk, Fine, Intact, SameTexts
<1> QED BY <1>5, <1>17 DEF e

\* A page after the one of end goes back.
LEMMA ReleaseBackKeeps ==
  ASSUME NEW s, Fine(s), NEW b \in Buffers, Begin(s, b) # NoPosition,
         Len(Pages(s, b)) > (End(s, b) \div PageSize) + 1
  PROVE  Shrunk(s, ReleaseBack(s, b), b, 0)
<1> DEFINE ps == Pages(s, b)
           q == Front(ps)
           l == Len(ps)
           t == SetPages(MemPush(s, ps[l]), b, q)
<1>1. ps \in Seq(DOMAIN s.heap) /\ Ready(s, b) /\ l \in Nat BY SoundParts DEF Fine
<1>2. /\ Begin(s, b) \in Nat /\ End(s, b) \in Nat /\ Begin(s, b) <= End(s, b)
      /\ End(s, b) \div PageSize \in Nat
  BY <1>1, ReadyParts, QuotNat
<1>3. /\ q \in Seq(DOMAIN s.heap) /\ Without(q, ps, l) /\ Last(ps) = ps[l] /\ Len(q) = l - 1
  <2>1. ps # <<>> BY <1>1, <1>2
  <2> QED BY <1>1, <2>1, FrontIs
<1>4. ReleaseBack(s, b) = t BY <1>3 DEF ReleaseBack
<1>5. \A i \in 1..l - 1 : q[i] = ps[i]
  <2> TAKE i \in 1..l - 1
  <2>1. i \in 1..Len(q) /\ i < l BY <1>1, <1>3
  <2> QED BY <1>3, <2>1 DEF Without
<1>6. \A i \in 1..l : i <= ((End(s, b) - 1) \div PageSize) + 1 => i \in 1..l - 1
  <2> DEFINE x == End(s, b)
             y == x - 1
  <2>1. y \in Int /\ y <= x /\ x \in Int BY <1>2
  <2> HIDE DEF x, y
  <2>2. y \div PageSize <= x \div PageSize /\ y \div PageSize \in Int BY <2>1, QuotMono, Quot
  <2>3. x \div PageSize \in Int /\ l > (x \div PageSize) + 1 BY <2>1, Quot DEF x
  <2>4. \A i \in 1..l : i <= (y \div PageSize) + 1 => i \in 1..l - 1 BY <1>1, <2>2, <2>3
  <2> QED BY <2>4 DEF x, y
<1> HIDE DEF q
<1>7. Released(s, t, b, l, q) BY <1>3, ReleaseIs
<1> HIDE DEF t
<1>8. Intact(s, t, b)
  <2> DEFINE z == 0
  <2>1. Carried(s, t, b, z)
    <3>1. ASSUME NEW i \in 1..l, i <= ((End(s, b) - 1) \div PageSize) + 1
          PROVE  t.heap[q[i + z]] = s.heap[ps[i]]
      <4>1. i \in 1..l - 1 BY <1>6, <3>1
      <4>2. q[i] = ps[i] /\ i # l /\ i + z = i BY <1>1, <1>5, <4>1
      <4>3. t.heap[ps[i]] = s.heap[ps[i]] BY <1>7, <4>2 DEF Released
      <4> QED BY <4>2, <4>3
    <3> HIDE DEF z
    <3> QED BY <1>7, <3>1 DEF Carried, Released
  <2>2. Begin(t, b) \in Nat /\ End(t, b) <= Len(Pages(t, b)) * PageSize
    <3> DEFINE m == l - 1
    <3>1. m \in Int /\ End(s, b) \div PageSize < m /\ Len(Pages(t, b)) = m
      BY <1>1, <1>2, <1>3, <1>7 DEF Released
    <3> HIDE DEF m
    <3>2. End(s, b) < m * PageSize BY <1>2, <3>1, QuotBelow
    <3>3. Begin(t, b) = Begin(s, b) /\ End(t, b) = End(s, b) BY <1>7 DEF Released
    <3> QED BY <1>2, <3>1, <3>2, <3>3, SizeIs
  <2>3. Begin(t, b) = Begin(s, b) + z /\ End(t, b) = End(s, b) + z /\ z \in Int
    BY <1>2, <1>7 DEF Released
  <2>4. (z = 0 /\ z = 0) \/ (z = 1 /\ z = PageSize) \/ (z = -1 /\ z = -PageSize) OBVIOUS
  <2>5. Len(Pages(s, b)) \in Nat /\ (Begin(s, b) = NoPosition => z = 0) BY <1>1
  <2> HIDE DEF z
  <2> QED BY ONLY <1>1, <2>1, <2>2, <2>3, <2>4, <2>5, CarriedKeeps
<1>9. \A a \in Buffers : Intact(s, t, a) BY <1>7, <1>8 DEF Released
<1>10. Shifted(s, t, b, 0) BY <1>2, <1>7 DEF Released, Shifted
<1>11. Shrunk(s, t, b, 0) BY <1>3, <1>7, <1>9, <1>10 DEF Shrunk, Fine, Intact, SameTexts, Released
<1> QED BY <1>4, <1>11

(*** Pages that go from one buffer to another, or round in one. ***)

\* b has the pages q and then c the pages ps; the positions have not moved.
Handed(s, t, b, q, c, ps) ==
  /\ Sound(t, {}) /\ t.heap = s.heap
  /\ \A a \in Buffers :
       /\ Pages(t, a) = (IF a = c THEN ps ELSE IF a = b THEN q ELSE Pages(s, a))
       /\ Begin(t, a) = Begin(s, a) /\ End(t, a) = End(s, a)

\* What c has once b has given a page away.
Left(s, b, q, c) == IF c = b THEN q ELSE Pages(s, c)

\* The page taken from b at j is put into c at k.
LEMMA HandOver ==
  ASSUME NEW s, Sound(s, {}), NEW b \in Buffers, NEW c \in Buffers,
         NEW q, q \in Seq(DOMAIN s.heap), NEW j, Without(q, Pages(s, b), j),
         NEW ps, ps \in Seq(DOMAIN s.heap), NEW k, Without(Left(s, b, q, c), ps, k),
         ps[k] = Pages(s, b)[j]
  PROVE  Handed(s, SetPages(SetPages(s, b, q), c, ps), b, q, c, ps)
<1> DEFINE D == DOMAIN s.heap
           R == Rows(s)
           S == [R EXCEPT ![b] = q]
           u == SetPages(s, b, q)
           t == SetPages(u, c, ps)
<1>1. /\ Shaped(s) /\ Heaped(s.heap) /\ Held(R, D, {}) /\ R \in [Holders -> Seq(D)]
      /\ b \in Holders /\ c \in Holders
      /\ \A a \in Buffers : R[a] = Pages(s, a)
  <2>1. Shaped(s) /\ Heaped(s.heap) /\ Held(R, D, {}) BY DEF Sound
  <2>2. R \in [Holders -> Seq(D)] BY <2>1 DEF Held
  <2>3. b \in Holders /\ c \in Holders BY DEF Holders
  <2> QED BY <2>1, <2>2, <2>3, RowsAre
<1>2. Paged(s, u, b, q) BY <1>1, SetPagesIs
<1> HIDE DEF u
<1>3. Shaped(u) BY <1>2 DEF Paged
<1>4. Paged(u, t, c, ps) BY <1>3, SetPagesIs
<1> HIDE DEF t
<1>5. Rows(u) = RowPut(Rows(s), b, q) BY ONLY <1>2, RowsPaged, b \in Buffers
<1>6. Rows(t) = RowPut(Rows(u), c, ps) BY ONLY <1>4, RowsPaged, c \in Buffers
<1>7. Rows(t) = [S EXCEPT ![c] = ps] BY <1>5, <1>6 DEF RowPut
<1>8. S[c] = Left(s, b, q, c) BY <1>1 DEF Left
<1>9. Without(q, R[b], j) /\ ps[k] = R[b][j] BY <1>1
<1>10. q \in Seq(D) /\ ps \in Seq(D) OBVIOUS
<1> HIDE DEF D, R
<1>11. Held([R EXCEPT ![b] = q], D, {R[b][j]}) BY ONLY <1>1, <1>9, <1>10, HeldTake
<1> DEFINE p == R[b][j]
<1>12. Held(S, D, {p}) /\ ps[k] = p /\ Without(S[c], ps, k) BY <1>8, <1>9, <1>11
<1> HIDE DEF S, p
<1>13. Held([S EXCEPT ![c] = ps], D, {}) BY ONLY <1>1, <1>10, <1>12, HeldPut
<1>14. t.heap = s.heap BY <1>2, <1>4 DEF Paged
<1>15. Sound(t, {}) BY <1>1, <1>4, <1>7, <1>13, <1>14 DEF Sound, Paged, D
<1>16. \A a \in Buffers :
         /\ Pages(t, a) = (IF a = c THEN ps ELSE IF a = b THEN q ELSE Pages(s, a))
         /\ Begin(t, a) = Begin(s, a) /\ End(t, a) = End(s, a)
  BY <1>2, <1>4 DEF Paged
<1>17. Handed(s, t, b, q, c, ps) BY <1>14, <1>15, <1>16 DEF Handed
<1> QED BY <1>17 DEF t, u

\* The first page of a buffer whose bytes begin in a later one has none.
LEMMA FirstIsFree ==
  ASSUME NEW s, Fine(s), NEW b \in Buffers, Begin(s, b) # NoPosition, Begin(s, b) >= PageSize
  PROVE  /\ Pages(s, b) # <<>> /\ Len(Pages(s, b)) > 0
         /\ \A i \in 1..Len(Pages(s, b)) :
              i > Begin(s, b) \div PageSize => i \in 2..Len(Pages(s, b))
         /\ End(s, b) - PageSize <= (Len(Pages(s, b)) - 1) * PageSize
<1> DEFINE l == Len(Pages(s, b))
<1>1. Pages(s, b) \in Seq(DOMAIN s.heap) /\ Ready(s, b) /\ l \in Nat BY SoundParts DEF Fine
<1>2. /\ Begin(s, b) \in Nat /\ End(s, b) \in Nat /\ Begin(s, b) <= End(s, b)
      /\ End(s, b) <= l * PageSize /\ Begin(s, b) >= PageSize
  BY <1>1, ReadyParts
<1>3. l > 0
  <2>1. l = 0 => l * PageSize = 0 BY SizeIs
  <2> QED BY <1>1, <1>2, <2>1, SizeIs
<1>4. \A i \in 1..l : i > Begin(s, b) \div PageSize => i \in 2..l
  <2>1. PageSize \div PageSize = 1 BY SizeIs, Z3
  <2>2. Begin(s, b) \div PageSize >= 1 /\ Begin(s, b) \div PageSize \in Int
    BY <1>2, <2>1, QuotMono, Quot, SizeIs
  <2> QED BY <1>1, <2>2
<1>5. End(s, b) - PageSize <= (l - 1) * PageSize
  <2> DEFINE m == l - 1
  <2>1. m \in Nat /\ m + 1 = l BY <1>1, <1>3
  <2> HIDE DEF m, l
  <2>2. (m + 1) * PageSize = m * PageSize + PageSize /\ m * PageSize \in Nat BY <2>1, RowSize
  <2>3. End(s, b) - PageSize <= m * PageSize
    <3>1. l * PageSize = m * PageSize + PageSize BY <2>1, <2>2
    <3> QED BY ONLY <1>2, <2>2, <3>1, SizeIs
  <2> QED BY <2>3 DEF m
<1>6. Pages(s, b) # <<>> BY <1>1, <1>3
<1> QED BY <1>3, <1>4, <1>5, <1>6

\* The last page of a buffer with a spare one has no bytes.
LEMMA LastIsFree ==
  ASSUME NEW s, Fine(s), NEW b \in Buffers, Spare(s, b)
  PROVE  /\ Pages(s, b) # <<>> /\ Len(Pages(s, b)) > 1 /\ Begin(s, b) # NoPosition
         /\ \A i \in 1..Len(Pages(s, b)) :
              i <= ((End(s, b) - 1) \div PageSize) + 1 => i \in 1..Len(Pages(s, b)) - 1
         /\ End(s, b) <= (Len(Pages(s, b)) - 1) * PageSize
<1> DEFINE l == Len(Pages(s, b))
           m == l - 1
           x == End(s, b) - 1
<1>1. Pages(s, b) \in Seq(DOMAIN s.heap) /\ Ready(s, b) /\ l \in Nat BY SoundParts DEF Fine
<1>2. End(s, b) > 0 /\ x \div PageSize < m BY DEF Spare
<1>3. Begin(s, b) # NoPosition BY <1>1, <1>2, ReadyParts
<1>4. End(s, b) \in Nat /\ x \in Nat /\ m \in Int BY <1>1, <1>2, ReadyParts
<1>5. x \div PageSize \in Nat BY <1>4, QuotNat
<1>6. End(s, b) <= m * PageSize
  <2>1. x < m * PageSize
    <3> HIDE DEF x, m
    <3> QED BY <1>2, <1>4, QuotBelow
  <2> QED BY <1>4, <2>1, SizeIs
<1>7. l > 1 BY <1>1, <1>2, <1>5
<1>8. \A i \in 1..l : i <= (x \div PageSize) + 1 => i \in 1..m
  <2> HIDE DEF x
  <2> QED BY <1>1, <1>2, <1>5
<1>9. Pages(s, b) # <<>> BY <1>1, <1>7
<1> QED BY <1>3, <1>6, <1>7, <1>8, <1>9

\* The pages of c after a hand-over.
LEMMA LeftIn ==
  ASSUME NEW s, Sound(s, {}), NEW b, NEW c \in Buffers, NEW q, q \in Seq(DOMAIN s.heap)
  PROVE  Left(s, b, q, c) \in Seq(DOMAIN s.heap)
BY SoundParts DEF Left

\* The first page of b goes behind c.
LEMMA FrontToBackIs ==
  ASSUME NEW s, Fine(s), NEW b \in Buffers, NEW c \in Buffers, Pages(s, b) # <<>>
  PROVE  Handed(s, FrontToBack(s, b, c), b, Tail(Pages(s, b)),
                c, Append(Left(s, b, Tail(Pages(s, b)), c), Head(Pages(s, b))))
<1> DEFINE D == DOMAIN s.heap
           ps == Pages(s, b)
           q == Tail(ps)
           old == Left(s, b, q, c)
           new == Append(old, Head(ps))
           one == 1
           k == Len(old) + 1
           u == SetPages(s, b, q)
<1>1. Sound(s, {}) /\ ps \in Seq(D) /\ Shaped(s) BY SoundParts DEF Fine, Sound
<1>2. q \in Seq(D) /\ Without(q, ps, one) /\ Head(ps) = ps[one] /\ Head(ps) \in D
  BY <1>1, TailIs
<1>3. Paged(s, u, b, q) BY <1>1, SetPagesIs
<1>4. Pages(u, c) = old BY <1>3 DEF Paged, Left
<1>5. FrontToBack(s, b, c) = SetPages(u, c, new) BY <1>4 DEF FrontToBack
<1>6. old \in Seq(D)
  <2> HIDE DEF q
  <2> QED BY <1>1, <1>2, LeftIn
<1> HIDE DEF q, old, u
<1>7. new \in Seq(D) /\ Without(old, new, k) /\ new[k] = ps[one] BY <1>2, <1>6, AppendIs
<1>8. Without(Left(s, b, q, c), new, k) BY <1>7 DEF old
<1> HIDE DEF new, k, one
<1>9. Handed(s, SetPages(SetPages(s, b, q), c, new), b, q, c, new)
  BY ONLY <1>1, <1>2, <1>7, <1>8, HandOver, b \in Buffers, c \in Buffers
<1> QED BY <1>5, <1>9 DEF u, new, old, q

\* The last page of b goes before those of c.
LEMMA BackToFrontIs ==
  ASSUME NEW s, Fine(s), NEW b \in Buffers, NEW c \in Buffers, Pages(s, b) # <<>>
  PROVE  Handed(s, BackToFront(s, b, c), b, Front(Pages(s, b)),
                c, <<Last(Pages(s, b))>> \o Left(s, b, Front(Pages(s, b)), c))
<1> DEFINE D == DOMAIN s.heap
           ps == Pages(s, b)
           q == Front(ps)
           l == Len(ps)
           old == Left(s, b, q, c)
           new == <<Last(ps)>> \o old
           one == 1
           u == SetPages(s, b, q)
<1>1. Sound(s, {}) /\ ps \in Seq(D) /\ Shaped(s) BY SoundParts DEF Fine, Sound
<1>2. q \in Seq(D) /\ Without(q, ps, l) /\ Last(ps) = ps[l] /\ Last(ps) \in D
  BY <1>1, FrontIs
<1>3. Paged(s, u, b, q) BY <1>1, SetPagesIs
<1>4. Pages(u, c) = old BY <1>3 DEF Paged, Left
<1>5. BackToFront(s, b, c) = SetPages(u, c, new) BY <1>4 DEF BackToFront
<1>6. old \in Seq(D)
  <2> HIDE DEF q
  <2> QED BY <1>1, <1>2, LeftIn
<1> HIDE DEF q, old, u
<1>7. new \in Seq(D) /\ Without(old, new, one) /\ new[one] = ps[l] BY <1>2, <1>6, InFrontIs
<1>8. Without(Left(s, b, q, c), new, one) BY <1>7 DEF old
<1> HIDE DEF new, one, l
<1>9. Handed(s, SetPages(SetPages(s, b, q), c, new), b, q, c, new)
  BY ONLY <1>1, <1>2, <1>7, <1>8, HandOver, b \in Buffers, c \in Buffers
<1> QED BY <1>5, <1>9 DEF u, new, old, q

\* The last page of b goes behind those of c.
LEMMA BackToBackIs ==
  ASSUME NEW s, Fine(s), NEW b \in Buffers, NEW c \in Buffers, Pages(s, b) # <<>>, b # c
  PROVE  Handed(s, BackToBack(s, b, c), b, Front(Pages(s, b)),
                c, Append(Left(s, b, Front(Pages(s, b)), c), Last(Pages(s, b))))
<1> DEFINE D == DOMAIN s.heap
           ps == Pages(s, b)
           q == Front(ps)
           l == Len(ps)
           old == Left(s, b, q, c)
           new == Append(old, Last(ps))
           k == Len(old) + 1
           u == SetPages(s, b, q)
<1>1. Sound(s, {}) /\ ps \in Seq(D) /\ Shaped(s) BY SoundParts DEF Fine, Sound
<1>2. q \in Seq(D) /\ Without(q, ps, l) /\ Last(ps) = ps[l] /\ Last(ps) \in D
  BY <1>1, FrontIs
<1>3. Pages(s, c) = old BY DEF Left
<1>5. BackToBack(s, b, c) = SetPages(u, c, new) BY <1>3 DEF BackToBack
<1>6. old \in Seq(D)
  <2> HIDE DEF q
  <2> QED BY <1>1, <1>2, LeftIn
<1> HIDE DEF q, old, u
<1>7. new \in Seq(D) /\ Without(old, new, k) /\ new[k] = ps[l] BY <1>2, <1>6, AppendIs
<1>8. Without(Left(s, b, q, c), new, k) BY <1>7 DEF old
<1> HIDE DEF new, k, l
<1>9. Handed(s, SetPages(SetPages(s, b, q), c, new), b, q, c, new)
  BY ONLY <1>1, <1>2, <1>7, <1>8, HandOver, b \in Buffers, c \in Buffers
<1> QED BY <1>5, <1>9 DEF u, new, old, q

\* c has a page more, unless it had it before; the positions of a have moved by e, but no text.
Gained(s, t, b, c, a, e) ==
  /\ Fine(t) /\ Shifted(s, t, a, e)
  /\ Len(Pages(t, c)) = (IF b = c THEN Len(Pages(s, c)) ELSE Len(Pages(s, c)) + 1)
  /\ SameTexts(s, t)

\* A buffer that has no part in a hand-over.
LEMMA HandedBeside ==
  ASSUME NEW s, Fine(s), NEW t, t.heap = s.heap, NEW a \in Buffers,
         Pages(t, a) = Pages(s, a), Begin(t, a) = Begin(s, a), End(t, a) = End(s, a)
  PROVE  Intact(s, t, a)
<1>1. Len(Pages(s, a)) \in Nat /\ Ready(s, a) BY SoundParts DEF Fine
<1> QED BY <1>1, SameKeeps

\* An unused first page goes behind c.
LEMMA FrontToBackKeeps ==
  ASSUME NEW s, Fine(s), NEW b \in Buffers, NEW c \in Buffers,
         Begin(s, b) # NoPosition, Begin(s, b) >= PageSize
  PROVE  Gained(s, Shift(FrontToBack(s, b, c), b, -PageSize), b, c, b, -PageSize)
<1> DEFINE A == Pages(s, b)
           l == Len(A)
           q == Tail(A)
           old == Left(s, b, q, c)
           new == Append(old, Head(A))
           m == Len(old)
           t == FrontToBack(s, b, c)
           e == -PageSize
           w == Shift(t, b, e)
<1>1. /\ A # <<>> /\ l > 0 /\ \A i \in 1..l : i > Begin(s, b) \div PageSize => i \in 2..l
      /\ End(s, b) - PageSize <= (l - 1) * PageSize
  BY FirstIsFree
<1>2. Sound(s, {}) /\ A \in Seq(DOMAIN s.heap) /\ l \in Nat /\ \A a \in Buffers : Ready(s, a)
  BY SoundParts DEF Fine
<1>3. q \in Seq(DOMAIN s.heap) /\ Without(q, A, 1) /\ Len(q) = l - 1 /\ Head(A) \in DOMAIN s.heap
  BY <1>1, <1>2, TailIs
<1>4. \A i \in 2..l : q[i - 1] = A[i]
  <2> TAKE i \in 2..l
  <2>1. i - 1 \in 1..Len(q) /\ ~(i - 1 < 1) /\ (i - 1) + 1 = i BY <1>2, <1>3
  <2> QED BY <1>3, <2>1 DEF Without
<1>5. old \in Seq(DOMAIN s.heap) /\ m \in Nat
  <2> HIDE DEF q
  <2> QED BY <1>2, <1>3, LeftIn
<1>6. Len(new) = m + 1 /\ \A i \in 1..m : new[i] = old[i]
  <2> HIDE DEF q, old
  <2>1. Without(old, new, m + 1) /\ Len(new) = m + 1 BY <1>3, <1>5, AppendIs
  <2> HIDE DEF new
  <2> QED BY <1>5, <2>1 DEF Without
<1>7. Handed(s, t, b, q, c, new) BY <1>1, FrontToBackIs
<1> HIDE DEF q, t, new
<1>8. Shaped(t) BY <1>7 DEF Handed, Sound
<1> HIDE DEF e
<1>9. Ranged(t, w, b, Begin(t, b) + e, End(t, b) + e) BY <1>8, ShiftIs
<1> HIDE DEF w
<1>10. Sound(w, {})
  <2>1. Sound(t, {}) BY <1>7 DEF Handed
  <2> DEFINE x == Begin(t, b) + e
             y == End(t, b) + e
  <2>2. Ranged(t, w, b, x, y) BY <1>9
  <2> HIDE DEF x, y
  <2> QED BY ONLY <2>1, <2>2, SoundRanged
<1>11. /\ w.heap = s.heap
       /\ \A a \in Buffers : /\ Begin(w, a) = (IF a = b THEN Begin(s, a) + e ELSE Begin(s, a))
                             /\ End(w, a) = (IF a = b THEN End(s, a) + e ELSE End(s, a))
                             /\ Pages(w, a) = (IF a = c THEN new ELSE IF a = b THEN q
                                               ELSE Pages(s, a))
  BY <1>7, <1>9 DEF Ranged, Handed
<1>12. /\ b = c => m = l - 1 /\ \A i \in 2..l : new[i - 1] = A[i]
       /\ b # c => m = Len(Pages(s, c)) /\ \A i \in 1..m : new[i] = Pages(s, c)[i]
  <2>1. CASE b = c
    <3>1. old = q /\ m = l - 1 BY <1>3, <2>1 DEF Left
    <3>2. \A i \in 2..l : i - 1 \in 1..m BY <1>2, <3>1
    <3> QED BY <1>4, <1>6, <2>1, <3>1, <3>2
  <2>2. CASE b # c
    <3>1. old = Pages(s, c) BY <2>2 DEF Left
    <3> QED BY <1>6, <2>2, <3>1
  <2> QED BY <2>1, <2>2
<1> HIDE DEF old, m
<1>13. ASSUME NEW a \in Buffers, a # b, a # c PROVE Intact(s, w, a)
  BY <1>11, <1>13, HandedBeside
<1>14. Intact(s, w, b)
  <2> DEFINE d == -1
  <2>0. Len(Pages(w, b)) = (IF b = c THEN m + 1 ELSE l - 1) BY <1>3, <1>6, <1>11
  <2>1. Carried(s, w, b, d)
    <3>1. ASSUME NEW i \in 1..l, i > Begin(s, b) \div PageSize
          PROVE  w.heap[Pages(w, b)[i + d]] = s.heap[A[i]]
      <4>1. i \in 2..l /\ i + d = i - 1 BY <1>1, <1>2, <3>1
      <4>2. Pages(w, b)[i - 1] = A[i] BY <1>4, <1>11, <1>12, <4>1
      <4> QED BY <1>11, <4>1, <4>2
    <3> QED BY <3>1 DEF Carried
  <2>2. Begin(w, b) \in Nat /\ End(w, b) <= Len(Pages(w, b)) * PageSize
    <3>1. Begin(s, b) \in Nat /\ End(s, b) \in Nat /\ Begin(s, b) >= PageSize
      BY <1>2, ReadyParts
    <3>2. Begin(w, b) = Begin(s, b) - PageSize /\ End(w, b) = End(s, b) - PageSize
      BY <1>11, <3>1, SizeIs DEF e
    <3> DEFINE k == l - 1
               n == Len(Pages(w, b))
    <3>3. k \in Nat /\ (n = k \/ n = k + 1) /\ n \in Nat
      BY <1>1, <1>2, <1>12, <2>0
    <3>4. End(s, b) - PageSize <= k * PageSize BY <1>1
    <3> HIDE DEF k, n
    <3>5. (k + 1) * PageSize = k * PageSize + PageSize /\ k * PageSize \in Nat
      BY <3>3, RowSize
    <3>6. n * PageSize = k * PageSize \/ n * PageSize = k * PageSize + PageSize BY <3>3, <3>5
    <3>7. End(w, b) <= n * PageSize BY ONLY <3>1, <3>2, <3>4, <3>5, <3>6, SizeIs
    <3> QED BY <3>1, <3>2, <3>7, SizeIs DEF n
  <2>3. Begin(w, b) = Begin(s, b) + e /\ End(w, b) = End(s, b) + e /\ e \in Int /\ d \in Int
    BY <1>11, SizeIs DEF e
  <2>4. (d = 0 /\ e = 0) \/ (d = 1 /\ e = PageSize) \/ (d = -1 /\ e = -PageSize) BY DEF e
  <2>5. Len(Pages(s, b)) \in Nat /\ (Begin(s, b) = NoPosition => e = 0) /\ Ready(s, b) BY <1>2
  <2> HIDE DEF d
  <2> QED BY ONLY <2>1, <2>2, <2>3, <2>4, <2>5, CarriedKeeps
<1>15. ASSUME b # c PROVE Intact(s, w, c)
  <2> DEFINE z == 0
             k == Len(Pages(s, c))
  <2>1. /\ Pages(w, c) = new /\ Begin(w, c) = Begin(s, c) /\ End(w, c) = End(s, c)
        /\ Begin(s, c) \in Int /\ End(s, c) \in Int /\ Ready(s, c) /\ k \in Nat
    BY <1>2, <1>11, <1>15, SoundParts, ReadyParts
  <2>2. Carried(s, w, c, z)
    <3>1. \A i \in 1..k : i + z = i /\ new[i] = Pages(s, c)[i] BY <1>12, <1>15, <2>1
    <3> HIDE DEF z
    <3> QED BY <1>11, <2>1, <3>1 DEF Carried
  <2>3. Begin(s, c) # NoPosition =>
          Begin(w, c) \in Nat /\ End(w, c) <= Len(Pages(w, c)) * PageSize
    <3> SUFFICES ASSUME Begin(s, c) # NoPosition
                 PROVE  Begin(w, c) \in Nat /\ End(w, c) <= Len(Pages(w, c)) * PageSize OBVIOUS
    <3>1. Begin(s, c) \in Nat /\ End(s, c) <= k * PageSize BY <2>1, ReadyParts
    <3>2. (k + 1) * PageSize = k * PageSize + PageSize /\ k * PageSize \in Nat
      BY <2>1, RowSize
    <3>3. Len(Pages(w, c)) * PageSize = (k + 1) * PageSize BY <1>6, <1>12, <1>15, <2>1
    <3> QED BY ONLY <2>1, <3>1, <3>2, <3>3, SizeIs
  <2>4. Begin(w, c) = Begin(s, c) + z /\ End(w, c) = End(s, c) + z /\ z \in Int
    BY <2>1
  <2>5. (z = 0 /\ z = 0) \/ (z = 1 /\ z = PageSize) \/ (z = -1 /\ z = -PageSize) OBVIOUS
  <2>6. Len(Pages(s, c)) \in Nat /\ (Begin(s, c) = NoPosition => z = 0) BY <2>1
  <2> HIDE DEF z
  <2> QED BY ONLY <2>1, <2>2, <2>3, <2>4, <2>5, <2>6, CarriedKeeps
<1>16. Fine(w) /\ SameTexts(s, w) BY <1>10, <1>13, <1>14, <1>15 DEF Fine, Intact, SameTexts
<1>17. Shifted(s, w, b, e) BY <1>11 DEF Shifted
<1>18. Len(Pages(w, c)) = (IF b = c THEN Len(Pages(s, c)) ELSE Len(Pages(s, c)) + 1)
  BY <1>1, <1>2, <1>6, <1>11, <1>12
<1>19. Gained(s, w, b, c, b, e) BY <1>16, <1>17, <1>18 DEF Gained
<1> QED BY <1>19 DEF w, t, e

\* A spare last page goes before the bytes of c.
LEMMA BackToFrontKeeps ==
  ASSUME NEW s, Fine(s), NEW b \in Buffers, NEW c \in Buffers, Spare(s, b),
         Begin(s, c) # NoPosition
  PROVE  Gained(s, Shift(BackToFront(s, b, c), c, PageSize), b, c, c, PageSize)
<1> DEFINE A == Pages(s, b)
           l == Len(A)
           q == Front(A)
           old == Left(s, b, q, c)
           new == <<Last(A)>> \o old
           m == Len(old)
           t == BackToFront(s, b, c)
           e == PageSize
           w == Shift(t, c, e)
<1>1. /\ A # <<>> /\ l > 1 /\ Begin(s, b) # NoPosition
      /\ \A i \in 1..l : i <= ((End(s, b) - 1) \div PageSize) + 1 => i \in 1..l - 1
      /\ End(s, b) <= (l - 1) * PageSize
  BY LastIsFree
<1>2. Sound(s, {}) /\ A \in Seq(DOMAIN s.heap) /\ l \in Nat /\ \A a \in Buffers : Ready(s, a)
  BY SoundParts DEF Fine
<1>3. q \in Seq(DOMAIN s.heap) /\ Without(q, A, l) /\ Len(q) = l - 1 /\ Last(A) \in DOMAIN s.heap
  BY <1>1, <1>2, FrontIs
<1>4. \A i \in 1..l - 1 : q[i] = A[i]
  <2> TAKE i \in 1..l - 1
  <2>1. i \in 1..Len(q) /\ i < l BY <1>2, <1>3
  <2> QED BY <1>3, <2>1 DEF Without
<1>5. old \in Seq(DOMAIN s.heap) /\ m \in Nat
  <2> HIDE DEF q
  <2> QED BY <1>2, <1>3, LeftIn
<1>6. Len(new) = m + 1 /\ \A i \in 1..m : new[i + 1] = old[i]
  <2> HIDE DEF q, old
  <2>1. Without(old, new, 1) /\ Len(new) = m + 1 BY <1>3, <1>5, InFrontIs
  <2> HIDE DEF new
  <2> QED BY <1>5, <2>1 DEF Without
<1>7. Handed(s, t, b, q, c, new) BY <1>1, BackToFrontIs
<1> HIDE DEF q, t, new
<1>8. Shaped(t) BY <1>7 DEF Handed, Sound
<1> HIDE DEF e
<1>9. Ranged(t, w, c, Begin(t, c) + e, End(t, c) + e) BY <1>8, ShiftIs
<1> HIDE DEF w
<1>10. Sound(w, {})
  <2>1. Sound(t, {}) BY <1>7 DEF Handed
  <2> DEFINE x == Begin(t, c) + e
             y == End(t, c) + e
  <2>2. Ranged(t, w, c, x, y) BY <1>9
  <2> HIDE DEF x, y
  <2> QED BY ONLY <2>1, <2>2, SoundRanged
<1>11. /\ w.heap = s.heap
       /\ \A a \in Buffers : /\ Begin(w, a) = (IF a = c THEN Begin(s, a) + e ELSE Begin(s, a))
                             /\ End(w, a) = (IF a = c THEN End(s, a) + e ELSE End(s, a))
                             /\ Pages(w, a) = (IF a = c THEN new ELSE IF a = b THEN q
                                               ELSE Pages(s, a))
  BY <1>7, <1>9 DEF Ranged, Handed
<1>12. /\ b = c => m = l - 1 /\ \A i \in 1..m : new[i + 1] = A[i]
       /\ b # c => m = Len(Pages(s, c)) /\ \A i \in 1..m : new[i + 1] = Pages(s, c)[i]
  <2>1. CASE b = c
    <3>1. old = q /\ m = l - 1 BY <1>3, <2>1 DEF Left
    <3> QED BY <1>4, <1>6, <2>1, <3>1
  <2>2. CASE b # c
    <3>1. old = Pages(s, c) BY <2>2 DEF Left
    <3> QED BY <1>6, <2>2, <3>1
  <2> QED BY <2>1, <2>2
<1> HIDE DEF old, m
<1>13. ASSUME NEW a \in Buffers, a # b, a # c PROVE Intact(s, w, a)
  BY <1>11, <1>13, HandedBeside
<1>14. ASSUME b # c PROVE Intact(s, w, b)
  <2> DEFINE z == 0
  <2>1. /\ Pages(w, b) = q /\ Begin(w, b) = Begin(s, b) /\ End(w, b) = End(s, b)
        /\ Begin(s, b) \in Nat /\ End(s, b) \in Nat /\ Ready(s, b)
    BY <1>1, <1>2, <1>11, <1>14, ReadyParts
  <2>2. Carried(s, w, b, z)
    <3>1. ASSUME NEW i \in 1..l, i <= ((End(s, b) - 1) \div PageSize) + 1
          PROVE  w.heap[Pages(w, b)[i + z]] = s.heap[A[i]]
      <4>1. i \in 1..l - 1 /\ i + z = i BY <1>1, <3>1
      <4> QED BY <1>4, <1>11, <2>1, <4>1
    <3> HIDE DEF z
    <3> QED BY <3>1 DEF Carried
  <2>3. Begin(w, b) \in Nat /\ End(w, b) <= Len(Pages(w, b)) * PageSize
    <3>1. Len(Pages(w, b)) = l - 1 BY <1>3, <2>1
    <3> QED BY <1>1, <2>1, <3>1
  <2>4. Begin(w, b) = Begin(s, b) + z /\ End(w, b) = End(s, b) + z /\ z \in Int
    BY <2>1
  <2>5. (z = 0 /\ z = 0) \/ (z = 1 /\ z = PageSize) \/ (z = -1 /\ z = -PageSize) OBVIOUS
  <2>6. Len(Pages(s, b)) \in Nat /\ (Begin(s, b) = NoPosition => z = 0) BY <1>2
  <2> HIDE DEF z
  <2> QED BY ONLY <2>1, <2>2, <2>3, <2>4, <2>5, <2>6, CarriedKeeps
<1>15. Intact(s, w, c)
  <2> DEFINE d == 1
             k == Len(Pages(s, c))
  <2>1. /\ Pages(w, c) = new /\ Ready(s, c) /\ k \in Nat
        /\ Begin(w, c) = Begin(s, c) + e /\ End(w, c) = End(s, c) + e /\ e = PageSize
        /\ Begin(s, c) \in Nat /\ End(s, c) \in Nat /\ End(s, c) <= k * PageSize
    BY <1>2, <1>11, SoundParts, ReadyParts DEF e
  <2>2. Carried(s, w, c, d)
    <3>1. ASSUME NEW i \in 1..k, i <= ((End(s, c) - 1) \div PageSize) + 1
          PROVE  w.heap[Pages(w, c)[i + d]] = s.heap[Pages(s, c)[i]]
      <4>1. i \in 1..m
        <5>1. CASE b = c BY <1>1, <1>12, <3>1, <5>1
        <5>2. CASE b # c BY <1>12, <5>2
        <5> QED BY <5>1, <5>2
      <4>2. new[i + 1] = Pages(s, c)[i] BY <1>12, <4>1
      <4> QED BY <1>11, <2>1, <4>2
    <3> HIDE DEF d
    <3> QED BY <3>1 DEF Carried
  <2>3. Begin(w, c) \in Nat /\ End(w, c) <= Len(Pages(w, c)) * PageSize
    <3>1. End(s, c) <= m * PageSize
      <4>1. CASE b = c BY <1>1, <1>12, <4>1
      <4>2. CASE b # c BY <1>12, <2>1, <4>2
      <4> QED BY <4>1, <4>2
    <3>2. m \in Nat BY <1>5 DEF m
    <3>3. (m + 1) * PageSize = m * PageSize + PageSize /\ m * PageSize \in Nat
      BY <3>2, RowSize
    <3>4. Len(Pages(w, c)) * PageSize = (m + 1) * PageSize BY <1>6, <2>1 DEF m
    <3> QED BY ONLY <2>1, <3>1, <3>3, <3>4, SizeIs
  <2>4. (d = 0 /\ e = 0) \/ (d = 1 /\ e = PageSize) \/ (d = -1 /\ e = -PageSize) BY DEF e
  <2>5. Len(Pages(s, c)) \in Nat /\ (Begin(s, c) = NoPosition => e = 0) BY <2>1
  <2>6. e \in Int /\ d \in Int BY SizeIs DEF e
  <2> HIDE DEF d
  <2> QED BY ONLY <2>1, <2>2, <2>3, <2>4, <2>5, <2>6, CarriedKeeps
<1>16. Fine(w) /\ SameTexts(s, w) BY <1>10, <1>13, <1>14, <1>15 DEF Fine, Intact, SameTexts
<1>17. Shifted(s, w, c, e) BY <1>11 DEF Shifted
<1>18. Len(Pages(w, c)) = (IF b = c THEN Len(Pages(s, c)) ELSE Len(Pages(s, c)) + 1)
  <2>1. Len(Pages(w, c)) = m + 1 BY <1>6, <1>11 DEF m
  <2> QED BY <1>1, <1>2, <1>12, <2>1
<1>19. Gained(s, w, b, c, c, e) BY <1>16, <1>17, <1>18 DEF Gained
<1> QED BY <1>19 DEF w, t, e

\* A spare last page goes behind those of another buffer.
LEMMA BackToBackKeeps ==
  ASSUME NEW s, Fine(s), NEW b \in Buffers, NEW c \in Buffers, Spare(s, b), b # c
  PROVE  Gained(s, BackToBack(s, b, c), b, c, c, 0)
<1> DEFINE A == Pages(s, b)
           l == Len(A)
           q == Front(A)
           old == Pages(s, c)
           new == Append(old, Last(A))
           m == Len(old)
           w == BackToBack(s, b, c)
           z == 0
<1>1. /\ A # <<>> /\ l > 1 /\ Begin(s, b) # NoPosition
      /\ \A i \in 1..l : i <= ((End(s, b) - 1) \div PageSize) + 1 => i \in 1..l - 1
      /\ End(s, b) <= (l - 1) * PageSize
  BY LastIsFree
<1>2. /\ Sound(s, {}) /\ A \in Seq(DOMAIN s.heap) /\ l \in Nat /\ \A a \in Buffers : Ready(s, a)
      /\ old \in Seq(DOMAIN s.heap) /\ m \in Nat
  BY SoundParts DEF Fine
<1>3. q \in Seq(DOMAIN s.heap) /\ Without(q, A, l) /\ Len(q) = l - 1 /\ Last(A) \in DOMAIN s.heap
  BY <1>1, <1>2, FrontIs
<1>4. \A i \in 1..l - 1 : q[i] = A[i]
  <2> TAKE i \in 1..l - 1
  <2>1. i \in 1..Len(q) /\ i < l BY <1>2, <1>3
  <2> QED BY <1>3, <2>1 DEF Without
<1>6. Len(new) = m + 1 /\ \A i \in 1..m : new[i] = old[i]
  <2> HIDE DEF q, old
  <2>1. Without(old, new, m + 1) /\ Len(new) = m + 1 BY <1>2, <1>3, AppendIs
  <2> HIDE DEF new
  <2> QED BY <1>2, <2>1 DEF Without
<1>7. Handed(s, w, b, q, c, new)
  <2>1. Left(s, b, q, c) = old BY DEF Left
  <2> QED BY <1>1, <2>1, BackToBackIs
<1> HIDE DEF q, w, new
<1>10. Sound(w, {}) BY <1>7 DEF Handed
<1>11. /\ w.heap = s.heap
       /\ \A a \in Buffers : /\ Begin(w, a) = Begin(s, a) /\ End(w, a) = End(s, a)
                             /\ Pages(w, a) = (IF a = c THEN new ELSE IF a = b THEN q
                                               ELSE Pages(s, a))
                             /\ Begin(s, a) \in Int /\ End(s, a) \in Int
  BY <1>2, <1>7, ReadyParts DEF Handed
<1>13. ASSUME NEW a \in Buffers, a # b, a # c PROVE Intact(s, w, a)
  BY <1>11, <1>13, HandedBeside
<1>5. (z = 0 /\ z = 0) \/ (z = 1 /\ z = PageSize) \/ (z = -1 /\ z = -PageSize) OBVIOUS
<1>14. Intact(s, w, b)
  <2>1. /\ Pages(w, b) = q /\ Begin(w, b) = Begin(s, b) /\ End(w, b) = End(s, b)
        /\ Begin(s, b) \in Nat /\ End(s, b) \in Nat /\ Ready(s, b)
    BY <1>1, <1>2, <1>11, ReadyParts
  <2>2. Carried(s, w, b, z)
    <3>1. ASSUME NEW i \in 1..l, i <= ((End(s, b) - 1) \div PageSize) + 1
          PROVE  w.heap[Pages(w, b)[i + z]] = s.heap[A[i]]
      <4>1. i \in 1..l - 1 /\ i + z = i BY <1>1, <3>1
      <4> QED BY <1>4, <1>11, <2>1, <4>1
    <3> HIDE DEF z
    <3> QED BY <3>1 DEF Carried
  <2>3. Begin(w, b) \in Nat /\ End(w, b) <= Len(Pages(w, b)) * PageSize
    <3>1. Len(Pages(w, b)) = l - 1 BY <1>3, <2>1
    <3> QED BY <1>1, <2>1, <3>1
  <2>4. Begin(w, b) = Begin(s, b) + z /\ End(w, b) = End(s, b) + z /\ z \in Int
    BY <2>1
  <2>6. Len(Pages(s, b)) \in Nat /\ (Begin(s, b) = NoPosition => z = 0) BY <1>2
  <2> HIDE DEF z
  <2> QED BY ONLY <1>5, <2>1, <2>2, <2>3, <2>4, <2>6, CarriedKeeps
<1>15. Intact(s, w, c)
  <2>1. Pages(w, c) = new /\ Ready(s, c) /\ Begin(w, c) = Begin(s, c) /\ End(w, c) = End(s, c)
    BY <1>2, <1>11
  <2>2. Carried(s, w, c, z)
    <3>1. \A i \in 1..m : i + z = i /\ new[i] = old[i] BY <1>2, <1>6
    <3> HIDE DEF z
    <3> QED BY <1>11, <2>1, <3>1 DEF Carried
  <2>3. Begin(s, c) # NoPosition =>
          Begin(w, c) \in Nat /\ End(w, c) <= Len(Pages(w, c)) * PageSize
    <3> SUFFICES ASSUME Begin(s, c) # NoPosition
                 PROVE  Begin(w, c) \in Nat /\ End(w, c) <= Len(Pages(w, c)) * PageSize OBVIOUS
    <3>1. Begin(s, c) \in Nat /\ End(s, c) <= m * PageSize /\ End(s, c) \in Nat
      BY <2>1, ReadyParts
    <3>2. (m + 1) * PageSize = m * PageSize + PageSize /\ m * PageSize \in Nat
      BY <1>2, RowSize
    <3>3. Len(Pages(w, c)) * PageSize = (m + 1) * PageSize BY <1>6, <2>1
    <3> QED BY ONLY <2>1, <3>1, <3>2, <3>3, SizeIs
  <2>4. Begin(w, c) = Begin(s, c) + z /\ End(w, c) = End(s, c) + z /\ z \in Int
    BY <1>11, <2>1
  <2>6. Len(Pages(s, c)) \in Nat /\ (Begin(s, c) = NoPosition => z = 0) BY <1>2
  <2> HIDE DEF z
  <2> QED BY ONLY <1>5, <2>1, <2>2, <2>3, <2>4, <2>6, CarriedKeeps
<1>16. Fine(w) /\ SameTexts(s, w) BY <1>10, <1>13, <1>14, <1>15 DEF Fine, Intact, SameTexts
<1>17. Shifted(s, w, c, 0) BY <1>11 DEF Shifted
<1>18. Len(Pages(w, c)) = (IF b = c THEN Len(Pages(s, c)) ELSE Len(Pages(s, c)) + 1)
  BY <1>6, <1>11
<1>19. Gained(s, w, b, c, c, 0) BY <1>16, <1>17, <1>18 DEF Gained
<1> QED BY <1>19 DEF w

(*** Room for a byte, and the byte that goes there. ***)

\* Only b and c may have moved, by whole pages, with their texts.
Like(s, t, b, c) ==
  /\ Fine(t) /\ SameTexts(s, t)
  /\ \A a \in Buffers :
       /\ a # b /\ a # c => Begin(t, a) = Begin(s, a) /\ End(t, a) = End(s, a)
       /\ Begin(s, a) # NoPosition =>
            /\ Begin(t, a) # NoPosition
            /\ End(t, a) - Begin(t, a) = End(s, a) - Begin(s, a)
            /\ Begin(t, a) % PageSize = Begin(s, a) % PageSize
            /\ End(t, a) % PageSize = End(s, a) % PageSize

\* A buffer shifted by a page, or by none, has its bytes at the same offsets.
LEMMA ShiftedLike ==
  ASSUME NEW s, Fine(s), NEW t, Fine(t), SameTexts(s, t), NEW b, NEW c,
         NEW d \in Buffers, d = b \/ d = c,
         NEW e \in Int, e = 0 \/ e = PageSize \/ e = -PageSize, Shifted(s, t, d, e),
         Begin(s, d) + e >= 0
  PROVE  Like(s, t, b, c)
<1> SUFFICES ASSUME NEW a \in Buffers
             PROVE  /\ a # b /\ a # c => Begin(t, a) = Begin(s, a) /\ End(t, a) = End(s, a)
                    /\ Begin(s, a) # NoPosition =>
                         /\ Begin(t, a) # NoPosition
                         /\ End(t, a) - Begin(t, a) = End(s, a) - Begin(s, a)
                         /\ Begin(t, a) % PageSize = Begin(s, a) % PageSize
                         /\ End(t, a) % PageSize = End(s, a) % PageSize
  BY DEF Like
<1>1. CASE a # d BY <1>1 DEF Shifted
<1>2. CASE a = d
  <2> DEFINE x == Begin(s, d)
             y == End(s, d)
  <2>1. x \in Int /\ y \in Int BY ReadyParts DEF Fine
  <2>2. Begin(t, a) = x + e /\ End(t, a) = y + e /\ x + e >= 0 BY <1>2 DEF Shifted
  <2> HIDE DEF x, y
  <2>3. \A z \in Int : (z + e) % PageSize = z % PageSize
    <3> TAKE z \in Int
    <3>1. CASE e = 0 BY <3>1
    <3>2. CASE e = PageSize BY <3>2, QuotNext
    <3>3. CASE e = -PageSize
      <4>1. z + e = z - PageSize BY <3>3, SizeIs
      <4> QED BY <4>1, QuotBefore
    <3> QED BY <3>1, <3>2, <3>3
  <2>4. (x + e) % PageSize = x % PageSize /\ (y + e) % PageSize = y % PageSize
    BY ONLY <2>1, <2>3
  <2>5. x + e # NoPosition BY <2>1, <2>2 DEF NoPosition
  <2>6. (y + e) - (x + e) = y - x BY <2>1
  <2>7. /\ Begin(t, a) # NoPosition /\ End(t, a) - Begin(t, a) = y - x
        /\ Begin(t, a) % PageSize = x % PageSize /\ End(t, a) % PageSize = y % PageSize
    BY <2>2, <2>4, <2>5, <2>6
  <2> QED BY <1>2, <2>7 DEF x, y
<1> QED BY <1>1, <1>2

\* A state is like itself.
LEMMA LikeItself ==
  ASSUME NEW s, Fine(s), NEW b, NEW c
  PROVE  Like(s, s, b, c)
BY DEF Like, SameTexts

\* Behind the bytes of c there is room then.
LEMMA RoomBehindIs ==
  ASSUME NEW s, Fine(s), NEW b \in Buffers, NEW c \in Buffers,
         Begin(s, b) # NoPosition, Begin(s, c) # NoPosition
  PROVE  /\ Like(s, RoomBehind(s, b, c), b, c)
         /\ End(RoomBehind(s, b, c), c) < Len(Pages(RoomBehind(s, b, c), c)) * PageSize
<1> DEFINE t == RoomBehind(s, b, c)
           l == Len(Pages(s, c))
           m == Len(Pages(t, c))
           x == Begin(s, b)
           y == Begin(s, c)
           z == End(s, c)
<1>1. /\ l \in Nat /\ x \in Nat /\ y \in Nat /\ z \in Nat /\ z <= l * PageSize
  BY SoundParts, ReadyParts DEF Fine
<1>2. (l + 1) * PageSize = l * PageSize + PageSize /\ l * PageSize \in Nat
  BY <1>1, RowSize
<1>3. SUFFICES Like(s, t, b, c) /\ End(t, c) < m * PageSize OBVIOUS
<1>4. CASE z # l * PageSize
  <2>1. t = s BY <1>4 DEF RoomBehind
  <2> HIDE DEF t
  <2> QED BY <1>1, <1>2, <1>4, <2>1, LikeItself, SizeIs
<1>5. CASE z = l * PageSize /\ x >= PageSize
  <2> DEFINE e == -PageSize
  <2>1. t = Shift(FrontToBack(s, b, c), b, -PageSize) BY <1>5 DEF RoomBehind
  <2>2. Gained(s, t, b, c, b, e) BY <1>5, <2>1, FrontToBackKeeps
  <2> HIDE DEF t
  <2>3. e \in Int /\ (e = 0 \/ e = PageSize \/ e = -PageSize) /\ Begin(s, b) + e >= 0
    BY <1>1, <1>5, SizeIs
  <2>4. Fine(t) /\ SameTexts(s, t) /\ Shifted(s, t, b, e) BY <2>2 DEF Gained
  <2>5. Like(s, t, b, c)
    <3> HIDE DEF e
    <3> QED BY ONLY Fine(s), <2>3, <2>4, ShiftedLike, b \in Buffers
  <2>6. /\ End(t, c) = (IF c = b THEN z - PageSize ELSE z)
        /\ m = (IF b = c THEN l ELSE l + 1)
    BY <1>1, <2>2, SizeIs DEF Gained, Shifted
  <2>7. m * PageSize = (IF b = c THEN l * PageSize ELSE (l + 1) * PageSize) BY <2>6
  <2> HIDE DEF m, l, z, x
  <2>8. End(t, c) < m * PageSize BY ONLY <1>1, <1>2, <1>5, <2>6, <2>7, SizeIs
  <2> QED BY <2>5, <2>8
<1>6. CASE z = l * PageSize /\ ~(x >= PageSize) /\ y >= PageSize
  <2> DEFINE e == -PageSize
  <2>1. t = Shift(FrontToBack(s, c, c), c, -PageSize) BY <1>6 DEF RoomBehind
  <2>2. Gained(s, t, c, c, c, e) BY <1>6, <2>1, FrontToBackKeeps
  <2> HIDE DEF t
  <2>3. e \in Int /\ (e = 0 \/ e = PageSize \/ e = -PageSize) /\ Begin(s, c) + e >= 0
    BY <1>1, <1>6, SizeIs
  <2>4. Fine(t) /\ SameTexts(s, t) /\ Shifted(s, t, c, e) BY <2>2 DEF Gained
  <2>5. Like(s, t, b, c)
    <3> HIDE DEF e
    <3> QED BY ONLY Fine(s), <2>3, <2>4, ShiftedLike, c \in Buffers
  <2>6. End(t, c) = z - PageSize /\ m = l
    BY <1>1, <2>2, SizeIs DEF Gained, Shifted
  <2>7. m * PageSize = l * PageSize BY <2>6
  <2> HIDE DEF m, l, z, x, y
  <2>8. End(t, c) < m * PageSize BY ONLY <1>1, <1>2, <1>6, <2>6, <2>7, SizeIs
  <2> QED BY <2>5, <2>8
<1>7. CASE z = l * PageSize /\ ~(x >= PageSize) /\ ~(y >= PageSize)
  <2> DEFINE e == 0
  <2>1. t = FreshBack(s, c) BY <1>7 DEF RoomBehind
  <2>2. Grown(s, t, c, e) BY <2>1, FreshBackKeeps
  <2> HIDE DEF t
  <2>3. e \in Int /\ (e = 0 \/ e = PageSize \/ e = -PageSize) /\ Begin(s, c) + e >= 0
    BY <1>1
  <2>4. Fine(t) /\ SameTexts(s, t) /\ Shifted(s, t, c, e) BY <2>2 DEF Grown
  <2>5. Like(s, t, b, c)
    <3> HIDE DEF e
    <3> QED BY ONLY Fine(s), <2>3, <2>4, ShiftedLike, c \in Buffers
  <2>6. End(t, c) = z /\ m = l + 1 BY <1>1, <2>2 DEF Grown, Shifted
  <2>7. m * PageSize = (l + 1) * PageSize BY <2>6
  <2> HIDE DEF m, l, z, x, y
  <2>8. End(t, c) < m * PageSize BY ONLY <1>1, <1>2, <1>7, <2>6, <2>7, SizeIs
  <2> QED BY <2>5, <2>8
<1> QED BY <1>4, <1>5, <1>6, <1>7

\* Before the bytes of c there is room then.
LEMMA RoomBeforeIs ==
  ASSUME NEW s, Fine(s), NEW b \in Buffers, NEW c \in Buffers,
         Begin(s, b) # NoPosition, Begin(s, c) # NoPosition
  PROVE  Like(s, RoomBefore(s, b, c), b, c) /\ Begin(RoomBefore(s, b, c), c) > 0
<1> DEFINE t == RoomBefore(s, b, c)
           y == Begin(s, c)
           e == PageSize
<1>1. y \in Nat BY ReadyParts DEF Fine
<1>2. CASE y # 0
  <2>1. t = s BY <1>2 DEF RoomBefore
  <2> HIDE DEF t
  <2>2. Like(s, t, b, c) BY <2>1, LikeItself
  <2> QED BY <1>1, <1>2, <2>1, <2>2 DEF t
<1>3. CASE y = 0
  <2>1. Fine(t) /\ SameTexts(s, t) /\ Shifted(s, t, c, e)
    <3>1. CASE Spare(s, b)
      <4>1. t = Shift(BackToFront(s, b, c), c, PageSize) BY <1>3, <3>1 DEF RoomBefore
      <4> QED BY <3>1, <4>1, BackToFrontKeeps DEF Gained
    <3>2. CASE ~Spare(s, b) /\ Spare(s, c)
      <4>1. t = Shift(BackToFront(s, c, c), c, PageSize) BY <1>3, <3>2 DEF RoomBefore
      <4> QED BY <3>2, <4>1, BackToFrontKeeps DEF Gained
    <3>3. CASE ~Spare(s, b) /\ ~Spare(s, c)
      <4>1. t = Shift(FreshFront(s, c), c, PageSize) BY <1>3, <3>3 DEF RoomBefore
      <4> QED BY <4>1, FreshFrontKeeps DEF Grown
    <3> QED BY <3>1, <3>2, <3>3
  <2> HIDE DEF t
  <2>2. /\ e \in Int /\ (e = 0 \/ e = PageSize \/ e = -PageSize) /\ Begin(s, c) + e >= 0
        /\ y + e > 0
    BY <1>1, SizeIs
  <2> HIDE DEF e
  <2>3. Like(s, t, b, c) BY ONLY Fine(s), <2>1, <2>2, ShiftedLike, c \in Buffers
  <2>4. Begin(t, c) > 0 BY <2>1, <2>2 DEF Shifted
  <2> QED BY <2>3, <2>4 DEF t
<1> QED BY <1>2, <1>3

\* The positions of a state, one by one, are others; its pages and their cells are the same.
Moved(s, t, from, to) ==
  /\ Shaped(t) /\ t.heap = s.heap /\ t.pool = s.pool
  /\ \A a \in Buffers : /\ Pages(t, a) = Pages(s, a)
                        /\ Begin(t, a) = from[a] /\ End(t, a) = to[a]

\* begin of b and end of c, n further.
LEMMA AdvanceIs ==
  ASSUME NEW s, Shaped(s), NEW b \in Buffers, NEW c \in Buffers, NEW n
  PROVE  Moved(s, Advance(s, b, c, n),
               [a \in Buffers |-> IF a = b THEN Begin(s, a) + n ELSE Begin(s, a)],
               [a \in Buffers |-> IF a = c THEN End(s, a) + n ELSE End(s, a)])
<1> DEFINE u == [s EXCEPT !.buf[b].begin = Begin(s, b) + n]
           t == [u EXCEPT !.buf[c].end = End(u, c) + n]
<1>1. Advance(s, b, c, n) = t
  BY DEF Advance, Begin, End
<1>2. Ranged(s, u, b, Begin(s, b) + n, End(s, b)) BY BeginIs
<1> HIDE DEF u
<1>3. Shaped(u) BY <1>2 DEF Ranged
<1>4. Ranged(u, t, c, Begin(u, c), End(u, c) + n) BY <1>3, EndIs
<1> HIDE DEF t
<1>5. Moved(s, t, [a \in Buffers |-> IF a = b THEN Begin(s, a) + n ELSE Begin(s, a)],
                  [a \in Buffers |-> IF a = c THEN End(s, a) + n ELSE End(s, a)])
  BY <1>2, <1>4 DEF Moved, Ranged
<1> QED BY <1>1, <1>5

\* end of b and begin of c, n back.
LEMMA RetreatIs ==
  ASSUME NEW s, Shaped(s), NEW b \in Buffers, NEW c \in Buffers, NEW n
  PROVE  Moved(s, Retreat(s, b, c, n),
               [a \in Buffers |-> IF a = c THEN Begin(s, a) - n ELSE Begin(s, a)],
               [a \in Buffers |-> IF a = b THEN End(s, a) - n ELSE End(s, a)])
<1> DEFINE u == [s EXCEPT !.buf[b].end = End(s, b) - n]
           t == [u EXCEPT !.buf[c].begin = Begin(u, c) - n]
<1>1. Retreat(s, b, c, n) = t
  BY DEF Retreat, Begin, End
<1>2. Ranged(s, u, b, Begin(s, b), End(s, b) - n) BY EndIs
<1> HIDE DEF u
<1>3. Shaped(u) BY <1>2 DEF Ranged
<1>4. Ranged(u, t, c, Begin(u, c) - n, End(u, c)) BY <1>3, BeginIs
<1> HIDE DEF t
<1>5. Moved(s, t, [a \in Buffers |-> IF a = c THEN Begin(s, a) - n ELSE Begin(s, a)],
                  [a \in Buffers |-> IF a = b THEN End(s, a) - n ELSE End(s, a)])
  BY <1>2, <1>4 DEF Moved, Ranged
<1> QED BY <1>1, <1>5

\* end of b a page back, then that of c a page further.
LEMMA EndsPassIs ==
  ASSUME NEW s, Shaped(s), NEW b \in Buffers, NEW c \in Buffers, End(s, c) \in Int
  PROVE  Moved(s, EndsPass(s, b, c), [a \in Buffers |-> Begin(s, a)],
               [a \in Buffers |-> IF b = c THEN End(s, a)
                                  ELSE IF a = b THEN End(s, a) - PageSize
                                  ELSE IF a = c THEN End(s, a) + PageSize ELSE End(s, a)])
<1> DEFINE u == [s EXCEPT !.buf[b].end = End(s, b) - PageSize]
           t == [u EXCEPT !.buf[c].end = End(u, c) + PageSize]
<1>1. EndsPass(s, b, c) = t
  BY DEF EndsPass, End
<1>2. Ranged(s, u, b, Begin(s, b), End(s, b) - PageSize) BY EndIs
<1> HIDE DEF u
<1>3. Shaped(u) BY <1>2 DEF Ranged
<1>4. Ranged(u, t, c, Begin(u, c), End(u, c) + PageSize) BY <1>3, EndIs
<1> HIDE DEF t
<1>5. b = c => (End(s, c) - PageSize) + PageSize = End(s, c) BY SizeIs
<1>6. Moved(s, t, [a \in Buffers |-> Begin(s, a)],
                  [a \in Buffers |-> IF b = c THEN End(s, a)
                                     ELSE IF a = b THEN End(s, a) - PageSize
                                     ELSE IF a = c THEN End(s, a) + PageSize ELSE End(s, a)])
  BY <1>2, <1>4, <1>5 DEF Moved, Ranged
<1> QED BY <1>1, <1>6

\* Other positions leave the pages where they are.
LEMMA SoundMoved ==
  ASSUME NEW s, Sound(s, {}), NEW t, NEW from, NEW to, Moved(s, t, from, to)
  PROVE  Sound(t, {}) /\ \A a \in Buffers : \A x : ByteAt(t, a, x) = ByteAt(s, a, x)
<1>1. Rows(t) = Rows(s) BY DEF Rows, Row, Moved, Holders
<1>2. Sound(t, {}) BY <1>1 DEF Sound, Moved
<1>3. \A a \in Buffers : \A x : ByteAt(t, a, x) = ByteAt(s, a, x) BY DEF ByteAt, PageAt, Moved
<1> QED BY <1>2, <1>3

\* Two positions of pages that are one cell are one position.
LEMMA OneCell ==
  ASSUME NEW s, Sound(s, {}), NEW a \in Buffers, NEW b \in Buffers, NEW x \in Int, NEW y \in Int,
         (x \div PageSize) + 1 \in 1..Len(Pages(s, a)),
         (y \div PageSize) + 1 \in 1..Len(Pages(s, b)),
         PageAt(s, a, x) = PageAt(s, b, y), x % PageSize = y % PageSize
  PROVE  a = b /\ x = y
<1> DEFINE R == Rows(s)
           D == DOMAIN s.heap
           i == (x \div PageSize) + 1
           j == (y \div PageSize) + 1
<1>1. Held(R, D, {}) /\ a \in Holders /\ b \in Holders BY SoundParts DEF Sound
<1>2. R[a] = Pages(s, a) /\ R[b] = Pages(s, b) BY RowsAre
<1>3. R[a][i] = R[b][j] /\ i \in 1..Len(R[a]) /\ j \in 1..Len(R[b]) BY <1>2 DEF PageAt
<1> HIDE DEF R, D, i, j
<1>4. a = b /\ i = j BY <1>1, <1>3 DEF Held
<1>5. x \div PageSize \in Int /\ x = PageSize * (x \div PageSize) + (x % PageSize) BY Quot
<1>6. y \div PageSize \in Int /\ y = PageSize * (y \div PageSize) + (y % PageSize) BY Quot
<1>7. x \div PageSize = y \div PageSize BY <1>4, <1>5, <1>6 DEF i, j
<1> QED BY <1>4, <1>5, <1>6, <1>7

\* The byte x is where it was put, and the other bytes of the buffers are what they were.
PutAt(s, t, c, pos, x) ==
  /\ Fine(t) /\ ByteAt(t, c, pos) = x
  /\ \A a \in Buffers : /\ Pages(t, a) = Pages(s, a)
                        /\ Begin(t, a) = Begin(s, a) /\ End(t, a) = End(s, a)
  /\ \A a \in Buffers : \A y \in Begin(s, a)..End(s, a) - 1 :
       Begin(s, a) # NoPosition /\ ~(a = c /\ y = pos) => ByteAt(t, a, y) = ByteAt(s, a, y)

\* A byte is put into one cell of the pages of c.
LEMMA PutByteIs ==
  ASSUME NEW s, Fine(s), NEW c \in Buffers, NEW pos \in Nat, pos < Len(Pages(s, c)) * PageSize,
         NEW x \in Nat
  PROVE  PutAt(s, PutByte(s, c, pos, x), c, pos, x)
<1> DEFINE p == PageAt(s, c, pos)
           o == pos % PageSize
           t == PutByte(s, c, pos, x)
           cells == [s.heap[p] EXCEPT ![o] = x]
           H == [s.heap EXCEPT ![p] = cells]
<1>1. /\ Sound(s, {}) /\ Shaped(s) /\ Heaped(s.heap) /\ Held(Rows(s), DOMAIN s.heap, {})
      /\ \A a \in Buffers : Ready(s, a)
  BY DEF Fine, Sound
<1>2. /\ Pages(s, c) \in Seq(DOMAIN s.heap) /\ Len(Pages(s, c)) \in Nat
      /\ \A a \in Buffers : Len(Pages(s, a)) \in Nat /\ Pages(s, a) \in Seq(DOMAIN s.heap)
  BY <1>1, SoundParts
<1>3. p \in DOMAIN s.heap /\ o \in Offsets /\ (pos \div PageSize) + 1 \in 1..Len(Pages(s, c))
  <2>1. pos \div PageSize < Len(Pages(s, c)) /\ pos \div PageSize \in Nat /\ o \in Offsets
    BY <1>2, Quot, QuotNat, QuotBelow
  <2>2. (pos \div PageSize) + 1 \in 1..Len(Pages(s, c)) BY <1>2, <2>1
  <2> QED BY <1>2, <2>1, <2>2 DEF PageAt
<1>4. t = [s EXCEPT !.heap = H] BY DEF PutByte
<1>5. Stored(s, t, H, s.pool)
  <2> HIDE DEF H, t
  <2> QED BY <1>1, <1>4, StoreIs
<1>6. /\ Heaped(H) /\ DOMAIN H = DOMAIN s.heap /\ H[p] = cells /\ cells[o] = x
      /\ \A q \in DOMAIN s.heap : \A i \in Offsets : q # p \/ i # o => H[q][i] = s.heap[q][i]
  <2>1. s.heap[p] \in PageBytes BY <1>1, <1>3 DEF Heaped
  <2>2. /\ cells \in PageBytes /\ cells[o] = x
        /\ \A i \in Offsets : i # o => cells[i] = s.heap[p][i]
    BY <1>3, <2>1 DEF PageBytes
  <2>3. DOMAIN H = DOMAIN s.heap OBVIOUS
  <2> HIDE DEF cells, p, o
  <2>4. H[p] = cells /\ \A q \in DOMAIN s.heap : q # p => H[q] = s.heap[q] BY <1>3
  <2>5. H \in [DOMAIN H -> PageBytes] BY <1>1, <1>3, <2>2 DEF Heaped
  <2> HIDE DEF H
  <2> QED BY <1>1, <1>3, <2>2, <2>3, <2>4, <2>5 DEF Heaped
<1> HIDE DEF H, t, cells, p
<1>7. Rows(t) = Rows(s) BY <1>5 DEF Rows, Row, Stored, Holders
<1>8. Sound(t, {}) BY <1>1, <1>5, <1>6, <1>7 DEF Sound, Stored
<1>9. \A a \in Buffers : /\ Pages(t, a) = Pages(s, a)
                         /\ Begin(t, a) = Begin(s, a) /\ End(t, a) = End(s, a)
  BY <1>5 DEF Stored
<1>10. ASSUME NEW a \in Buffers, Begin(s, a) # NoPosition,
              NEW y \in Begin(s, a)..End(s, a) - 1, ~(a = c /\ y = pos)
       PROVE  ByteAt(t, a, y) = ByteAt(s, a, y)
  <2>1. /\ Ready(s, a) /\ Len(Pages(s, a)) \in Nat /\ Pages(s, a) \in Seq(DOMAIN s.heap)
        /\ y \in Int
    BY <1>1, <1>2, <1>10, ReadyParts
  <2>2. (y \div PageSize) + 1 \in 1..Len(Pages(s, a)) /\ y % PageSize \in Offsets
    BY <1>10, <2>1, LivePage
  <2>3. PageAt(s, a, y) # p \/ y % PageSize # o
    BY <1>1, <1>3, <1>10, <2>1, <2>2, OneCell DEF p
  <2>4. PageAt(t, a, y) = PageAt(s, a, y) BY <1>9 DEF PageAt
  <2>5. ByteAt(t, a, y) = H[PageAt(s, a, y)][y % PageSize] BY <1>5, <2>4 DEF ByteAt, Stored
  <2>6. PageAt(s, a, y) \in DOMAIN s.heap BY <2>1, <2>2 DEF PageAt
  <2> QED BY <1>6, <2>2, <2>3, <2>5, <2>6 DEF ByteAt
<1>12. ByteAt(t, c, pos) = x
  <2>1. PageAt(t, c, pos) = p BY <1>9 DEF PageAt, p
  <2> QED BY <1>5, <1>6, <2>1 DEF ByteAt, Stored
<1>11. ASSUME NEW a \in Buffers PROVE Ready(t, a)
  <2>1. Ready(s, a) /\ Len(Pages(s, a)) \in Nat BY <1>1, <1>2
  <2>2. CASE Begin(s, a) = NoPosition BY <1>9, <2>1, <2>2 DEF Ready
  <2>3. CASE Begin(s, a) # NoPosition
    <3>1. ASSUME NEW y \in Begin(s, a)..End(s, a) - 1 PROVE ByteAt(t, a, y) \in Nat
      <4>1. ByteAt(s, a, y) \in Nat BY <2>1, <2>3, ReadyParts
      <4> QED BY <1>10, <1>12, <2>3, <4>1
    <3> QED BY <1>9, <2>1, <2>3, <3>1 DEF Ready
  <2> QED BY <2>2, <2>3
<1>13. PutAt(s, t, c, pos, x) BY <1>8, <1>9, <1>10, <1>11, <1>12 DEF PutAt, Fine
<1> QED BY <1>13 DEF t

(*** Bytes that pass from one end to another, as sequences. ***)

\* The first n elements of x have gone behind y: x1 and y1 are what they are then.
Went(x, y, x1, y1, n) ==
  /\ Len(x1) = Len(x) - n /\ Len(y1) = Len(y) + n
  /\ \A i \in 1..Len(x) - n : x1[i] = x[i + n]
  /\ \A i \in 1..Len(y) : y1[i] = y[i]
  /\ \A i \in 1..n : y1[Len(y) + i] = x[i]

\* The first n elements of x have gone behind the others: x1 is what it is then.
Rotated(x, x1, n) ==
  /\ Len(x1) = Len(x)
  /\ \A i \in 1..Len(x) - n : x1[i] = x[i + n]
  /\ \A i \in 1..n : x1[(Len(x) - n) + i] = x[i]

\* From s to t, n bytes have gone from the front of b to the back of c.  Seen from t to s, that
\* n bytes have gone from the front of c to the back of b: it was from the back to the front.
Passed(s, t, b, c, n) ==
  /\ \A a \in Buffers : a # b /\ a # c => Text(t, a) = Text(s, a)
  /\ n <= Len(Text(s, b))
  /\ IF b = c THEN Rotated(Text(s, b), Text(t, b), n)
     ELSE Went(Text(s, b), Text(s, c), Text(t, b), Text(t, c), n)

\* First n elements go, then m.
LEMMA WentTwice ==
  ASSUME NEW x, NEW y, NEW x1, NEW y1, NEW x2, NEW y2, NEW n \in Nat, NEW m \in Nat,
         Len(x) \in Nat, Len(y) \in Nat, n + m <= Len(x),
         Went(x, y, x1, y1, n), Went(x1, y1, x2, y2, m)
  PROVE  Went(x, y, x2, y2, n + m)
<1> DEFINE k == Len(x)
           l == Len(y)
<1>1. /\ k \in Nat /\ l \in Nat /\ n + m <= k /\ Len(x1) = k - n /\ Len(y1) = l + n
      /\ Len(x2) = (k - n) - m /\ Len(y2) = (l + n) + m
      /\ \A i \in 1..k - n : x1[i] = x[i + n]
      /\ \A i \in 1..l : y1[i] = y[i]
      /\ \A i \in 1..n : y1[l + i] = x[i]
      /\ \A i \in 1..(k - n) - m : x2[i] = x1[i + m]
      /\ \A i \in 1..l + n : y2[i] = y1[i]
      /\ \A i \in 1..m : y2[(l + n) + i] = x1[i]
  BY DEF Went
<1> HIDE DEF k, l
<1>2. ASSUME NEW i \in 1..k - (n + m) PROVE x2[i] = x[i + (n + m)]
  <2>1. i \in 1..(k - n) - m /\ i + m \in 1..k - n /\ (i + m) + n = i + (n + m) BY <1>1
  <2>2. x2[i] = x1[i + m] /\ x1[i + m] = x[(i + m) + n] BY <1>1, <2>1
  <2> QED BY <2>1, <2>2
<1>3. ASSUME NEW i \in 1..l PROVE y2[i] = y[i]
  <2>1. i \in 1..l + n BY <1>1
  <2> QED BY <1>1, <2>1
<1>4. ASSUME NEW i \in 1..n + m PROVE y2[l + i] = x[i]
  <2>1. CASE i <= n
    <3>1. i \in 1..n /\ l + i \in 1..l + n BY <1>1, <2>1
    <3> QED BY <1>1, <3>1
  <2>2. CASE i > n
    <3> DEFINE j == i - n
    <3>1. j \in 1..m /\ j \in 1..k - n /\ (l + n) + j = l + i /\ j + n = i BY <1>1, <2>2
    <3> HIDE DEF j
    <3>2. y2[(l + n) + j] = x1[j] /\ x1[j] = x[j + n] BY <1>1, <3>1
    <3> QED BY <3>1, <3>2
  <2> QED BY <2>1, <2>2
<1>5. Len(x2) = k - (n + m) /\ Len(y2) = l + (n + m) BY <1>1
<1> QED BY <1>2, <1>3, <1>4, <1>5 DEF Went, k, l

\* Round in one sequence: first n elements go, then m.
LEMMA RotatedTwice ==
  ASSUME NEW x, NEW x1, NEW x2, NEW n \in Nat, NEW m \in Nat,
         Len(x) \in Nat, n + m <= Len(x), Rotated(x, x1, n), Rotated(x1, x2, m)
  PROVE  Rotated(x, x2, n + m)
<1> DEFINE k == Len(x)
<1>1. /\ k \in Nat /\ n + m <= k /\ Len(x1) = k /\ Len(x2) = k
      /\ \A i \in 1..k - n : x1[i] = x[i + n]
      /\ \A i \in 1..n : x1[(k - n) + i] = x[i]
      /\ \A i \in 1..k - m : x2[i] = x1[i + m]
      /\ \A i \in 1..m : x2[(k - m) + i] = x1[i]
  BY DEF Rotated
<1> HIDE DEF k
<1>2. ASSUME NEW i \in 1..k - (n + m) PROVE x2[i] = x[i + (n + m)]
  <2>1. i \in 1..k - m /\ i + m \in 1..k - n /\ (i + m) + n = i + (n + m) BY <1>1
  <2>2. x2[i] = x1[i + m] /\ x1[i + m] = x[(i + m) + n] BY <1>1, <2>1
  <2> QED BY <2>1, <2>2
<1>3. ASSUME NEW i \in 1..n + m PROVE x2[(k - (n + m)) + i] = x[i]
  <2>1. CASE i <= n
    <3> DEFINE j == (k - (n + m)) + i
    <3>1. i \in 1..n /\ j \in 1..k - m /\ j + m = (k - n) + i BY <1>1, <2>1
    <3> HIDE DEF j
    <3>2. x2[j] = x1[j + m] /\ x1[(k - n) + i] = x[i] BY <1>1, <3>1
    <3> QED BY <3>1, <3>2 DEF j
  <2>2. CASE i > n
    <3> DEFINE j == i - n
    <3>1. j \in 1..m /\ j \in 1..k - n /\ (k - m) + j = (k - (n + m)) + i /\ j + n = i
      BY <1>1, <2>2
    <3> HIDE DEF j
    <3>2. x2[(k - m) + j] = x1[j] /\ x1[j] = x[j + n] BY <1>1, <3>1
    <3> QED BY <3>1, <3>2
  <2> QED BY <2>1, <2>2
<1>4. Len(x2) = k BY <1>1
<1> QED BY <1>2, <1>3, <1>4 DEF Rotated, k

\* First n bytes pass, then m.
LEMMA PassedTwice ==
  ASSUME NEW s, NEW t, NEW u, NEW b \in Buffers, NEW c \in Buffers, NEW n \in Nat, NEW m \in Nat,
         Ready(s, b), Ready(s, c), n + m <= Len(Text(s, b)),
         Passed(s, t, b, c, n), Passed(t, u, b, c, m)
  PROVE  Passed(s, u, b, c, n + m)
<1>1. Len(Text(s, b)) \in Nat /\ Len(Text(s, c)) \in Nat
  <2>1. Text(s, b) \in Seq(Nat) /\ Text(s, c) \in Seq(Nat) BY TextIs
  <2> QED BY <2>1
<1>2. \A a \in Buffers : a # b /\ a # c => Text(u, a) = Text(s, a) BY DEF Passed
<1>3. CASE b = c
  <2>1. Rotated(Text(s, b), Text(t, b), n) /\ Rotated(Text(t, b), Text(u, b), m)
    BY <1>3 DEF Passed
  <2>2. Rotated(Text(s, b), Text(u, b), n + m) BY <1>1, <2>1, RotatedTwice
  <2> QED BY <1>2, <1>3, <2>2 DEF Passed
<1>4. CASE b # c
  <2>1. /\ Went(Text(s, b), Text(s, c), Text(t, b), Text(t, c), n)
        /\ Went(Text(t, b), Text(t, c), Text(u, b), Text(u, c), m)
    BY <1>4 DEF Passed
  <2>2. Went(Text(s, b), Text(s, c), Text(u, b), Text(u, c), n + m) BY <1>1, <2>1, WentTwice
  <2> QED BY <1>2, <1>4, <2>2 DEF Passed
<1> QED BY <1>3, <1>4

\* Where texts are the same, no byte has passed.
LEMMA PassedNone ==
  ASSUME NEW s, NEW b \in Buffers, NEW c \in Buffers, Ready(s, b), Ready(s, c)
  PROVE  Passed(s, s, b, c, 0)
<1>1. Text(s, b) \in Seq(Nat) /\ Text(s, c) \in Seq(Nat) BY TextIs
<1> DEFINE x == Text(s, b)
           y == Text(s, c)
           z == 0
<1>2. Len(x) \in Nat /\ Len(y) \in Nat /\ z \in Nat /\ z = 0 BY <1>1
<1>3. /\ Len(x) = Len(x) - z /\ Len(y) = Len(y) + z /\ \A i \in Int : i + z = i /\ ~(i \in 1..z)
      /\ z <= Len(x)
  BY <1>2
<1> HIDE DEF x, y, z
<1>4. Went(x, y, x, y, z) /\ Rotated(x, x, z) BY <1>2, <1>3 DEF Went, Rotated
<1>5. z <= Len(Text(s, b)) BY <1>3 DEF x
<1>6. Passed(s, s, b, c, z) BY <1>4, <1>5 DEF Passed, x, y
<1> QED BY <1>6 DEF z

\* The bytes of two buffers, where n have gone from the front of b to the back of c: those left
\* in b have moved by d.
LEMMA PassedOver ==
  ASSUME NEW s, NEW t, NEW b \in Buffers, NEW c \in Buffers, b # c, NEW n \in Nat, NEW d \in Int,
         \A a \in Buffers : a # b /\ a # c => Text(t, a) = Text(s, a),
         Ready(s, b), Ready(s, c), Ready(t, b), Ready(t, c),
         Begin(s, b) # NoPosition, Begin(s, c) # NoPosition,
         Begin(t, b) # NoPosition, Begin(t, c) # NoPosition,
         n <= End(s, b) - Begin(s, b),
         Begin(t, b) = Begin(s, b) + n + d, End(t, b) = End(s, b) + d,
         Begin(t, c) = Begin(s, c), End(t, c) = End(s, c) + n,
         \A y \in Begin(s, b) + n..End(s, b) - 1 : ByteAt(t, b, y + d) = ByteAt(s, b, y),
         \A y \in Begin(s, c)..End(s, c) - 1 : ByteAt(t, c, y) = ByteAt(s, c, y),
         \A i \in 0..n - 1 : ByteAt(t, c, End(s, c) + i) = ByteAt(s, b, Begin(s, b) + i)
  PROVE  Passed(s, t, b, c, n)
<1> DEFINE x == Text(s, b)
           y == Text(s, c)
           x1 == Text(t, b)
           y1 == Text(t, c)
           f == Begin(s, b)
           e == End(s, b)
           g == Begin(s, c)
           h == End(s, c)
<1>1. f \in Nat /\ e \in Nat /\ f <= e /\ g \in Nat /\ h \in Nat /\ g <= h BY ReadyParts
<1>2. /\ Len(x) = e - f /\ \A i \in 1..Len(x) : x[i] = ByteAt(s, b, f + i - 1)
      /\ Len(y) = h - g /\ \A i \in 1..Len(y) : y[i] = ByteAt(s, c, g + i - 1)
  BY TextIs
<1>3. /\ Len(x1) = (e + d) - (f + n + d) /\ Len(y1) = (h + n) - g
      /\ \A i \in 1..Len(x1) : x1[i] = ByteAt(t, b, f + n + d + i - 1)
      /\ \A i \in 1..Len(y1) : y1[i] = ByteAt(t, c, g + i - 1)
  BY TextIs
<1>4. /\ n <= e - f
      /\ \A z \in f + n..e - 1 : ByteAt(t, b, z + d) = ByteAt(s, b, z)
      /\ \A z \in g..h - 1 : ByteAt(t, c, z) = ByteAt(s, c, z)
      /\ \A i \in 0..n - 1 : ByteAt(t, c, h + i) = ByteAt(s, b, f + i)
  OBVIOUS
<1> HIDE DEF x, y, x1, y1, f, e, g, h
<1>5. /\ Len(x) = e - f /\ Len(y) = h - g /\ n <= Len(x)
      /\ Len(x1) = Len(x) - n /\ Len(y1) = Len(y) + n
  <2>1. /\ Len(x) = e - f /\ Len(y) = h - g /\ n <= e - f
        /\ Len(x1) = (e + d) - (f + n + d) /\ Len(y1) = (h + n) - g
    BY ONLY <1>2, <1>3, <1>4
  <2> QED BY ONLY <1>1, <2>1, n \in Nat, d \in Int
<1>6. ASSUME NEW i \in 1..Len(x) - n PROVE x1[i] = x[i + n]
  <2> DEFINE z == f + (i + n) - 1
  <2>1. /\ z \in f + n..e - 1 /\ z + d = f + n + d + i - 1 /\ i + n \in 1..Len(x)
        /\ i \in 1..Len(x1)
    BY ONLY <1>1, <1>5, i \in 1..Len(x) - n, n \in Nat, d \in Int
  <2>2. x[i + n] = ByteAt(s, b, z) BY <1>2, <2>1
  <2> HIDE DEF z
  <2> QED BY <1>3, <1>4, <2>1, <2>2
<1>7. ASSUME NEW i \in 1..Len(y) PROVE y1[i] = y[i]
  <2>1. g + i - 1 \in g..h - 1 /\ i \in 1..Len(y1)
    BY ONLY <1>1, <1>5, i \in 1..Len(y), n \in Nat
  <2> QED BY <1>2, <1>3, <1>4, <2>1
<1>8. ASSUME NEW i \in 1..n PROVE y1[Len(y) + i] = x[i]
  <2> DEFINE j == i - 1
  <2>1. /\ j \in 0..n - 1 /\ Len(y) + i \in 1..Len(y1) /\ g + (Len(y) + i) - 1 = h + j
        /\ i \in 1..Len(x) /\ f + i - 1 = f + j
    BY ONLY <1>1, <1>5, i \in 1..n, n \in Nat
  <2>2. y1[Len(y) + i] = ByteAt(t, c, g + (Len(y) + i) - 1) BY <1>3, <2>1
  <2> HIDE DEF j
  <2> QED BY <1>2, <1>4, <2>1, <2>2
<1>9. Went(x, y, x1, y1, n) BY <1>5, <1>6, <1>7, <1>8 DEF Went
<1> QED BY <1>5, <1>9 DEF Passed, x, y, x1, y1

\* The bytes of one buffer, where n have gone from the front to the back.
LEMMA PassedRound ==
  ASSUME NEW s, NEW t, NEW b \in Buffers, NEW n \in Nat, NEW d \in Int,
         \A a \in Buffers : a # b => Text(t, a) = Text(s, a),
         Ready(s, b), Ready(t, b), Begin(s, b) # NoPosition, Begin(t, b) # NoPosition,
         n <= End(s, b) - Begin(s, b),
         Begin(t, b) = Begin(s, b) + n + d, End(t, b) = End(s, b) + n + d,
         \A y \in Begin(s, b) + n..End(s, b) - 1 : ByteAt(t, b, y + d) = ByteAt(s, b, y),
         \A i \in 0..n - 1 : ByteAt(t, b, End(s, b) + d + i) = ByteAt(s, b, Begin(s, b) + i)
  PROVE  Passed(s, t, b, b, n)
<1> DEFINE x == Text(s, b)
           x1 == Text(t, b)
           f == Begin(s, b)
           e == End(s, b)
<1>1. f \in Nat /\ e \in Nat /\ f <= e BY ReadyParts
<1>2. Len(x) = e - f /\ \A i \in 1..Len(x) : x[i] = ByteAt(s, b, f + i - 1) BY TextIs
<1>3. /\ Len(x1) = (e + n + d) - (f + n + d)
      /\ \A i \in 1..Len(x1) : x1[i] = ByteAt(t, b, f + n + d + i - 1)
  BY TextIs
<1>4. /\ n <= e - f
      /\ \A z \in f + n..e - 1 : ByteAt(t, b, z + d) = ByteAt(s, b, z)
      /\ \A i \in 0..n - 1 : ByteAt(t, b, e + d + i) = ByteAt(s, b, f + i)
  OBVIOUS
<1> HIDE DEF x, x1, f, e
<1>5. Len(x1) = Len(x) /\ n <= Len(x) BY <1>1, <1>2, <1>3, <1>4
<1>6. ASSUME NEW i \in 1..Len(x) - n PROVE x1[i] = x[i + n]
  <2> DEFINE z == f + (i + n) - 1
  <2>1. /\ z \in f + n..e - 1 /\ z + d = f + n + d + i - 1 /\ i + n \in 1..Len(x)
        /\ i \in 1..Len(x1)
    BY <1>1, <1>2, <1>4, <1>5
  <2>2. x[i + n] = ByteAt(s, b, z) BY <1>2, <2>1
  <2> HIDE DEF z
  <2> QED BY <1>3, <1>4, <2>1, <2>2
<1>7. ASSUME NEW i \in 1..n PROVE x1[(Len(x) - n) + i] = x[i]
  <2> DEFINE j == i - 1
             k == (Len(x) - n) + i
  <2>1. /\ j \in 0..n - 1 /\ k \in 1..Len(x1) /\ f + n + d + k - 1 = e + d + j
        /\ i \in 1..Len(x) /\ f + i - 1 = f + j
    BY <1>1, <1>2, <1>4, <1>5
  <2>2. x1[k] = ByteAt(t, b, f + n + d + k - 1) BY <1>3, <2>1
  <2> HIDE DEF j
  <2> QED BY <1>2, <1>4, <2>1, <2>2
<1>8. Rotated(x, x1, n) BY <1>5, <1>6, <1>7 DEF Rotated
<1> QED BY <1>5, <1>8 DEF Passed, x, x1

\* The same where what is left in b has not moved, for one buffer or two.
LEMMA PassedHere ==
  ASSUME NEW s, NEW t, NEW b \in Buffers, NEW c \in Buffers, NEW n \in Nat,
         \A a \in Buffers : a # b /\ a # c => Text(t, a) = Text(s, a),
         Ready(s, b), Ready(s, c), Ready(t, b), Ready(t, c),
         Begin(s, b) # NoPosition, Begin(s, c) # NoPosition,
         Begin(t, b) # NoPosition, Begin(t, c) # NoPosition,
         n <= End(s, b) - Begin(s, b),
         Begin(t, b) = Begin(s, b) + n, End(t, c) = End(s, c) + n,
         b # c => End(t, b) = End(s, b) /\ Begin(t, c) = Begin(s, c),
         \A y \in Begin(s, b) + n..End(s, b) - 1 : ByteAt(t, b, y) = ByteAt(s, b, y),
         b # c => \A y \in Begin(s, c)..End(s, c) - 1 : ByteAt(t, c, y) = ByteAt(s, c, y),
         \A i \in 0..n - 1 : ByteAt(t, c, End(s, c) + i) = ByteAt(s, b, Begin(s, b) + i)
  PROVE  Passed(s, t, b, c, n)
<1> DEFINE d == 0
<1>1. Begin(s, b) \in Int /\ End(s, b) \in Int /\ End(s, c) \in Int BY ReadyParts
<1>2. d \in Int /\ \A x \in Int : x + d = x OBVIOUS
<1> HIDE DEF d
<1>3. /\ Begin(t, b) = Begin(s, b) + n + d
      /\ b = c => End(t, b) = End(s, b) + n + d
      /\ b # c => End(t, b) = End(s, b) + d
  BY <1>1, <1>2
<1>4. \A y \in Begin(s, b) + n..End(s, b) - 1 : ByteAt(t, b, y + d) = ByteAt(s, b, y)
  BY <1>1, <1>2
<1>5. \A i \in 0..n - 1 : ByteAt(t, c, End(s, c) + d + i) = ByteAt(s, b, Begin(s, b) + i)
  BY <1>1, <1>2
<1>6. CASE b # c BY <1>2, <1>3, <1>4, <1>6, PassedOver
<1>7. CASE b = c
  <2>1. Passed(s, t, b, b, n) BY <1>2, <1>3, <1>4, <1>5, <1>7, PassedRound
  <2> QED BY <1>7, <2>1
<1> QED BY <1>6, <1>7

\* n bytes have left b at the front and come to c at the back; only b and c have moved.
GoneOn(s, t, b, c, n) ==
  /\ Fine(t) /\ Begin(t, b) # NoPosition /\ Begin(t, c) # NoPosition
  /\ \A a \in Buffers : a # b /\ a # c => Begin(t, a) = Begin(s, a) /\ End(t, a) = End(s, a)
  /\ End(t, b) - Begin(t, b) >= End(s, b) - Begin(s, b) - n
  /\ Begin(t, b) % PageSize = (Begin(s, b) + n) % PageSize
  /\ End(t, c) % PageSize = (End(s, c) + n) % PageSize
  /\ Passed(s, t, b, c, n)

\* n bytes have left b at the back and come to c at the front.
GoneBack(s, t, b, c, n) ==
  /\ Fine(t) /\ Begin(t, b) # NoPosition /\ Begin(t, c) # NoPosition
  /\ \A a \in Buffers : a # b /\ a # c => Begin(t, a) = Begin(s, a) /\ End(t, a) = End(s, a)
  /\ End(t, b) - Begin(t, b) >= End(s, b) - Begin(s, b) - n
  /\ End(t, b) % PageSize = (End(s, b) - n) % PageSize
  /\ Begin(t, c) % PageSize = (Begin(s, c) - n) % PageSize
  /\ Passed(t, s, c, b, n)

\* A buffer that has its range and the bytes in it has its text.
LEMMA TextBeside ==
  ASSUME NEW s, NEW t, NEW a, Ready(s, a), Begin(t, a) = Begin(s, a), End(t, a) = End(s, a),
         Begin(s, a) # NoPosition =>
           \A y \in Begin(s, a)..End(s, a) - 1 : ByteAt(t, a, y) = ByteAt(s, a, y)
  PROVE  Text(t, a) = Text(s, a)
<1>1. CASE Begin(s, a) = NoPosition BY <1>1 DEF Text
<1>2. CASE Begin(s, a) # NoPosition
  <2> DEFINE z == 0
  <2>1. z \in Int /\ Begin(t, a) = Begin(s, a) + z /\ End(t, a) = End(s, a) + z
    BY <1>2, ReadyParts
  <2>2. ASSUME NEW y \in Begin(t, a)..End(t, a) - 1 PROVE ByteAt(t, a, y) = ByteAt(s, a, y - z)
    <3>1. y \in Int /\ y - z = y BY <1>2, ReadyParts
    <3> QED BY <1>2, <3>1
  <2> HIDE DEF z
  <2> QED BY <1>2, <2>1, <2>2, SameText
<1> QED BY <1>1, <1>2

\* What has passed from a state with the same texts.
LEMMA PassedAfter ==
  ASSUME NEW s, NEW t, SameTexts(s, t), NEW u, NEW b \in Buffers, NEW c \in Buffers, NEW n
  PROVE  /\ Passed(t, u, b, c, n) => Passed(s, u, b, c, n)
         /\ Passed(u, t, b, c, n) => Passed(u, s, b, c, n)
BY DEF Passed, SameTexts

\* A buffer is ready where its new positions are, and its bytes between them were written to.
LEMMA MovedKeeps ==
  ASSUME NEW s, NEW t, NEW from, NEW to, Moved(s, t, from, to), Sound(s, {}), NEW a \in Buffers,
         from[a] \in Nat, to[a] \in Nat, from[a] <= to[a], to[a] <= Len(Pages(s, a)) * PageSize,
         \A x \in from[a]..to[a] - 1 : ByteAt(s, a, x) \in Nat
  PROVE  Ready(t, a)
<1>1. \A x : ByteAt(t, a, x) = ByteAt(s, a, x) BY SoundMoved
<1>2. from[a] # NoPosition BY DEF NoPosition
<1> QED BY <1>1, <1>2 DEF Ready, Moved

\* A buffer that has not moved.
LEMMA MovedBeside ==
  ASSUME NEW s, NEW t, NEW from, NEW to, Moved(s, t, from, to), Fine(s), NEW a \in Buffers,
         from[a] = Begin(s, a), to[a] = End(s, a)
  PROVE  Intact(s, t, a)
<1>1. /\ t.heap = s.heap /\ Pages(t, a) = Pages(s, a)
      /\ Begin(t, a) = Begin(s, a) /\ End(t, a) = End(s, a)
  BY DEF Moved
<1> QED BY <1>1, HandedBeside

\* One byte goes behind those of c.
LEMMA ByteBehindIs ==
  ASSUME NEW s, Fine(s), NEW b \in Buffers, NEW c \in Buffers,
         Begin(s, b) # NoPosition, Begin(s, c) # NoPosition, End(s, b) - Begin(s, b) >= 1
  PROVE  GoneOn(s, ByteBehind(s, b, c), b, c, 1)
<1> DEFINE t == RoomBehind(s, b, c)
           x == ByteAt(t, b, Begin(t, b))
           u == PutByte(t, c, End(t, c), x)
           w == Advance(u, b, c, 1)
           from == [a \in Buffers |-> IF a = b THEN Begin(u, a) + 1 ELSE Begin(u, a)]
           to == [a \in Buffers |-> IF a = c THEN End(u, a) + 1 ELSE End(u, a)]
<1>1. Like(s, t, b, c) /\ End(t, c) < Len(Pages(t, c)) * PageSize BY RoomBehindIs
<1>2. ByteBehind(s, b, c) = w BY DEF ByteBehind
<1> HIDE DEF t
<1>3. /\ Fine(t) /\ Begin(t, b) # NoPosition /\ Begin(t, c) # NoPosition
      /\ Begin(t, b) \in Nat /\ End(t, b) \in Nat /\ Begin(t, c) \in Nat /\ End(t, c) \in Nat
      /\ \A y \in Begin(t, b)..End(t, b) - 1 : ByteAt(t, b, y) \in Nat
      /\ \A y \in Begin(t, c)..End(t, c) - 1 : ByteAt(t, c, y) \in Nat
      /\ Begin(t, c) <= End(t, c) /\ End(t, b) <= Len(Pages(t, b)) * PageSize
  BY <1>1, ReadyParts DEF Like, Fine
<1>4. End(t, b) - Begin(t, b) >= 1 BY <1>1 DEF Like
<1>5. x \in Nat
  <2>1. Begin(t, b) \in Begin(t, b)..End(t, b) - 1 BY <1>3, <1>4
  <2> QED BY <1>3, <2>1
<1> HIDE DEF x
<1>6. PutAt(t, u, c, End(t, c), x) BY <1>1, <1>3, <1>5, PutByteIs
<1> HIDE DEF u
<1>7. Moved(u, w, from, to) BY <1>6, AdvanceIs DEF PutAt, Fine, Sound
<1> HIDE DEF w
<1>8. /\ Sound(u, {}) /\ Fine(u)
      /\ \A a \in Buffers : Pages(u, a) = Pages(t, a) /\ Begin(u, a) = Begin(t, a)
                            /\ End(u, a) = End(t, a)
      /\ \A y \in Begin(t, b)..End(t, b) - 1 : ByteAt(u, b, y) \in Nat
      /\ \A y \in Begin(t, c)..End(t, c) - 1 : ByteAt(u, c, y) \in Nat
      /\ ByteAt(u, c, End(t, c)) \in Nat
  BY <1>3, <1>5, <1>6, ReadyParts DEF PutAt, Fine
<1>9. /\ from[b] = Begin(t, b) + 1 /\ to[c] = End(t, c) + 1
      /\ b # c => to[b] = End(t, b) /\ from[c] = Begin(t, c)
      /\ \A a \in Buffers : a # b /\ a # c => from[a] = Begin(u, a) /\ to[a] = End(u, a)
  BY <1>8
<1>0. \A a \in Buffers : Begin(w, a) = from[a] /\ End(w, a) = to[a] BY <1>7 DEF Moved
<1> HIDE DEF from, to
<1>10. Ready(w, c)
  <2>1. from[c] \in Nat /\ to[c] \in Nat /\ from[c] <= to[c] BY <1>3, <1>9
  <2>2. Len(Pages(u, c)) \in Nat BY <1>8, SoundParts
  <2>3. to[c] <= Len(Pages(u, c)) * PageSize
    <3> DEFINE l == Len(Pages(u, c))
    <3>1. l * PageSize \in Nat BY <2>2, RowSize
    <3>2. End(t, c) < l * PageSize BY <1>1, <1>8
    <3> HIDE DEF l
    <3>3. to[c] <= l * PageSize BY ONLY <1>3, <1>9, <3>1, <3>2
    <3> QED BY <3>3 DEF l
  <2>4. ASSUME NEW y \in from[c]..to[c] - 1 PROVE ByteAt(u, c, y) \in Nat
    <3>1. from[c] >= Begin(t, c) /\ to[c] - 1 = End(t, c) BY <1>3, <1>9
    <3>2. y = End(t, c) \/ y \in Begin(t, c)..End(t, c) - 1 BY <1>3, <2>1, <3>1
    <3> QED BY <1>8, <3>2
  <2> QED BY <1>7, <1>8, <2>1, <2>3, <2>4, MovedKeeps
<1>11. ASSUME b # c PROVE Ready(w, b)
  <2>1. from[b] \in Nat /\ to[b] \in Nat /\ from[b] <= to[b] BY <1>3, <1>4, <1>9, <1>11
  <2>2. to[b] <= Len(Pages(u, b)) * PageSize BY <1>3, <1>8, <1>9, <1>11
  <2>3. \A y \in from[b]..to[b] - 1 : y \in Begin(t, b)..End(t, b) - 1 BY <1>3, <1>9, <1>11
  <2>4. \A y \in from[b]..to[b] - 1 : ByteAt(u, b, y) \in Nat BY <1>8, <2>3
  <2> QED BY <1>7, <1>8, <2>1, <2>2, <2>4, MovedKeeps
<1>12. ASSUME NEW a \in Buffers, a # b, a # c PROVE Ready(w, a)
  BY <1>7, <1>8, <1>9, <1>12, MovedBeside DEF Intact
<1>13. Fine(w) BY <1>7, <1>8, <1>10, <1>11, <1>12, SoundMoved DEF Fine
<1>14. /\ Begin(w, b) = Begin(t, b) + 1 /\ End(w, c) = End(t, c) + 1
       /\ b = c => End(w, b) = End(t, b) + 1
       /\ b # c => End(w, b) = End(t, b) /\ Begin(w, c) = Begin(t, c)
       /\ \A a \in Buffers : a # b /\ a # c => Begin(w, a) = Begin(t, a) /\ End(w, a) = End(t, a)
  BY <1>0, <1>8, <1>9
<1>15. Begin(w, b) # NoPosition /\ Begin(w, c) # NoPosition
  BY <1>3, <1>14 DEF NoPosition
<1>16. /\ Begin(s, b) \in Int /\ End(s, b) \in Int /\ End(s, c) \in Int
       /\ End(t, b) - Begin(t, b) = End(s, b) - Begin(s, b)
       /\ Begin(t, b) % PageSize = Begin(s, b) % PageSize
       /\ End(t, c) % PageSize = End(s, c) % PageSize
       /\ \A a \in Buffers : a # b /\ a # c => Begin(t, a) = Begin(s, a) /\ End(t, a) = End(s, a)
  BY <1>1, ReadyParts DEF Like, Fine
<1>17. End(w, b) - Begin(w, b) >= End(s, b) - Begin(s, b) - 1
  BY <1>3, <1>14, <1>16
<1>18. /\ (Begin(t, b) + 1) % PageSize = (Begin(s, b) + 1) % PageSize
       /\ (End(t, c) + 1) % PageSize = (End(s, c) + 1) % PageSize
  BY <1>3, <1>16, QuotStep
<1>20. /\ \A a \in Buffers : Begin(t, a) # NoPosition =>
            \A y \in Begin(t, a)..End(t, a) - 1 : ByteAt(w, a, y) = ByteAt(t, a, y)
       /\ ByteAt(w, c, End(t, c)) = x
  <2>1. \A a \in Buffers : \A y : ByteAt(w, a, y) = ByteAt(u, a, y) BY <1>7, <1>8, SoundMoved
  <2>2. \A y \in Begin(t, c)..End(t, c) - 1 : y # End(t, c) BY <1>3
  <2> QED BY <1>6, <2>1, <2>2 DEF PutAt
<1>21. \A a \in Buffers : a # b /\ a # c => Text(w, a) = Text(t, a)
  BY <1>3, <1>14, <1>20, TextBeside DEF Fine
<1>22. Passed(t, w, b, c, 1)
  <2> DEFINE n == 1
  <2>1. /\ n \in Nat /\ n = 1 /\ n <= End(t, b) - Begin(t, b)
        /\ Begin(w, b) = Begin(t, b) + n /\ End(w, c) = End(t, c) + n
        /\ b # c => End(w, b) = End(t, b) /\ Begin(w, c) = Begin(t, c)
    BY <1>3, <1>4, <1>14
  <2>2. \A y \in Begin(t, b) + n..End(t, b) - 1 : ByteAt(w, b, y) = ByteAt(t, b, y)
    <3>1. \A y \in Begin(t, b) + n..End(t, b) - 1 : y \in Begin(t, b)..End(t, b) - 1 BY <1>3
    <3> QED BY <1>3, <1>20, <3>1
  <2>3. ASSUME NEW i \in 0..n - 1
        PROVE  ByteAt(w, c, End(t, c) + i) = ByteAt(t, b, Begin(t, b) + i)
    <3>1. End(t, c) + i = End(t, c) /\ Begin(t, b) + i = Begin(t, b) BY <1>3, i = 0
    <3> QED BY <1>20, <3>1 DEF x
  <2>4. \A y \in Begin(t, c)..End(t, c) - 1 : ByteAt(w, c, y) = ByteAt(t, c, y) BY <1>3, <1>20
  <2>5. Ready(t, b) /\ Ready(t, c) /\ Ready(w, b) /\ Ready(w, c) BY <1>3, <1>13 DEF Fine
  <2> HIDE DEF n
  <2>6. Passed(t, w, b, c, n)
    BY <1>3, <1>15, <1>21, <2>1, <2>2, <2>3, <2>4, <2>5, PassedHere
  <2> QED BY <2>1, <2>6
<1>23. Passed(s, w, b, c, 1) BY <1>1, <1>22, PassedAfter DEF Like
<1>19. GoneOn(s, w, b, c, 1) BY <1>23, <1>13, <1>14, <1>15, <1>16, <1>17, <1>18 DEF GoneOn
<1> QED BY <1>2, <1>19

\* One byte goes before those of c.
LEMMA ByteBeforeIs ==
  ASSUME NEW s, Fine(s), NEW b \in Buffers, NEW c \in Buffers,
         Begin(s, b) # NoPosition, Begin(s, c) # NoPosition, End(s, b) - Begin(s, b) >= 1
  PROVE  GoneBack(s, ByteBefore(s, b, c), b, c, 1)
<1> DEFINE t == RoomBefore(s, b, c)
           x == ByteAt(t, b, End(t, b) - 1)
           pos == Begin(t, c) - 1
           u == PutByte(t, c, pos, x)
           w == Retreat(u, b, c, 1)
           from == [a \in Buffers |-> IF a = c THEN Begin(u, a) - 1 ELSE Begin(u, a)]
           to == [a \in Buffers |-> IF a = b THEN End(u, a) - 1 ELSE End(u, a)]
<1>1. Like(s, t, b, c) /\ Begin(t, c) > 0 BY RoomBeforeIs
<1>2. ByteBefore(s, b, c) = w BY DEF ByteBefore
<1> HIDE DEF t
<1>3. /\ Fine(t) /\ Begin(t, b) # NoPosition /\ Begin(t, c) # NoPosition
      /\ Begin(t, b) \in Nat /\ End(t, b) \in Nat /\ Begin(t, c) \in Nat /\ End(t, c) \in Nat
      /\ \A y \in Begin(t, b)..End(t, b) - 1 : ByteAt(t, b, y) \in Nat
      /\ \A y \in Begin(t, c)..End(t, c) - 1 : ByteAt(t, c, y) \in Nat
      /\ Begin(t, c) <= End(t, c) /\ End(t, b) <= Len(Pages(t, b)) * PageSize
      /\ End(t, c) <= Len(Pages(t, c)) * PageSize
  BY <1>1, ReadyParts DEF Like, Fine
<1>4. End(t, b) - Begin(t, b) >= 1 BY <1>1 DEF Like
<1>5. x \in Nat
  <2>1. End(t, b) - 1 \in Begin(t, b)..End(t, b) - 1 BY <1>3, <1>4
  <2> QED BY <1>3, <2>1
<1> HIDE DEF x
<1>6. PutAt(t, u, c, pos, x)
  <2>1. pos \in Nat BY <1>1, <1>3
  <2>2. pos < Len(Pages(t, c)) * PageSize
    <3> DEFINE l == Len(Pages(t, c))
    <3>1. l \in Nat BY <1>3, SoundParts DEF Fine
    <3>2. l * PageSize \in Nat BY <3>1, RowSize
    <3>3. End(t, c) <= l * PageSize BY <1>3
    <3> HIDE DEF l
    <3>4. pos < l * PageSize BY <1>3, <3>2, <3>3
    <3> QED BY <3>4 DEF l
  <2> HIDE DEF pos
  <2> QED BY <1>3, <1>5, <2>1, <2>2, PutByteIs
<1> HIDE DEF u
<1>7. Moved(u, w, from, to) BY <1>6, RetreatIs DEF PutAt, Fine, Sound
<1> HIDE DEF w
<1>8. /\ Sound(u, {}) /\ Fine(u)
      /\ \A a \in Buffers : Pages(u, a) = Pages(t, a) /\ Begin(u, a) = Begin(t, a)
                            /\ End(u, a) = End(t, a)
      /\ \A y \in Begin(t, b)..End(t, b) - 1 : ByteAt(u, b, y) \in Nat
      /\ \A y \in Begin(t, c)..End(t, c) - 1 : ByteAt(u, c, y) \in Nat
      /\ ByteAt(u, c, pos) \in Nat
  BY <1>3, <1>5, <1>6, ReadyParts DEF PutAt, Fine
<1>9. /\ to[b] = End(t, b) - 1 /\ from[c] = Begin(t, c) - 1
      /\ b # c => from[b] = Begin(t, b) /\ to[c] = End(t, c)
      /\ \A a \in Buffers : a # b /\ a # c => from[a] = Begin(u, a) /\ to[a] = End(u, a)
  BY <1>8
<1>0. \A a \in Buffers : Begin(w, a) = from[a] /\ End(w, a) = to[a] BY <1>7 DEF Moved
<1> HIDE DEF from, to
<1>10. Ready(w, c)
  <2>1. from[c] \in Nat /\ to[c] \in Nat /\ from[c] <= to[c] /\ to[c] <= End(t, c)
    BY <1>1, <1>3, <1>4, <1>9
  <2>2. Len(Pages(u, c)) \in Nat BY <1>8, SoundParts
  <2>3. to[c] <= Len(Pages(u, c)) * PageSize
    <3> DEFINE l == Len(Pages(u, c))
    <3>1. l * PageSize \in Nat BY <2>2, RowSize
    <3>2. End(t, c) <= l * PageSize BY <1>3, <1>8
    <3> HIDE DEF l
    <3>3. to[c] <= l * PageSize BY ONLY <1>3, <2>1, <3>1, <3>2
    <3> QED BY <3>3 DEF l
  <2>4. ASSUME NEW y \in from[c]..to[c] - 1 PROVE ByteAt(u, c, y) \in Nat
    <3>1. y = pos \/ y \in Begin(t, c)..End(t, c) - 1 BY <1>3, <1>9, <2>1
    <3> QED BY <1>8, <3>1
  <2> QED BY <1>7, <1>8, <2>1, <2>3, <2>4, MovedKeeps
<1>11. ASSUME b # c PROVE Ready(w, b)
  <2>1. from[b] \in Nat /\ to[b] \in Nat /\ from[b] <= to[b] BY <1>3, <1>4, <1>9, <1>11
  <2>2. to[b] <= Len(Pages(u, b)) * PageSize
    <3> DEFINE l == Len(Pages(u, b))
    <3>1. l \in Nat BY <1>8, SoundParts
    <3>2. l * PageSize \in Nat BY <3>1, RowSize
    <3>3. End(t, b) <= l * PageSize BY <1>3, <1>8
    <3> HIDE DEF l
    <3>4. to[b] <= l * PageSize BY <1>3, <1>9, <3>2, <3>3
    <3> QED BY <3>4 DEF l
  <2>3. \A y \in from[b]..to[b] - 1 : y \in Begin(t, b)..End(t, b) - 1 BY <1>3, <1>9, <1>11
  <2>4. \A y \in from[b]..to[b] - 1 : ByteAt(u, b, y) \in Nat BY <1>8, <2>3
  <2> QED BY <1>7, <1>8, <2>1, <2>2, <2>4, MovedKeeps
<1>12. ASSUME NEW a \in Buffers, a # b, a # c PROVE Ready(w, a)
  BY <1>7, <1>8, <1>9, <1>12, MovedBeside DEF Intact
<1>13. Fine(w) BY <1>7, <1>8, <1>10, <1>11, <1>12, SoundMoved DEF Fine
<1>14. /\ End(w, b) = End(t, b) - 1 /\ Begin(w, c) = Begin(t, c) - 1
       /\ b = c => Begin(w, b) = Begin(t, b) - 1
       /\ b # c => Begin(w, b) = Begin(t, b) /\ End(w, c) = End(t, c)
       /\ \A a \in Buffers : a # b /\ a # c => Begin(w, a) = Begin(t, a) /\ End(w, a) = End(t, a)
  BY <1>0, <1>8, <1>9
<1>15. Begin(w, b) # NoPosition /\ Begin(w, c) # NoPosition
  BY <1>1, <1>3, <1>14 DEF NoPosition
<1>16. /\ Begin(s, b) \in Int /\ End(s, b) \in Int /\ Begin(s, c) \in Int
       /\ End(t, b) - Begin(t, b) = End(s, b) - Begin(s, b)
       /\ End(t, b) % PageSize = End(s, b) % PageSize
       /\ Begin(t, c) % PageSize = Begin(s, c) % PageSize
       /\ \A a \in Buffers : a # b /\ a # c => Begin(t, a) = Begin(s, a) /\ End(t, a) = End(s, a)
  BY <1>1, ReadyParts DEF Like, Fine
<1>17. End(w, b) - Begin(w, b) >= End(s, b) - Begin(s, b) - 1
  BY <1>3, <1>14, <1>16, SMTT(30)
<1>18. /\ (End(t, b) - 1) % PageSize = (End(s, b) - 1) % PageSize
       /\ (Begin(t, c) - 1) % PageSize = (Begin(s, c) - 1) % PageSize
  <2>1. \A y \in Int : y - 1 = y + (-1) OBVIOUS
  <2>2. /\ (End(t, b) + (-1)) % PageSize = (End(s, b) + (-1)) % PageSize
        /\ (Begin(t, c) + (-1)) % PageSize = (Begin(s, c) + (-1)) % PageSize
    BY <1>3, <1>16, QuotStep
  <2> QED BY <1>3, <1>16, <2>1, <2>2
<1>20. /\ \A a \in Buffers : Begin(t, a) # NoPosition =>
            \A y \in Begin(t, a)..End(t, a) - 1 : ByteAt(w, a, y) = ByteAt(t, a, y)
       /\ ByteAt(w, c, pos) = x
  <2>1. \A a \in Buffers : \A y : ByteAt(w, a, y) = ByteAt(u, a, y) BY <1>7, <1>8, SoundMoved
  <2>2. \A y \in Begin(t, c)..End(t, c) - 1 : y # pos BY <1>3
  <2> HIDE DEF pos
  <2> QED BY <1>6, <2>1, <2>2 DEF PutAt
<1>21. \A a \in Buffers : a # b /\ a # c => Text(t, a) = Text(w, a)
  BY <1>3, <1>14, <1>20, TextBeside DEF Fine
<1>22. Passed(w, t, c, b, 1)
  <2> DEFINE n == 1
  <2>1. /\ n \in Nat /\ n = 1 /\ n <= End(w, c) - Begin(w, c)
        /\ Begin(t, c) = Begin(w, c) + n /\ End(t, b) = End(w, b) + n
        /\ c # b => End(t, c) = End(w, c) /\ Begin(t, b) = Begin(w, b)
        /\ Begin(w, b) \in Nat /\ End(w, b) \in Nat /\ Begin(w, c) = pos
    BY <1>1, <1>3, <1>4, <1>14
  <2>2. ASSUME NEW y \in Begin(w, c) + n..End(w, c) - 1 PROVE ByteAt(t, c, y) = ByteAt(w, c, y)
    <3>1. y \in Begin(t, c)..End(t, c) - 1 BY <1>3, <1>14, <2>1
    <3> QED BY <1>3, <1>20, <3>1
  <2>3. ASSUME NEW i \in 0..n - 1
        PROVE  ByteAt(t, b, End(w, b) + i) = ByteAt(w, c, Begin(w, c) + i)
    <3>1. End(w, b) + i = End(t, b) - 1 /\ Begin(w, c) + i = pos BY <1>3, <1>14, <2>1, i = 0
    <3> QED BY <1>20, <3>1 DEF x
  <2>4. c # b => \A y \in Begin(w, b)..End(w, b) - 1 : ByteAt(t, b, y) = ByteAt(w, b, y)
    <3>1. c # b => \A y \in Begin(w, b)..End(w, b) - 1 : y \in Begin(t, b)..End(t, b) - 1
      BY <1>3, <1>14
    <3>2. \A y \in Begin(t, b)..End(t, b) - 1 : ByteAt(t, b, y) = ByteAt(w, b, y)
      BY <1>3, <1>20
    <3> QED BY <3>1, <3>2
  <2>5. Ready(t, b) /\ Ready(t, c) /\ Ready(w, b) /\ Ready(w, c) BY <1>3, <1>13 DEF Fine
  <2> HIDE DEF n, pos
  <2>6. Passed(w, t, c, b, n)
    BY <1>3, <1>15, <1>21, <2>1, <2>2, <2>3, <2>4, <2>5, PassedHere
  <2> QED BY <2>1, <2>6
<1>23. Passed(w, s, c, b, 1) BY <1>1, <1>22, PassedAfter DEF Like
<1>19. GoneBack(s, w, b, c, 1) BY <1>23, <1>13, <1>14, <1>15, <1>16, <1>17, <1>18 DEF GoneBack
<1> QED BY <1>2, <1>19

(*** Whole pages that change places. ***)

\* Only page k of b and page l of c have changed places.
Crossed(s, t, b, k, c, l) ==
  /\ Shaped(t) /\ t.heap = s.heap /\ t.pool = s.pool
  /\ \A a \in Buffers :
       /\ Pages(t, a) \in Seq(DOMAIN s.heap) /\ Len(Pages(t, a)) = Len(Pages(s, a))
       /\ \A i \in 1..Len(Pages(s, a)) :
            Pages(t, a)[i] = IF a = b /\ i = k THEN Pages(s, c)[l]
                             ELSE IF a = c /\ i = l THEN Pages(s, b)[k] ELSE Pages(s, a)[i]

\* That, and the positions have not moved.
Swapped(s, t, b, k, c, l) ==
  /\ Sound(t, {}) /\ Crossed(s, t, b, k, c, l)
  /\ \A a \in Buffers : Begin(t, a) = Begin(s, a) /\ End(t, a) = End(s, a)

\* Where two pages have changed places, each page still has one place.
LEMMA SwapSound ==
  ASSUME NEW s, Sound(s, {}), NEW b \in Buffers, NEW c \in Buffers,
         NEW k, k \in 1..Len(Pages(s, b)), NEW l, l \in 1..Len(Pages(s, c)), NEW t,
         Crossed(s, t, b, k, c, l)
  PROVE  Sound(t, {})
<1> DEFINE R == Rows(s)
           S == Rows(t)
           D == DOMAIN s.heap
<1>1. /\ s.pool \in Seq(D) /\ b \in Holders /\ c \in Holders
      /\ Held(R, D, {}) /\ Heaped(s.heap)
      /\ Shaped(t) /\ t.heap = s.heap /\ t.pool = s.pool
      /\ \A a \in Buffers : Pages(t, a) \in Seq(D) /\ Len(Pages(t, a)) = Len(Pages(s, a))
  BY SoundParts DEF Sound, Crossed
<1>2. /\ R["pool"] = s.pool /\ \A a \in Buffers : R[a] = Pages(s, a)
      /\ S["pool"] = s.pool /\ \A a \in Buffers : S[a] = Pages(t, a)
      /\ S = [h \in Holders |-> S[h]]
  BY <1>1, RowsAre
<1> HIDE DEF R, S
<1>3. S \in [Holders -> Seq(D)] BY <1>1, <1>2 DEF Holders
<1>4. \A a \in Holders : Len(S[a]) = Len(R[a]) BY <1>1, <1>2 DEF Holders
<1>5. \A a \in Holders : \A i \in 1..Len(S[a]) :
        S[a][i] = IF a = b /\ i = k THEN R[c][l]
                  ELSE IF a = c /\ i = l THEN R[b][k] ELSE R[a][i]
  <2> TAKE a \in Holders
  <2> TAKE i \in 1..Len(S[a])
  <2>1. CASE a \in Buffers
    <3>1. /\ S[a] = Pages(t, a) /\ R[a] = Pages(s, a)
          /\ R[b] = Pages(s, b) /\ R[c] = Pages(s, c)
      BY <1>2, <2>1
    <3>2. i \in 1..Len(Pages(s, a)) BY <1>1, <2>1, <3>1
    <3>3. Pages(t, a)[i] = IF a = b /\ i = k THEN Pages(s, c)[l]
                           ELSE IF a = c /\ i = l THEN Pages(s, b)[k] ELSE Pages(s, a)[i]
      BY ONLY Crossed(s, t, b, k, c, l), <2>1, <3>2 DEF Crossed
    <3> QED BY ONLY <3>1, <3>3
  <2>2. CASE a = "pool" BY <1>2, <2>2, PoolIsNoBuffer
  <2> QED BY <2>1, <2>2 DEF Holders
<1>6. k \in 1..Len(R[b]) /\ l \in 1..Len(R[c]) BY <1>2
<1> HIDE DEF D
<1>7. Exchanged(R, S, b, k, c, l) BY <1>4, <1>5 DEF Exchanged
<1>8. Held(S, D, {}) BY ONLY <1>1, <1>3, <1>6, <1>7, HeldSwap
<1> QED BY <1>1, <1>8 DEF Sound, S, D

\* A sequence of pages with another page at k.
LEMMA ExceptIs ==
  ASSUME NEW D, NEW B, B \in Seq(D), NEW k, k \in 1..Len(B), NEW p \in D
  PROVE  /\ [B EXCEPT ![k] = p] \in Seq(D) /\ Len([B EXCEPT ![k] = p]) = Len(B)
         /\ \A i \in 1..Len(B) : [B EXCEPT ![k] = p][i] = IF i = k THEN p ELSE B[i]
<1> DEFINE q == [B EXCEPT ![k] = p]
<1>1. B \in [1..Len(B) -> D] /\ Len(B) \in Nat OBVIOUS
<1>2. q \in [1..Len(B) -> D] /\ \A i \in 1..Len(B) : q[i] = IF i = k THEN p ELSE B[i] BY <1>1
<1> HIDE DEF q
<1>3. q \in Seq(D) /\ Len(q) = Len(B) BY <1>1, <1>2
<1> QED BY <1>2, <1>3 DEF q

\* std::swap of two page pointers.
LEMMA SwapIs ==
  ASSUME NEW s, Fine(s), NEW b \in Buffers, NEW c \in Buffers,
         NEW k, k \in 1..Len(Pages(s, b)), NEW l, l \in 1..Len(Pages(s, c))
  PROVE  Swapped(s, Swap(s, b, k, c, l), b, k, c, l)
<1> DEFINE A == Pages(s, b)
           C == Pages(s, c)
           p == A[k]
           r == C[l]
           ps == [C EXCEPT ![l] = p]
           t == SetPages(s, c, ps)
           B == Pages(t, b)
           q == [B EXCEPT ![k] = r]
           u == SetPages(t, b, q)
           D == DOMAIN s.heap
<1>1. Sound(s, {}) /\ Shaped(s) BY DEF Fine, Sound
<1>2. /\ \A a \in Buffers : Pages(s, a) \in Seq(D)
      /\ A \in Seq(D) /\ C \in Seq(D) /\ p \in D /\ r \in D
  BY <1>1, SoundParts
<1>3. Swap(s, b, k, c, l) = u BY DEF Swap
<1>4. ps \in Seq(D) /\ Len(ps) = Len(C) /\ \A i \in 1..Len(C) : ps[i] = IF i = l THEN p ELSE C[i]
  <2>1. p \in D /\ C \in Seq(D) /\ l \in 1..Len(C) BY <1>2
  <2> HIDE DEF p, C, D
  <2> QED BY <2>1, ExceptIs
<1> HIDE DEF ps
<1>5. Paged(s, t, c, ps) BY <1>1, SetPagesIs
<1> HIDE DEF t
<1>6. Shaped(t) /\ Pages(t, b) = (IF b = c THEN ps ELSE A) BY <1>5 DEF Paged
<1>7. Pages(t, b) \in Seq(D) /\ Len(Pages(t, b)) = Len(A) BY <1>2, <1>4, <1>6
<1>8. q \in Seq(D) /\ Len(q) = Len(A) /\ \A i \in 1..Len(A) : q[i] = IF i = k THEN r ELSE B[i]
  <2>1. B \in Seq(D) /\ Len(B) = Len(A) /\ r \in D /\ k \in 1..Len(B) BY <1>2, <1>7
  <2> HIDE DEF B, r, D
  <2>2. q \in Seq(D) /\ Len(q) = Len(B) /\ \A i \in 1..Len(B) : q[i] = IF i = k THEN r ELSE B[i]
    BY <2>1, ExceptIs
  <2> QED BY <2>1, <2>2
<1> HIDE DEF q
<1>9. Paged(t, u, b, q) BY <1>6, SetPagesIs
<1> HIDE DEF u
<1>10. /\ Shaped(u) /\ u.heap = s.heap /\ u.pool = s.pool
       /\ \A a \in Buffers : /\ Begin(u, a) = Begin(s, a) /\ End(u, a) = End(s, a)
                             /\ Pages(u, a) = (IF a = b THEN q ELSE IF a = c THEN ps
                                               ELSE Pages(s, a))
  BY <1>5, <1>9 DEF Paged
<1>11. \A a \in Buffers : Pages(u, a) \in Seq(D) /\ Len(Pages(u, a)) = Len(Pages(s, a))
  BY <1>2, <1>4, <1>8, <1>10
<1>12. ASSUME NEW a \in Buffers, NEW i \in 1..Len(Pages(s, a))
       PROVE  Pages(u, a)[i] = IF a = b /\ i = k THEN C[l]
                               ELSE IF a = c /\ i = l THEN A[k] ELSE Pages(s, a)[i]
  <2>1. CASE a = b
    <3>1. Pages(u, a)[i] = IF i = k THEN C[l] ELSE Pages(t, b)[i] BY <1>8, <1>10, <2>1
    <3>2. b = c => Pages(t, b)[i] = IF i = l THEN A[k] ELSE Pages(s, a)[i]
      BY <1>4, <1>6, <2>1
    <3>3. b # c => Pages(t, b)[i] = Pages(s, a)[i] BY <1>6, <2>1
    <3> QED BY <2>1, <3>1, <3>2, <3>3
  <2>2. CASE a # b BY <1>4, <1>10, <2>2
  <2> QED BY <2>1, <2>2
<1>13. Crossed(s, u, b, k, c, l) BY <1>10, <1>11, <1>12 DEF Crossed
<1>14. Sound(u, {}) BY <1>1, <1>13, SwapSound
<1>15. Swapped(s, u, b, k, c, l) BY <1>10, <1>13, <1>14 DEF Swapped
<1> QED BY <1>3, <1>15

\* In t, the cells from y in c are those that were from x in b; only those and the ones from x
\* in b have changed.
CellsSwapped(s, t, b, c, x, y) ==
  /\ \A o \in Offsets : ByteAt(t, c, y + o) = ByteAt(s, b, x + o)
  /\ \A a \in Buffers : \A z \in Int :
       /\ (z \div PageSize) + 1 \in 1..Len(Pages(s, a))
       /\ a = b => z < x \/ z >= x + PageSize
       /\ a = c => z < y \/ z >= y + PageSize
       => ByteAt(t, a, z) = ByteAt(s, a, z)

\* The cells of the positions after a swap: those of the two pages that start at x and at y.
LEMMA SwapCells ==
  ASSUME NEW s, NEW t, NEW b \in Buffers, NEW c \in Buffers, NEW x \in Nat, NEW y \in Nat,
         x % PageSize = 0, y % PageSize = 0, b = c => x # y,
         (x \div PageSize) + 1 \in 1..Len(Pages(s, b)),
         (y \div PageSize) + 1 \in 1..Len(Pages(s, c)),
         Swapped(s, t, b, (x \div PageSize) + 1, c, (y \div PageSize) + 1)
  PROVE  CellsSwapped(s, t, b, c, x, y)
<1> DEFINE k == (x \div PageSize) + 1
           l == (y \div PageSize) + 1
<1>1. x \div PageSize \in Int /\ y \div PageSize \in Int BY Quot
<1>2. ASSUME NEW o \in Offsets PROVE ByteAt(t, c, y + o) = ByteAt(s, b, x + o)
  <2> DEFINE z == y + o
  <2>2. /\ z \div PageSize = y \div PageSize /\ z % PageSize = o
        /\ (x + o) \div PageSize = x \div PageSize /\ (x + o) % PageSize = o
    BY QuotAligned
  <2>3. ~(c = b /\ l = k)
    <3> SUFFICES ASSUME b = c, x \div PageSize = y \div PageSize PROVE FALSE BY <1>1
    <3>1. x = PageSize * (x \div PageSize) + 0 /\ y = PageSize * (y \div PageSize) + 0 BY Quot
    <3>2. x = y BY <3>1
    <3> QED BY <3>2
  <2>4. Pages(t, c)[l] = Pages(s, b)[k] BY <2>3 DEF Swapped, Crossed
  <2>5. t.heap = s.heap BY DEF Swapped, Crossed
  <2>6. ByteAt(t, c, z) = ByteAt(s, b, x + o)
    BY <2>2, <2>4, <2>5 DEF ByteAt, PageAt
  <2> QED BY <2>6
<1>3. ASSUME NEW a \in Buffers, NEW z \in Int, (z \div PageSize) + 1 \in 1..Len(Pages(s, a)),
             a = b => z < x \/ z >= x + PageSize, a = c => z < y \/ z >= y + PageSize
      PROVE  ByteAt(t, a, z) = ByteAt(s, a, z)
  <2> DEFINE i == (z \div PageSize) + 1
  <2>0. z \div PageSize \in Int BY Quot
  <2>1. a = b => i # k
    <3> HAVE a = b
    <3>1. z \div PageSize < x \div PageSize \/ z \div PageSize > x \div PageSize
      BY <1>3, PageOrder
    <3> QED BY <1>1, <2>0, <3>1
  <2>2. a = c => i # l
    <3> HAVE a = c
    <3>1. z \div PageSize < y \div PageSize \/ z \div PageSize > y \div PageSize
      BY <1>3, PageOrder
    <3> QED BY <1>1, <2>0, <3>1
  <2>3. Pages(t, a)[i] = Pages(s, a)[i] BY <1>3, <2>1, <2>2 DEF Swapped, Crossed
  <2>4. t.heap = s.heap BY DEF Swapped, Crossed
  <2> QED BY <2>3, <2>4 DEF ByteAt, PageAt
<1> QED BY <1>2, <1>3 DEF CellsSwapped

\* A with its pages j and k in each other's place.
Turned(A, j, k) == [i \in 1..Len(A) |-> IF i = j THEN A[k] ELSE IF i = k THEN A[j] ELSE A[i]]

\* That is what B is.
IsTurned(D, A, B, j, k) ==
  /\ B \in Seq(D) /\ Len(B) = Len(A) /\ B[j] = A[k]
  /\ \A i \in 1..Len(A) : B[i] = IF i = j THEN A[k] ELSE IF i = k THEN A[j] ELSE A[i]

\* The turned pages are pages.
LEMMA TurnedIs ==
  ASSUME NEW D, NEW A, A \in Seq(D), NEW j, j \in 1..Len(A), NEW k, k \in 1..Len(A)
  PROVE  IsTurned(D, A, Turned(A, j, k), j, k)
<1> DEFINE B == Turned(A, j, k)
<1>1. /\ Len(A) \in Nat /\ \A i \in 1..Len(A) : A[i] \in D OBVIOUS
<1>2. B \in [1..Len(A) -> D]
      /\ \A i \in 1..Len(A) : B[i] = IF i = j THEN A[k] ELSE IF i = k THEN A[j] ELSE A[i]
  BY <1>1 DEF Turned
<1> HIDE DEF B
<1>3. B \in Seq(D) /\ Len(B) = Len(A) BY <1>1, <1>2
<1>4. IsTurned(D, A, B, j, k) BY <1>2, <1>3 DEF IsTurned
<1> QED BY <1>4 DEF B

\* Set twice, pages are what they were set to last.
LEMMA SetTwice ==
  ASSUME NEW s, Shaped(s), NEW b \in Buffers, NEW B, NEW q
  PROVE  SetPages(SetPages(s, b, B), b, q) = SetPages(s, b, q)
<1> DEFINE v == SetPages(s, b, B)
           t == SetPages(v, b, q)
           u == SetPages(s, b, q)
<1>1. Paged(s, v, b, B) BY SetPagesIs
<1> HIDE DEF v
<1>2. Shaped(v) BY <1>1 DEF Paged
<1>3. Paged(v, t, b, q) /\ Paged(s, u, b, q) BY <1>2, SetPagesIs
<1> HIDE DEF t, u
<1>4. \A a \in Buffers : /\ Pages(t, a) = Pages(u, a) /\ Begin(t, a) = Begin(u, a)
                         /\ End(t, a) = End(u, a)
  BY <1>1, <1>3 DEF Paged
<1>5. t.buf = u.buf
  <2>1. /\ t.buf = [a \in Buffers |->
                    [pages |-> Pages(t, a), begin |-> Begin(t, a), end |-> End(t, a)]]
        /\ u.buf = [a \in Buffers |->
                    [pages |-> Pages(u, a), begin |-> Begin(u, a), end |-> End(u, a)]]
    BY <1>3 DEF Paged, Shaped
  <2> QED BY <1>4, <2>1
<1>6. t.heap = u.heap /\ t.pool = u.pool BY <1>1, <1>3 DEF Paged
<1>7. t = [heap |-> t.heap, pool |-> t.pool, buf |-> t.buf]
      /\ u = [heap |-> u.heap, pool |-> u.pool, buf |-> u.buf]
  BY <1>3 DEF Paged, Shaped
<1>8. t = u BY <1>5, <1>6, <1>7
<1> QED BY <1>8 DEF t, u, v

\* Page k of b, with page j put in its place, goes to c.
LEMMA TakeOut ==
  ASSUME NEW s, Sound(s, {}), NEW b \in Buffers, NEW c \in Buffers,
         NEW k, k \in 1..Len(Pages(s, b)), NEW j, j \in 1..Len(Pages(s, b)),
         NEW q, q \in Seq(DOMAIN s.heap), Without(q, Turned(Pages(s, b), j, k), j),
         NEW ps, ps \in Seq(DOMAIN s.heap), NEW m, Without(Left(s, b, q, c), ps, m),
         ps[m] = Pages(s, b)[k]
  PROVE  Handed(s, SetPages(SetPages(s, b, q), c, ps), b, q, c, ps)
<1> DEFINE A == Pages(s, b)
           B == Turned(A, j, k)
           v == SetPages(s, b, B)
           u == SetPages(SetPages(s, b, q), c, ps)
           D == DOMAIN s.heap
<1>1. Shaped(s) /\ \A a \in Buffers : Pages(s, a) \in Seq(D) BY SoundParts DEF Sound
<1>2. /\ B \in Seq(D) /\ Len(B) = Len(A) /\ B[j] = A[k]
      /\ \A i \in 1..Len(A) : B[i] = IF i = j THEN A[k] ELSE IF i = k THEN A[j] ELSE A[i]
  <2>1. A \in Seq(D) BY <1>1
  <2>2. j \in 1..Len(A) /\ k \in 1..Len(A) OBVIOUS
  <2> HIDE DEF A, D
  <2>3. IsTurned(D, A, B, j, k) BY <2>1, <2>2, TurnedIs
  <2> HIDE DEF B
  <2> QED BY <2>3 DEF IsTurned
<1>3. SetPages(v, b, q) = SetPages(s, b, q) BY <1>1, SetTwice
<1>4. Without(q, B, j) OBVIOUS
<1> HIDE DEF B
<1>5. Paged(s, v, b, B) BY <1>1, SetPagesIs
<1>6. u = SetPages(SetPages(v, b, q), c, ps) BY <1>3
<1> HIDE DEF v
<1>7. Crossed(s, v, b, j, b, k) BY <1>1, <1>2, <1>5 DEF Crossed, Paged
<1>8. Sound(v, {}) BY ONLY <1>7, SwapSound, Sound(s, {}), b \in Buffers,
                           j \in 1..Len(Pages(s, b)), k \in 1..Len(Pages(s, b))
<1>9. /\ v.heap = s.heap /\ Pages(v, b) = B
      /\ \A a \in Buffers : /\ Begin(v, a) = Begin(s, a) /\ End(v, a) = End(s, a)
                            /\ a # b => Pages(v, a) = Pages(s, a)
  BY <1>5 DEF Paged
<1>10. Left(v, b, q, c) = Left(s, b, q, c) BY <1>9 DEF Left
<1>11. Handed(v, SetPages(SetPages(v, b, q), c, ps), b, q, c, ps)
  <2>1. q \in Seq(DOMAIN v.heap) /\ ps \in Seq(DOMAIN v.heap) BY <1>9
  <2>2. Without(q, Pages(v, b), j) BY <1>4, <1>9
  <2>3. Without(Left(v, b, q, c), ps, m) BY <1>10
  <2>4. ps[m] = Pages(v, b)[j] BY <1>2, <1>9
  <2> QED BY ONLY <1>8, <2>1, <2>2, <2>3, <2>4, HandOver, b \in Buffers, c \in Buffers
<1> HIDE DEF u
<1>12. Handed(v, u, b, q, c, ps) BY <1>6, <1>11
<1>13. Handed(s, u, b, q, c, ps) BY <1>9, <1>12 DEF Handed
<1> QED BY <1>13 DEF u

\* Page k of b is behind the others of c now, and the later ones of b are a place further to the
\* front.
GivenBehind(s, t, b, c, k) ==
  /\ Sound(t, {}) /\ t.heap = s.heap
  /\ \A a \in Buffers : /\ Begin(t, a) = Begin(s, a) /\ End(t, a) = End(s, a)
                        /\ a # b /\ a # c => Pages(t, a) = Pages(s, a)
  /\ \A i \in 1..Len(Pages(s, b)) - 1 : i >= k => Pages(t, b)[i] = Pages(s, b)[i + 1]
  /\ Pages(t, c)[Len(Pages(t, c))] = Pages(s, b)[k]
  /\ b = c => Len(Pages(t, b)) = Len(Pages(s, b))
  /\ b # c => /\ Len(Pages(t, b)) = Len(Pages(s, b)) - 1
              /\ Len(Pages(t, c)) = Len(Pages(s, c)) + 1
              /\ \A i \in 1..Len(Pages(s, c)) : Pages(t, c)[i] = Pages(s, c)[i]

\* Page k of b is before the others of c now, and the earlier ones of b have not moved in b.
GivenBefore(s, t, b, c, k) ==
  /\ Sound(t, {}) /\ t.heap = s.heap
  /\ \A a \in Buffers : /\ Begin(t, a) = Begin(s, a) /\ End(t, a) = End(s, a)
                        /\ a # b /\ a # c => Pages(t, a) = Pages(s, a)
  /\ Pages(t, c)[1] = Pages(s, b)[k]
  /\ b = c => /\ Len(Pages(t, b)) = Len(Pages(s, b))
              /\ \A i \in 1..Len(Pages(s, b)) - 1 :
                   i < k => Pages(t, b)[i + 1] = Pages(s, b)[i]
  /\ b # c => /\ Len(Pages(t, b)) = Len(Pages(s, b)) - 1
              /\ \A i \in 1..Len(Pages(s, b)) - 1 : i < k => Pages(t, b)[i] = Pages(s, b)[i]
              /\ Len(Pages(t, c)) = Len(Pages(s, c)) + 1
              /\ \A i \in 1..Len(Pages(s, c)) : Pages(t, c)[i + 1] = Pages(s, c)[i]

\* A page with bytes is handed over behind c.
LEMMA GiveBehind ==
  ASSUME NEW s, Sound(s, {}), NEW b \in Buffers, NEW c \in Buffers,
         NEW k, k \in 1..Len(Pages(s, b)), NEW q,
         q = Tail([Pages(s, b) EXCEPT ![k] = Head(Pages(s, b))]), NEW t, t = SetPages(s, b, q)
  PROVE  GivenBehind(s, SetPages(t, c, Append(Pages(t, c), Pages(s, b)[k])), b, c, k)
<1> DEFINE A == Pages(s, b)
           l == Len(A)
           D == DOMAIN s.heap
           f == Head(A)
           X == [A EXCEPT ![k] = f]
           p == A[k]
           one == 1
           B == Turned(A, one, k)
           old == Left(s, b, q, c)
           ps == Append(Pages(t, c), p)
           u == SetPages(t, c, ps)
           m == Len(old) + 1
<1>1. Shaped(s) /\ \A a \in Buffers : Pages(s, a) \in Seq(D) BY SoundParts DEF Sound
<1>2. A \in Seq(D) /\ l \in Nat /\ l >= 1 /\ A # <<>> /\ f \in D /\ p \in D /\ f = A[1] BY <1>1
<1>3. X \in Seq(D) /\ Len(X) = l /\ \A i \in 1..l : X[i] = IF i = k THEN f ELSE A[i]
  <2> HIDE DEF A, f, D
  <2>1. k \in 1..Len(A) BY DEF A
  <2> QED BY <1>2, <2>1, ExceptIs
<1>4. q = Tail(X) OBVIOUS
<1>5. q \in Seq(D) /\ Len(q) = l - 1 /\ \A i \in 1..l - 1 : q[i] = X[i + 1]
  <2> HIDE DEF X, D, A
  <2>1. X # <<>> BY <1>2, <1>3
  <2>2. q \in Seq(D) /\ Without(q, X, 1) /\ Len(q) = Len(X) - 1 BY <1>3, <1>4, <2>1, TailIs
  <2>3. Len(q) = l - 1 BY <1>3, <2>2
  <2>4. \A i \in 1..l - 1 : ~(i < 1) BY <1>2
  <2>5. \A i \in 1..l - 1 : q[i] = X[i + 1] BY <2>2, <2>3, <2>4 DEF Without
  <2> QED BY <2>2, <2>3, <2>5
<1> HIDE DEF X
<1>6. /\ B \in Seq(D) /\ Len(B) = l
      /\ \A i \in 1..l : B[i] = IF i = 1 THEN p ELSE IF i = k THEN f ELSE A[i]
  <2>1. A \in Seq(D) /\ k \in 1..Len(A) /\ one \in 1..Len(A) BY <1>2
  <2> HIDE DEF A, D, one
  <2>2. IsTurned(D, A, B, one, k) BY <2>1, TurnedIs
  <2> HIDE DEF B
  <2> QED BY <1>2, <2>2 DEF one, IsTurned
<1>7. Without(q, B, one)
  <2> HIDE DEF B, A, D
  <2>1. \A i \in 1..l - 1 : i + 1 \in 1..l /\ i + 1 # 1 /\ ~(i < 1) BY <1>2
  <2>2. \A i \in 1..l - 1 : q[i] = B[i + 1] BY <1>3, <1>5, <1>6, <2>1
  <2>3. one \in 1..Len(B) /\ Len(q) = Len(B) - 1 BY <1>2, <1>5, <1>6
  <2>4. \A i \in 1..Len(q) : q[i] = B[IF i < one THEN i ELSE i + 1] BY <1>5, <2>1, <2>2
  <2> QED BY <2>3, <2>4 DEF Without
<1> HIDE DEF B, one
<1>8. Paged(s, t, b, q) BY <1>1, SetPagesIs
<1>9. Pages(t, c) = old BY <1>8 DEF Paged, Left
<1>10. old \in Seq(D) /\ Len(old) \in Nat
  <2>1. q \in Seq(DOMAIN s.heap) BY <1>5
  <2>2. old \in Seq(D) BY ONLY Sound(s, {}), c \in Buffers, <2>1, LeftIn
  <2> HIDE DEF old
  <2> QED BY <2>2
<1>11. /\ ps \in Seq(D) /\ Without(old, ps, m) /\ ps[m] = p /\ Len(ps) = m
       /\ \A i \in 1..Len(old) : ps[i] = old[i]
  <2> DEFINE rs == Append(old, p)
  <2>1. ps = rs BY <1>9
  <2> HIDE DEF old, p, D, ps
  <2>2. rs \in Seq(D) /\ Without(old, rs, m) /\ rs[m] = p /\ Len(rs) = m
    BY <1>2, <1>10, AppendIs
  <2>3. \A i \in 1..Len(old) : rs[i] = old[i] BY <1>10
  <2> QED BY <2>1, <2>2, <2>3
<1> HIDE DEF ps, m, D
<1>12. Handed(s, u, b, q, c, ps)
  <2>1. q \in Seq(DOMAIN s.heap) /\ Without(q, Turned(Pages(s, b), one, k), one)
    BY <1>5, <1>7 DEF D, B
  <2>2. ps \in Seq(DOMAIN s.heap) /\ Without(Left(s, b, q, c), ps, m) /\ ps[m] = Pages(s, b)[k]
    BY <1>11 DEF D
  <2>3. one \in 1..Len(Pages(s, b)) BY <1>2 DEF one
  <2>4. Handed(s, SetPages(SetPages(s, b, q), c, ps), b, q, c, ps)
    BY ONLY Sound(s, {}), b \in Buffers, c \in Buffers, k \in 1..Len(Pages(s, b)),
            <2>1, <2>2, <2>3, TakeOut
  <2> QED BY <2>4
<1> HIDE DEF u
<1>13. Pages(u, c) = ps /\ (b # c => Pages(u, b) = q) BY <1>12 DEF Handed
<1>14. \A i \in 1..l - 1 : i >= k => Pages(u, b)[i] = A[i + 1]
  <2> TAKE i \in 1..l - 1
  <2> HAVE i >= k
  <2>1. i + 1 \in 1..l /\ i + 1 # k BY <1>2
  <2>2. q[i] = A[i + 1] BY <1>3, <1>5, <2>1
  <2>3. CASE b = c
    <3>1. old = q BY <2>3 DEF Left
    <3>2. i \in 1..Len(old) BY <1>5, <3>1
    <3> QED BY <1>11, <1>13, <2>2, <2>3, <3>1, <3>2
  <2>4. CASE b # c BY <1>13, <2>2, <2>4
  <2> QED BY <2>3, <2>4
<1>15. Pages(u, c)[Len(Pages(u, c))] = p BY <1>11, <1>13
<1>16. b = c => Len(Pages(u, b)) = l
  <2> HAVE b = c
  <2>1. m = l - 1 + 1 BY <1>5 DEF Left, m
  <2> QED BY <1>2, <1>11, <1>13, <2>1
<1>17. b # c => /\ Len(Pages(u, b)) = l - 1 /\ Len(Pages(u, c)) = Len(Pages(s, c)) + 1
                /\ \A i \in 1..Len(Pages(s, c)) : Pages(u, c)[i] = Pages(s, c)[i]
  <2> HAVE b # c
  <2>1. old = Pages(s, c) /\ m = Len(Pages(s, c)) + 1 BY DEF Left, m
  <2> QED BY <1>5, <1>11, <1>13, <2>1
<1>18. GivenBehind(s, u, b, c, k) BY <1>12, <1>14, <1>15, <1>16, <1>17 DEF GivenBehind, Handed
<1> QED BY <1>18 DEF u, ps

\* A page with bytes is handed over before those of c.
LEMMA GiveBefore ==
  ASSUME NEW s, Sound(s, {}), NEW b \in Buffers, NEW c \in Buffers,
         NEW k, k \in 1..Len(Pages(s, b)), NEW q,
         q = Front([Pages(s, b) EXCEPT ![k] = Last(Pages(s, b))]), NEW t, t = SetPages(s, b, q)
  PROVE  GivenBefore(s, SetPages(t, c, <<Pages(s, b)[k]>> \o Pages(t, c)), b, c, k)
<1> DEFINE A == Pages(s, b)
           l == Len(A)
           D == DOMAIN s.heap
           f == Last(A)
           X == [A EXCEPT ![k] = f]
           p == A[k]
           lst == l
           B == Turned(A, lst, k)
           old == Left(s, b, q, c)
           ps == <<p>> \o Pages(t, c)
           u == SetPages(t, c, ps)
           m == 1
<1>1. Shaped(s) /\ \A a \in Buffers : Pages(s, a) \in Seq(D) BY SoundParts DEF Sound
<1>2. A \in Seq(D) /\ l \in Nat /\ l >= 1 /\ A # <<>> /\ f \in D /\ p \in D /\ f = A[l]
  BY <1>1 DEF Last
<1>3. X \in Seq(D) /\ Len(X) = l /\ \A i \in 1..l : X[i] = IF i = k THEN f ELSE A[i]
  <2> HIDE DEF A, f, D
  <2>1. k \in 1..Len(A) BY DEF A
  <2> QED BY <1>2, <2>1, ExceptIs
<1>4. q = Front(X) OBVIOUS
<1>5. q \in Seq(D) /\ Len(q) = l - 1 /\ \A i \in 1..l - 1 : q[i] = X[i]
  <2> HIDE DEF X, D, A
  <2>1. X # <<>> BY <1>2, <1>3
  <2>2. q \in Seq(D) /\ Without(q, X, Len(X)) /\ Len(q) = Len(X) - 1
    BY <1>3, <1>4, <2>1, FrontIs
  <2>3. Len(q) = l - 1 BY <1>3, <2>2
  <2>4. \A i \in 1..l - 1 : i < Len(X) BY <1>2, <1>3
  <2>5. \A i \in 1..l - 1 : q[i] = X[i] BY <2>2, <2>3, <2>4 DEF Without
  <2> QED BY <2>2, <2>3, <2>5
<1> HIDE DEF X
<1>6. /\ B \in Seq(D) /\ Len(B) = l
      /\ \A i \in 1..l : B[i] = IF i = l THEN p ELSE IF i = k THEN f ELSE A[i]
  <2>1. A \in Seq(D) /\ k \in 1..Len(A) /\ lst \in 1..Len(A) BY <1>2
  <2> HIDE DEF A, D, lst
  <2>2. IsTurned(D, A, B, lst, k) BY <2>1, TurnedIs
  <2> HIDE DEF B
  <2> QED BY <1>2, <2>2 DEF lst, IsTurned
<1>7. Without(q, B, lst)
  <2> HIDE DEF B, A
  <2>1. \A i \in 1..l - 1 : i \in 1..l /\ i # l /\ i < l BY <1>2
  <2>2. \A i \in 1..l - 1 : q[i] = B[i] BY <1>3, <1>5, <1>6, <2>1
  <2>3. lst \in 1..Len(B) /\ Len(q) = Len(B) - 1 BY <1>2, <1>5, <1>6
  <2>4. \A i \in 1..Len(q) : q[i] = B[IF i < lst THEN i ELSE i + 1] BY <1>5, <2>1, <2>2
  <2> QED BY <2>3, <2>4 DEF Without
<1> HIDE DEF B, lst
<1>8. Paged(s, t, b, q) BY <1>1, SetPagesIs
<1>9. Pages(t, c) = old BY <1>8 DEF Paged, Left
<1>10. old \in Seq(D) /\ Len(old) \in Nat
  <2>1. q \in Seq(DOMAIN s.heap) BY <1>5
  <2>2. old \in Seq(D) BY ONLY Sound(s, {}), c \in Buffers, <2>1, LeftIn
  <2> HIDE DEF old
  <2> QED BY <2>2
<1>11. /\ ps \in Seq(D) /\ Without(old, ps, m) /\ ps[m] = p /\ Len(ps) = Len(old) + 1
       /\ \A i \in 1..Len(old) : ps[i + 1] = old[i]
  <2> DEFINE rs == <<p>> \o old
  <2>1. ps = rs BY <1>9
  <2> HIDE DEF old, p, D, ps
  <2>2. rs \in Seq(D) /\ Without(old, rs, m) /\ rs[m] = p /\ Len(rs) = Len(old) + 1
    BY <1>2, <1>10, InFrontIs
  <2> HIDE DEF rs
  <2>3. \A i \in 1..Len(old) : rs[i + 1] = old[i] BY <1>10, <2>2 DEF Without
  <2> QED BY <2>1, <2>2, <2>3
<1> HIDE DEF ps, m, D
<1>12. Handed(s, u, b, q, c, ps)
  <2>1. q \in Seq(DOMAIN s.heap) /\ Without(q, Turned(Pages(s, b), lst, k), lst)
    BY <1>5, <1>7 DEF D, B
  <2>2. ps \in Seq(DOMAIN s.heap) /\ Without(Left(s, b, q, c), ps, m) /\ ps[m] = Pages(s, b)[k]
    BY <1>11 DEF D
  <2>3. lst \in 1..Len(Pages(s, b)) BY <1>2 DEF lst
  <2>4. Handed(s, SetPages(SetPages(s, b, q), c, ps), b, q, c, ps)
    BY ONLY Sound(s, {}), b \in Buffers, c \in Buffers, k \in 1..Len(Pages(s, b)),
            <2>1, <2>2, <2>3, TakeOut
  <2> QED BY <2>4
<1> HIDE DEF u
<1>13. Pages(u, c) = ps /\ (b # c => Pages(u, b) = q) BY <1>12 DEF Handed
<1>14. \A i \in 1..l - 1 : i < k => q[i] = A[i]
  <2> TAKE i \in 1..l - 1
  <2> HAVE i < k
  <2>1. i \in 1..l /\ i # k BY <1>2
  <2> QED BY <1>3, <1>5, <2>1
<1>15. Pages(u, c)[1] = p BY <1>11, <1>13 DEF m
<1>16. b = c => /\ Len(Pages(u, b)) = l
                /\ \A i \in 1..l - 1 : i < k => Pages(u, b)[i + 1] = A[i]
  <2> HAVE b = c
  <2>1. old = q BY DEF Left
  <2>2. Len(Pages(u, b)) = l BY <1>2, <1>5, <1>11, <1>13, <2>1
  <2>3. \A i \in 1..l - 1 : i < k => Pages(u, b)[i + 1] = A[i]
    <3> TAKE i \in 1..l - 1
    <3> HAVE i < k
    <3>1. Len(q) = l - 1 BY <1>5
    <3>2. ps[i + 1] = q[i] BY <1>11, <2>1, <3>1
    <3>3. Pages(u, b) = ps BY <1>13
    <3> QED BY <1>14, <3>2, <3>3
  <2> QED BY <2>2, <2>3
<1>17. b # c => /\ Len(Pages(u, b)) = l - 1 /\ Len(Pages(u, c)) = Len(Pages(s, c)) + 1
                /\ \A i \in 1..l - 1 : i < k => Pages(u, b)[i] = A[i]
                /\ \A i \in 1..Len(Pages(s, c)) : Pages(u, c)[i + 1] = Pages(s, c)[i]
  <2> HAVE b # c
  <2>1. old = Pages(s, c) BY DEF Left
  <2> QED BY <1>5, <1>11, <1>13, <1>14, <2>1
<1>18. GivenBefore(s, u, b, c, k) BY <1>12, <1>15, <1>16, <1>17 DEF GivenBefore, Handed
<1> QED BY <1>18 DEF u, ps

\* A buffer beside those that swap or hand over has its pages and bytes.
LEMMA SwapBeside ==
  ASSUME NEW s, Fine(s), NEW t, NEW b, NEW c, NEW k, NEW l, Swapped(s, t, b, k, c, l),
         NEW a \in Buffers, a # b, a # c
  PROVE  Pages(t, a) = Pages(s, a)
<1> DEFINE D == DOMAIN s.heap
           A == Pages(s, a)
           B == Pages(t, a)
<1>1. A \in Seq(D) BY SoundParts DEF Fine
<1>2. B \in Seq(D) /\ Len(B) = Len(A) /\ \A i \in 1..Len(A) : B[i] = A[i]
  BY DEF Swapped, Crossed
<1> HIDE DEF A, B, D
<1>3. A = B BY <1>1, <1>2
<1> QED BY <1>3 DEF A, B

\* A buffer beside is ready after the positions have moved, if its pages and positions have not.
LEMMA Beside ==
  ASSUME NEW s, Fine(s), NEW t, t.heap = s.heap, NEW w, NEW from, NEW to, Moved(t, w, from, to),
         NEW a \in Buffers, Pages(t, a) = Pages(s, a),
         from[a] = Begin(s, a), to[a] = End(s, a)
  PROVE  Intact(s, w, a)
<1>1. /\ w.heap = s.heap /\ Pages(w, a) = Pages(s, a)
      /\ Begin(w, a) = Begin(s, a) /\ End(w, a) = End(s, a)
  BY DEF Moved
<1> QED BY <1>1, HandedBeside

\* The start of a page within l pages: the page ends within them, too.
LEMMA PageFits ==
  ASSUME NEW x \in Nat, x % PageSize = 0, NEW l \in Nat, x < l * PageSize
  PROVE  (x \div PageSize) + 1 \in 1..l /\ x + PageSize <= l * PageSize
<1>1. x \div PageSize < l /\ x \div PageSize \in Nat BY QuotNat, QuotBelow
<1> DEFINE o == PageSize - 1
<1>2. o \in Offsets /\ o \in Nat /\ PageSize = o + 1 BY SizeIs DEF Offsets
<1> HIDE DEF o
<1>3. (x + o) \div PageSize = x \div PageSize BY <1>2, QuotAligned
<1> DEFINE y == x + o
<1>4. y \in Int /\ y \div PageSize < l BY <1>1, <1>2, <1>3
<1> HIDE DEF y
<1>5. y < l * PageSize BY <1>4, QuotBelow
<1>6. l * PageSize \in Nat BY RowSize
<1>7. x + PageSize <= l * PageSize BY ONLY <1>2, <1>5, <1>6, x \in Nat, SizeIs DEF y
<1> QED BY <1>1, <1>7

\* Two positions at the start of pages: one further by whole pages keeps its offset.
LEMMA AlignedSum ==
  ASSUME NEW x \in Int
  PROVE  (x + PageSize) % PageSize = x % PageSize /\ (x - PageSize) % PageSize = x % PageSize
BY QuotNext, QuotBefore

\* A whole page of b changes places with an unused one behind the bytes of c.
LEMMA SwapBehind ==
  ASSUME NEW s, Fine(s), NEW b \in Buffers, NEW c \in Buffers,
         Begin(s, b) # NoPosition, Begin(s, c) # NoPosition,
         Begin(s, b) % PageSize = 0, End(s, c) % PageSize = 0,
         End(s, b) - Begin(s, b) > PageSize, End(s, c) # Len(Pages(s, c)) * PageSize
  PROVE  GoneOn(s, PageBehind(s, b, c), b, c, PageSize)
<1> DEFINE x == Begin(s, b)
           y == End(s, c)
           k == (x \div PageSize) + 1
           l == (y \div PageSize) + 1
           n == Len(Pages(s, c))
           t == Swap(s, b, k, c, l)
           e == PageSize
           w == Advance(t, b, c, e)
           from == [a \in Buffers |-> IF a = b THEN Begin(t, a) + e ELSE Begin(t, a)]
           to == [a \in Buffers |-> IF a = c THEN End(t, a) + e ELSE End(t, a)]
<1>1. /\ Sound(s, {}) /\ Ready(s, b) /\ Ready(s, c)
      /\ x \in Nat /\ y \in Nat /\ End(s, b) \in Nat /\ Begin(s, c) \in Nat
      /\ Begin(s, c) <= y /\ y <= n * PageSize /\ End(s, b) <= Len(Pages(s, b)) * PageSize
      /\ \A z \in x..End(s, b) - 1 : ByteAt(s, b, z) \in Nat
      /\ \A z \in Begin(s, c)..y - 1 : ByteAt(s, c, z) \in Nat
      /\ n \in Nat /\ Len(Pages(s, b)) \in Nat
  BY ReadyParts, SoundParts DEF Fine
<1>2. /\ x + e < End(s, b) /\ x < End(s, b) /\ e \in Nat /\ e > 0
  BY <1>1, SizeIs
<1>3. k \in 1..Len(Pages(s, b))
  <2>1. x \in x..End(s, b) - 1 BY <1>1, <1>2
  <2> QED BY <1>1, <2>1, LivePage
<1>4. l \in 1..n /\ y + e <= n * PageSize
  <2>1. n * PageSize \in Nat BY <1>1, RowSize
  <2>0. y # n * PageSize /\ y \in Nat /\ y <= n * PageSize /\ y % PageSize = 0 BY <1>1
  <2> HIDE DEF y, n
  <2>2. y < n * PageSize BY ONLY <2>0, <2>1
  <2> QED BY <1>1, <2>0, <2>2, PageFits
<1>5. PageBehind(s, b, c) = w BY DEF PageBehind
<1>6. Swapped(s, t, b, k, c, l)
  <2> HIDE DEF k, l, n
  <2> QED BY <1>3, <1>4, SwapIs DEF n
<1> HIDE DEF t
<1>7. b = c => x # y BY <1>1, <1>2
<1>8. \A z \in x..x + e - 1 : ByteAt(s, b, z) \in Nat
  <2>1. \A z \in x..x + e - 1 : z \in x..End(s, b) - 1 BY <1>1, <1>2
  <2> QED BY <1>1, <2>1
<1>9. /\ CellsSwapped(s, t, b, c, x, y)
      /\ \A o \in Offsets : ByteAt(t, c, y + o) = ByteAt(s, b, x + o)
      /\ \A a \in Buffers : \A z \in Int :
              /\ (z \div PageSize) + 1 \in 1..Len(Pages(s, a))
              /\ a = b => z < x \/ z >= x + PageSize
              /\ a = c => z < y \/ z >= y + PageSize
              => ByteAt(t, a, z) = ByteAt(s, a, z)
  <2>1. x % PageSize = 0 /\ y % PageSize = 0 /\ l \in 1..Len(Pages(s, c)) BY <1>4
  <2> HIDE DEF x, y
  <2>2. CellsSwapped(s, t, b, c, x, y) BY <1>1, <1>3, <1>6, <1>7, <2>1, SwapCells
  <2> QED BY <2>2 DEF CellsSwapped
<1>10. /\ Sound(t, {}) /\ t.heap = s.heap
       /\ \A a \in Buffers : /\ Begin(t, a) = Begin(s, a) /\ End(t, a) = End(s, a)
                             /\ Len(Pages(t, a)) = Len(Pages(s, a))
  BY <1>6 DEF Swapped, Crossed
<1>11. Moved(t, w, from, to) BY <1>10, AdvanceIs DEF Sound
<1> HIDE DEF w
<1>12. /\ from[b] = x + e /\ to[c] = y + e
       /\ b # c => to[b] = End(s, b) /\ from[c] = Begin(s, c)
       /\ \A a \in Buffers : a # b /\ a # c => from[a] = Begin(s, a) /\ to[a] = End(s, a)
  BY <1>10
<1>13. \A a \in Buffers : Begin(w, a) = from[a] /\ End(w, a) = to[a] BY <1>11 DEF Moved
<1> HIDE DEF from, to
<1>14. Ready(w, c)
  <2>1. from[c] \in Nat /\ to[c] \in Nat /\ from[c] <= to[c] /\ from[c] >= Begin(s, c)
    BY <1>1, <1>2, <1>12
  <2>2. to[c] <= Len(Pages(t, c)) * PageSize BY <1>4, <1>10, <1>12
  <2>3. ASSUME NEW z \in from[c]..to[c] - 1 PROVE ByteAt(t, c, z) \in Nat
    <3>0. z \in Int /\ z >= from[c] /\ z <= y + e - 1 BY <1>1, <1>2, <1>12, <2>1
    <3>1. CASE z >= y
      <4> DEFINE o == z - y
      <4>1. o \in Offsets /\ z = y + o
        <5>1. y \in Nat /\ PageSize \in Nat BY <1>1, SizeIs
        <5> HIDE DEF y
        <5> QED BY ONLY <3>0, <3>1, <5>1 DEF Offsets, o, e
      <4>2. x + o \in x..x + e - 1
        <5> HIDE DEF o
        <5> QED BY <1>1, <1>2, <4>1, SMTT(30) DEF Offsets
      <4> HIDE DEF o
      <4> QED BY <1>8, <1>9, <4>1, <4>2
    <3>2. CASE z < y
      <4>1. z \in Begin(s, c)..y - 1 BY <1>1, <2>1, <3>0, <3>2
      <4>2. (z \div PageSize) + 1 \in 1..Len(Pages(s, c)) BY <1>1, <4>1, LivePage
      <4>3. c = b => z >= x + PageSize BY <1>12, <3>0
      <4>4. ByteAt(t, c, z) = ByteAt(s, c, z) BY <1>9, <3>0, <3>2, <4>2, <4>3
      <4> QED BY <1>1, <4>1, <4>4
    <3> QED BY <1>1, <3>0, <3>1, <3>2
  <2> QED BY <1>10, <1>11, <2>1, <2>2, <2>3, MovedKeeps
<1>15. ASSUME b # c PROVE Ready(w, b)
  <2>1. from[b] \in Nat /\ to[b] \in Nat /\ from[b] <= to[b] BY <1>1, <1>2, <1>12, <1>15
  <2>2. to[b] <= Len(Pages(t, b)) * PageSize BY <1>1, <1>10, <1>12, <1>15
  <2>3. ASSUME NEW z \in from[b]..to[b] - 1 PROVE ByteAt(t, b, z) \in Nat
    <3>1. z \in x..End(s, b) - 1 /\ z >= x + PageSize /\ z \in Int
      BY <1>1, <1>2, <1>12, <1>15, SizeIs
    <3>2. (z \div PageSize) + 1 \in 1..Len(Pages(s, b)) BY <1>1, <3>1, LivePage
    <3>3. ByteAt(t, b, z) = ByteAt(s, b, z) BY <1>9, <1>15, <3>1, <3>2
    <3> QED BY <1>1, <3>1, <3>3
  <2> QED BY <1>10, <1>11, <2>1, <2>2, <2>3, MovedKeeps
<1>16. ASSUME NEW a \in Buffers, a # b, a # c PROVE Intact(s, w, a)
  <2>1. Pages(t, a) = Pages(s, a) BY <1>6, <1>16, SwapBeside
  <2> QED BY <1>10, <1>11, <1>12, <1>16, <2>1, Beside
<1>17. Fine(w) BY <1>10, <1>11, <1>14, <1>15, <1>16, SoundMoved DEF Fine, Intact
<1>18. /\ Begin(w, b) = x + e /\ End(w, c) = y + e
       /\ b = c => End(w, b) = End(s, b) + e
       /\ b # c => End(w, b) = End(s, b) /\ Begin(w, c) = Begin(s, c)
       /\ \A a \in Buffers : a # b /\ a # c => Begin(w, a) = Begin(s, a) /\ End(w, a) = End(s, a)
  BY <1>12, <1>13
<1>19. Begin(w, b) # NoPosition /\ Begin(w, c) # NoPosition
  BY <1>1, <1>2, <1>18 DEF NoPosition
<1>20. End(w, b) - Begin(w, b) >= End(s, b) - Begin(s, b) - e
  BY <1>1, <1>2, <1>18
<1>21. \A a \in Buffers : \A z : ByteAt(w, a, z) = ByteAt(t, a, z) BY <1>10, <1>11, SoundMoved
<1>22. ASSUME NEW z \in x + e..End(s, b) - 1 PROVE ByteAt(w, b, z) = ByteAt(s, b, z)
  <2>1. z \in x..End(s, b) - 1 /\ z >= x + PageSize /\ z \in Int /\ (b = c => z < y)
    BY <1>1, <1>2, SizeIs
  <2>2. (z \div PageSize) + 1 \in 1..Len(Pages(s, b)) BY <1>1, <2>1, LivePage
  <2> QED BY <1>9, <1>21, <2>1, <2>2
<1>23. ASSUME b # c, NEW z \in Begin(s, c)..y - 1 PROVE ByteAt(w, c, z) = ByteAt(s, c, z)
  <2>1. z \in Int /\ z < y BY <1>1, <1>23
  <2>2. (z \div PageSize) + 1 \in 1..Len(Pages(s, c)) BY <1>1, <1>23, LivePage
  <2> QED BY <1>9, <1>21, <1>23, <2>1, <2>2
<1>24. \A i \in 0..e - 1 : ByteAt(w, c, y + i) = ByteAt(s, b, x + i) BY <1>9, <1>21 DEF Offsets
<1>25. Passed(s, w, b, c, e)
  <2>1. /\ e \in Nat /\ e <= End(s, b) - x /\ Ready(w, b) /\ Ready(w, c)
        /\ \A a \in Buffers : a # b /\ a # c => Text(w, a) = Text(s, a)
    BY <1>1, <1>2, <1>16, <1>17 DEF Fine, Intact
  <2> HIDE DEF e
  <2> QED BY <1>1, <1>18, <1>19, <1>22, <1>23, <1>24, <2>1, PassedHere
<1>26. GoneOn(s, w, b, c, e) BY <1>25, <1>17, <1>18, <1>19, <1>20 DEF GoneOn
<1> QED BY <1>5, <1>26

\* A whole page of b changes places with an unused one before the bytes of c.
LEMMA SwapBefore ==
  ASSUME NEW s, Fine(s), NEW b \in Buffers, NEW c \in Buffers,
         Begin(s, b) # NoPosition, Begin(s, c) # NoPosition,
         End(s, b) % PageSize = 0, Begin(s, c) % PageSize = 0,
         End(s, b) - Begin(s, b) > PageSize, Begin(s, c) # 0
  PROVE  GoneBack(s, PageBefore(s, b, c), b, c, PageSize)
<1> DEFINE x == End(s, b) - PageSize
           y == Begin(s, c) - PageSize
           k == (x \div PageSize) + 1
           l == (y \div PageSize) + 1
           t == Swap(s, b, k, c, l)
           e == PageSize
           w == Retreat(t, b, c, e)
           from == [a \in Buffers |-> IF a = c THEN Begin(t, a) - e ELSE Begin(t, a)]
           to == [a \in Buffers |-> IF a = b THEN End(t, a) - e ELSE End(t, a)]
<1>1. /\ Sound(s, {}) /\ Ready(s, b) /\ Ready(s, c)
      /\ Begin(s, b) \in Nat /\ End(s, b) \in Nat /\ Begin(s, c) \in Nat /\ End(s, c) \in Nat
      /\ Begin(s, c) <= End(s, c) /\ End(s, c) <= Len(Pages(s, c)) * PageSize
      /\ End(s, b) <= Len(Pages(s, b)) * PageSize
      /\ \A z \in Begin(s, b)..End(s, b) - 1 : ByteAt(s, b, z) \in Nat
      /\ \A z \in Begin(s, c)..End(s, c) - 1 : ByteAt(s, c, z) \in Nat
      /\ Len(Pages(s, c)) \in Nat /\ Len(Pages(s, b)) \in Nat
  BY ReadyParts, SoundParts DEF Fine
<1>2. /\ e \in Nat /\ e > 0 /\ x \in Nat /\ x > Begin(s, b) /\ x + e = End(s, b)
  BY <1>1, SizeIs
<1>3. Begin(s, c) >= e /\ y \in Nat /\ y + e = Begin(s, c)
  <2> DEFINE v == Begin(s, c)
             u == v \div PageSize
  <2>1. v \in Nat /\ u \in Nat /\ v = PageSize * u + 0 /\ v > 0 BY <1>1, Quot, QuotNat
  <2> HIDE DEF v, u
  <2>2. u >= 1 BY <2>1, SizeIs
  <2>3. u - 1 \in Nat /\ PageSize * (u - 1) \in Nat BY <2>2, SizeIs, <2>1, Z3
  <2>4. PageSize * u = PageSize * (u - 1) + PageSize BY <2>1, SizeIs, Z3
  <2>5. v >= e BY <2>1, <2>3, <2>4, SizeIs
  <2> QED BY <2>1, <2>5, SizeIs DEF v
<1>4. /\ (End(s, b) - 1) \div PageSize = x \div PageSize
      /\ (Begin(s, c) - 1) \div PageSize = y \div PageSize
      /\ x % PageSize = 0 /\ y % PageSize = 0
  <2> DEFINE o == PageSize - 1
  <2>1. o \in Offsets /\ o \in Int BY SizeIs DEF Offsets
  <2>2. x % PageSize = 0 /\ y % PageSize = 0 BY <1>1, AlignedSum
  <2>3. End(s, b) - 1 = x + o /\ Begin(s, c) - 1 = y + o BY <1>1, SizeIs
  <2> HIDE DEF x, y, o
  <2>4. (x + o) \div PageSize = x \div PageSize /\ (y + o) \div PageSize = y \div PageSize
    BY <1>2, <1>3, <2>1, <2>2, QuotAligned
  <2> QED BY <2>2, <2>3, <2>4
<1>5. PageBefore(s, b, c) = w BY <1>4 DEF PageBefore
<1>6. k \in 1..Len(Pages(s, b)) /\ l \in 1..Len(Pages(s, c))
  <2>1. x \in Begin(s, b)..End(s, b) - 1 BY <1>1, <1>2
  <2>2. k \in 1..Len(Pages(s, b)) BY <1>1, <2>1, LivePage
  <2> DEFINE m == Len(Pages(s, c))
  <2>3. m \in Nat /\ m * PageSize \in Nat BY <1>1, RowSize
  <2>4. y < m * PageSize BY <1>1, <1>2, <1>3, <2>3, SMTT(30)
  <2> HIDE DEF m, y
  <2>5. l \in 1..m BY <1>3, <1>4, <2>3, <2>4, PageFits
  <2> QED BY <2>2, <2>5 DEF m
<1>7. b = c => x # y BY <1>1, <1>2, <1>3
<1>8. Swapped(s, t, b, k, c, l)
  <2> HIDE DEF k, l
  <2> QED BY <1>6, SwapIs
<1> HIDE DEF t
<1>9. \A z \in x..x + e - 1 : ByteAt(s, b, z) \in Nat
  <2>1. Begin(s, b) \in Nat /\ End(s, b) \in Nat BY <1>1
  <2>2. \A z \in x..x + e - 1 : z \in Begin(s, b)..End(s, b) - 1 BY ONLY <1>2, <2>1
  <2> QED BY <1>1, <2>2
<1>10. /\ CellsSwapped(s, t, b, c, x, y)
       /\ \A o \in Offsets : ByteAt(t, c, y + o) = ByteAt(s, b, x + o)
       /\ \A a \in Buffers : \A z \in Int :
              /\ (z \div PageSize) + 1 \in 1..Len(Pages(s, a))
              /\ a = b => z < x \/ z >= x + PageSize
              /\ a = c => z < y \/ z >= y + PageSize
              => ByteAt(t, a, z) = ByteAt(s, a, z)
  <2> HIDE DEF x, y
  <2>1. CellsSwapped(s, t, b, c, x, y)
    BY <1>2, <1>3, <1>4, <1>6, <1>7, <1>8, SwapCells
  <2> QED BY <2>1 DEF CellsSwapped
<1>11. /\ Sound(t, {}) /\ t.heap = s.heap
       /\ \A a \in Buffers : /\ Begin(t, a) = Begin(s, a) /\ End(t, a) = End(s, a)
                             /\ Len(Pages(t, a)) = Len(Pages(s, a))
  BY <1>8 DEF Swapped, Crossed
<1>12. Moved(t, w, from, to) BY <1>11, RetreatIs DEF Sound
<1> HIDE DEF w
<1>13. /\ to[b] = x /\ from[c] = y
       /\ b # c => from[b] = Begin(s, b) /\ to[c] = End(s, c)
       /\ \A a \in Buffers : a # b /\ a # c => from[a] = Begin(s, a) /\ to[a] = End(s, a)
  BY <1>11
<1>14. \A a \in Buffers : Begin(w, a) = from[a] /\ End(w, a) = to[a] BY <1>12 DEF Moved
<1> HIDE DEF from, to
<1>15. Ready(w, c)
  <2>1. from[c] \in Nat /\ to[c] \in Nat /\ from[c] <= to[c] /\ to[c] <= End(s, c)
    <3>1. /\ Begin(s, b) \in Nat /\ End(s, b) \in Nat /\ Begin(s, c) \in Nat /\ End(s, c) \in Nat
          /\ Begin(s, c) <= End(s, c)
      BY <1>1
    <3>2. b = c => x > Begin(s, c) /\ x + e = End(s, c) BY <1>2
    <3>3. /\ from[c] = y /\ (b = c => to[c] = x) /\ (b # c => to[c] = End(s, c)) BY <1>13
    <3> HIDE DEF x, y, e
    <3> QED BY ONLY <1>2, <1>3, <3>1, <3>2, <3>3
  <2>2. to[c] <= Len(Pages(t, c)) * PageSize
    <3> DEFINE m == Len(Pages(s, c))
    <3>1. m * PageSize \in Nat /\ End(s, c) <= m * PageSize BY <1>1, RowSize
    <3> HIDE DEF m
    <3>2. to[c] <= m * PageSize BY <1>1, <2>1, <3>1
    <3> QED BY <1>11, <3>2 DEF m
  <2>3. ASSUME NEW z \in from[c]..to[c] - 1 PROVE ByteAt(t, c, z) \in Nat
    <3>0. z \in Int /\ z >= y /\ z <= to[c] - 1 BY <1>13, <2>1
    <3>1. CASE z < Begin(s, c)
      <4> DEFINE o == z - y
      <4>1. o \in Offsets /\ z = y + o
        <5>1. Begin(s, c) \in Nat /\ e = PageSize BY <1>1
        <5> HIDE DEF y, e
        <5> QED BY ONLY <5>1, <1>2, <1>3, <3>0, <3>1 DEF Offsets
      <4>2. x + o \in x..x + e - 1
        <5> HIDE DEF o, x
        <5> QED BY <1>2, <4>1 DEF Offsets
      <4> HIDE DEF o, x, y
      <4> QED BY <1>9, <1>10, <4>1, <4>2
    <3>2. CASE z >= Begin(s, c)
      <4>1. z \in Begin(s, c)..End(s, c) - 1 BY <1>1, <2>1, <3>0, <3>2
      <4>2. (z \div PageSize) + 1 \in 1..Len(Pages(s, c)) BY <1>1, <4>1, LivePage
      <4>3. c = b => z < x BY <1>1, <1>2, <1>13, <3>0
      <4>4. z >= y + PageSize BY <1>3, <3>2
      <4>5. ByteAt(t, c, z) = ByteAt(s, c, z) BY <1>10, <3>0, <4>2, <4>3, <4>4
      <4> QED BY <1>1, <4>1, <4>5
    <3> QED BY <1>1, <3>0, <3>1, <3>2
  <2> QED BY <1>11, <1>12, <2>1, <2>2, <2>3, MovedKeeps
<1>16. ASSUME b # c PROVE Ready(w, b)
  <2>1. from[b] \in Nat /\ to[b] \in Nat /\ from[b] <= to[b] /\ to[b] <= End(s, b)
    BY <1>1, <1>2, <1>13, <1>16, SMTT(30)
  <2>2. to[b] <= Len(Pages(t, b)) * PageSize
    <3> DEFINE m == Len(Pages(s, b))
    <3>1. m * PageSize \in Nat /\ End(s, b) <= m * PageSize BY <1>1, RowSize
    <3> HIDE DEF m
    <3>2. to[b] <= m * PageSize BY <1>1, <2>1, <3>1
    <3> QED BY <1>11, <3>2 DEF m
  <2>3. ASSUME NEW z \in from[b]..to[b] - 1 PROVE ByteAt(t, b, z) \in Nat
    <3>1. z \in Begin(s, b)..End(s, b) - 1 /\ z < x /\ z \in Int
      <4>1. Begin(s, b) \in Nat /\ End(s, b) \in Nat BY <1>1
      <4>2. from[b] = Begin(s, b) /\ to[b] = x BY <1>13, <1>16
      <4> HIDE DEF x, e
      <4> QED BY ONLY <4>1, <4>2, <1>2
    <3>2. (z \div PageSize) + 1 \in 1..Len(Pages(s, b)) BY <1>1, <3>1, LivePage
    <3>3. ByteAt(t, b, z) = ByteAt(s, b, z) BY <1>10, <1>16, <3>1, <3>2
    <3> QED BY <1>1, <3>1, <3>3
  <2> QED BY <1>11, <1>12, <2>1, <2>2, <2>3, MovedKeeps
<1>17. ASSUME NEW a \in Buffers, a # b, a # c PROVE Intact(s, w, a)
  <2>1. Pages(t, a) = Pages(s, a) BY <1>8, <1>17, SwapBeside
  <2> QED BY <1>11, <1>12, <1>13, <1>17, <2>1, Beside
<1>18. Fine(w) BY <1>11, <1>12, <1>15, <1>16, <1>17, SoundMoved DEF Fine, Intact
<1>19. /\ End(w, b) = x /\ Begin(w, c) = y
       /\ b = c => Begin(w, b) = Begin(s, b) - e
       /\ b # c => Begin(w, b) = Begin(s, b) /\ End(w, c) = End(s, c)
       /\ \A a \in Buffers : a # b /\ a # c => Begin(w, a) = Begin(s, a) /\ End(w, a) = End(s, a)
  BY <1>13, <1>14
<1>20. Begin(w, b) # NoPosition /\ Begin(w, c) # NoPosition
  BY <1>1, <1>3, <1>19 DEF NoPosition
<1>21. End(w, b) - Begin(w, b) >= End(s, b) - Begin(s, b) - e
  BY <1>1, <1>2, <1>19, SMTT(30)
<1>22. \A a \in Buffers : \A z : ByteAt(w, a, z) = ByteAt(t, a, z) BY <1>11, <1>12, SoundMoved
<1>23. /\ e = PageSize /\ Begin(w, c) + e = Begin(s, c) /\ End(w, b) + e = End(s, b)
       /\ Begin(w, b) \in Nat /\ Begin(w, c) \in Nat
       /\ b = c => End(w, c) = x
       /\ b # c => End(w, c) = End(s, c) /\ Begin(w, b) = Begin(s, b)
  BY <1>1, <1>2, <1>3, <1>19
<1>24. ASSUME NEW z \in Begin(w, c) + e..End(w, c) - 1 PROVE ByteAt(s, c, z) = ByteAt(w, c, z)
  <2>1. /\ z \in Begin(s, c)..End(s, c) - 1 /\ z \in Int /\ (b = c => z < x)
        /\ z >= y + PageSize
    <3>1. Begin(s, c) \in Nat /\ End(s, c) \in Nat /\ (b = c => x + e = End(s, c)) BY <1>1, <1>2
    <3> HIDE DEF x, y, e
    <3> QED BY <1>2, <1>3, <1>23, <3>1
  <2>2. (z \div PageSize) + 1 \in 1..Len(Pages(s, c)) BY <1>1, <2>1, LivePage
  <2> QED BY <1>10, <1>22, <2>1, <2>2
<1>25. ASSUME b # c, NEW z \in Begin(w, b)..End(w, b) - 1 PROVE ByteAt(s, b, z) = ByteAt(w, b, z)
  <2>1. z \in Begin(s, b)..End(s, b) - 1 /\ z \in Int /\ z < x
    <3>1. Begin(s, b) \in Nat /\ End(s, b) \in Nat /\ End(w, b) = x BY <1>1, <1>19
    <3> HIDE DEF x, e
    <3> QED BY <1>2, <1>23, <1>25, <3>1
  <2>2. (z \div PageSize) + 1 \in 1..Len(Pages(s, b)) BY <1>1, <2>1, LivePage
  <2> QED BY <1>10, <1>22, <1>25, <2>1, <2>2
<1>26. \A i \in 0..e - 1 : ByteAt(s, b, End(w, b) + i) = ByteAt(w, c, Begin(w, c) + i)
  BY <1>10, <1>19, <1>22 DEF Offsets
<1>27. Passed(w, s, c, b, e)
  <2>1. /\ e \in Nat /\ Ready(w, b) /\ Ready(w, c)
        /\ \A a \in Buffers : a # b /\ a # c => Text(s, a) = Text(w, a)
    BY <1>2, <1>17, <1>18 DEF Fine, Intact
  <2>2. e <= End(w, c) - Begin(w, c)
    <3>1. /\ Begin(s, b) \in Nat /\ End(s, b) \in Nat /\ Begin(s, c) \in Nat /\ End(s, c) \in Nat
          /\ Begin(s, c) <= End(s, c) /\ (b = c => x > Begin(s, c)) /\ x \in Nat
      BY <1>1, <1>2
    <3> HIDE DEF x, e
    <3> QED BY <1>23, <2>1, <3>1
  <2>3. /\ Begin(s, c) = Begin(w, c) + e /\ End(s, b) = End(w, b) + e
        /\ c # b => End(s, c) = End(w, c) /\ Begin(s, b) = Begin(w, b)
    BY <1>23
  <2> HIDE DEF e
  <2> QED BY <1>1, <1>20, <1>24, <1>25, <1>26, <2>1, <2>2, <2>3, PassedHere
<1>28. GoneBack(s, w, b, c, e) BY <1>27, <1>18, <1>19, <1>20, <1>21 DEF GoneBack
<1> QED BY <1>5, <1>28

\* A whole page of b is handed over behind the full pages of c.
LEMMA HandBehind ==
  ASSUME NEW s, Fine(s), NEW b \in Buffers, NEW c \in Buffers,
         Begin(s, b) # NoPosition, Begin(s, c) # NoPosition,
         Begin(s, b) % PageSize = 0, End(s, c) % PageSize = 0,
         End(s, b) - Begin(s, b) > PageSize, End(s, c) = Len(Pages(s, c)) * PageSize
  PROVE  GoneOn(s, PageBehind(s, b, c), b, c, PageSize)
<1> DEFINE A == Pages(s, b)
           x == Begin(s, b)
           y == End(s, c)
           v == End(s, b)
           k == (x \div PageSize) + 1
           n == Len(Pages(s, c))
           g == Len(A)
           q == Tail([A EXCEPT ![k] = Head(A)])
           t == SetPages(s, b, q)
           u == SetPages(t, c, Append(Pages(t, c), A[k]))
           m == Len(Pages(u, c))
           e == PageSize
           w == EndsPass(u, b, c)
           from == [a \in Buffers |-> Begin(u, a)]
           to == [a \in Buffers |-> IF b = c THEN End(u, a)
                                    ELSE IF a = b THEN End(u, a) - e
                                    ELSE IF a = c THEN End(u, a) + e ELSE End(u, a)]
<1>1. /\ Sound(s, {}) /\ Ready(s, b) /\ Ready(s, c)
      /\ \A z \in x..v - 1 : ByteAt(s, b, z) \in Nat
      /\ \A z \in Begin(s, c)..y - 1 : ByteAt(s, c, z) \in Nat
  BY ReadyParts DEF Fine
<1>2. /\ x \in Nat /\ y \in Nat /\ v \in Nat /\ Begin(s, c) \in Nat /\ n \in Nat /\ g \in Nat
      /\ Begin(s, c) <= y /\ y = n * PageSize /\ v <= g * PageSize
  BY ReadyParts, SoundParts DEF Fine
<1>3. /\ x + e < v /\ x < v /\ e \in Nat /\ e > 0
  BY <1>2, SizeIs
<1>4. k \in 1..g
  <2>1. x \in x..v - 1 BY <1>2, <1>3
  <2> QED BY <1>1, <1>2, <2>1, LivePage
<1>5. PageBehind(s, b, c) = w BY DEF PageBehind
<1>6. GivenBehind(s, u, b, c, k)
  <2> HIDE DEF k
  <2> QED BY <1>1, <1>4, GiveBehind
<1> HIDE DEF u, t, q
<1>7. /\ Sound(u, {}) /\ u.heap = s.heap
      /\ \A a \in Buffers : /\ Begin(u, a) = Begin(s, a) /\ End(u, a) = End(s, a)
                            /\ a # b /\ a # c => Pages(u, a) = Pages(s, a)
  BY <1>6 DEF GivenBehind
<1>8. ASSUME NEW z \in x..v - e - 1
      PROVE  ByteAt(u, b, z) \in Nat /\ ByteAt(u, b, z) = ByteAt(s, b, z + PageSize)
  <2> DEFINE i == (z \div PageSize) + 1
             r == z + PageSize
  <2>1. z \in Int /\ z >= x /\ r \in x..v - 1 /\ r \in Int BY <1>2, <1>3, SizeIs
  <2>2. (r \div PageSize) + 1 \in 1..g BY <1>1, <1>2, <2>1, LivePage
  <2>3. r \div PageSize = (z \div PageSize) + 1 /\ r % PageSize = z % PageSize
    BY <2>1, QuotNext
  <2>4. z \div PageSize >= x \div PageSize /\ x \div PageSize \in Nat /\ z \div PageSize \in Int
    BY <1>2, <2>1, QuotMono, QuotNat, Quot
  <2>5. i \in 1..g - 1 /\ i >= k /\ i = r \div PageSize
    <3> HIDE DEF g, r, x
    <3> QED BY <1>2, <2>2, <2>3, <2>4
  <2>6. Pages(u, b)[i] = A[i + 1] BY <1>6, <2>5 DEF GivenBehind
  <2>7. ByteAt(u, b, z) = u.heap[Pages(u, b)[i]][z % PageSize] BY DEF ByteAt, PageAt
  <2>8. ByteAt(s, b, r) = s.heap[A[(r \div PageSize) + 1]][r % PageSize] BY DEF ByteAt, PageAt
  <2> HIDE DEF i, r
  <2>9. ByteAt(u, b, z) = ByteAt(s, b, r) BY <1>7, <2>3, <2>5, <2>6, <2>7, <2>8
  <2> QED BY <1>1, <2>1, <2>9 DEF r
<1>9. m \in Nat /\ m >= 1 /\ (b = c => m = n) /\ (b # c => m = n + 1)
  <2>1. b = c => n >= 1 BY <1>2, <1>4
  <2>2. b = c => m = n BY <1>6 DEF GivenBehind
  <2>3. b # c => m = n + 1 BY <1>6 DEF GivenBehind
  <2> HIDE DEF m, n
  <2> QED BY <1>2, <2>1, <2>2, <2>3
<1>10. ASSUME NEW z \in Int, z >= (m - 1) * PageSize, z < m * PageSize
       PROVE  /\ ByteAt(u, c, z) \in Nat
              /\ ByteAt(u, c, z) = ByteAt(s, b, x + (z - (m - 1) * PageSize))
  <2> DEFINE j == m - 1
             h == j * PageSize
             o == z - h
             r == x + o
  <2>1. /\ (j + 1) * PageSize = h + PageSize /\ h \in Nat /\ h % PageSize = 0 /\ h \div PageSize = j
    <3>1. j \in Nat BY <1>9
    <3> HIDE DEF j
    <3> QED BY <3>1, RowSize
  <2>2. (j + 1) * PageSize = m * PageSize BY <1>9
  <2>3. o \in Offsets /\ o \in Nat /\ z = h + o
    <3> HIDE DEF h
    <3> QED BY <1>10, <2>1, <2>2, SizeIs DEF Offsets
  <2>4. r \in x..v - 1
    <3>1. o < PageSize BY <2>3, SizeIs DEF Offsets
    <3> HIDE DEF o, x, v
    <3> QED BY ONLY <1>2, <1>3, <2>3, <3>1
  <2> HIDE DEF o, h
  <2>5. z \div PageSize = j /\ z % PageSize = o BY <2>1, <2>3, QuotAligned
  <2>6. r \div PageSize = x \div PageSize /\ r % PageSize = o BY <1>2, <2>3, QuotAligned
  <2>7. Pages(u, c)[m] = A[k] BY <1>6 DEF GivenBehind
  <2>8. ByteAt(u, c, z) = u.heap[Pages(u, c)[j + 1]][o] BY <2>5 DEF ByteAt, PageAt
  <2>9. ByteAt(s, b, r) = s.heap[A[k]][o] BY <2>6 DEF ByteAt, PageAt
  <2>10. j + 1 = m BY <1>9
  <2> HIDE DEF r, j, m
  <2>11. ByteAt(u, c, z) = ByteAt(s, b, r) BY <1>7, <2>7, <2>8, <2>9, <2>10
  <2>12. ByteAt(u, c, z) = ByteAt(s, b, x + (z - (m - 1) * PageSize)) BY <2>11 DEF r, o, h, j
  <2> QED BY <1>1, <2>4, <2>11, <2>12
<1>11. ASSUME b # c, NEW z \in Begin(s, c)..y - 1
       PROVE  ByteAt(u, c, z) \in Nat /\ ByteAt(u, c, z) = ByteAt(s, c, z)
  <2>1. (z \div PageSize) + 1 \in 1..n BY <1>1, <1>2, <1>11, LivePage
  <2>2. Pages(u, c)[(z \div PageSize) + 1] = Pages(s, c)[(z \div PageSize) + 1]
    BY <1>6, <1>11, <2>1 DEF GivenBehind
  <2>3. ByteAt(u, c, z) = ByteAt(s, c, z) BY <1>7, <2>2 DEF ByteAt, PageAt
  <2> QED BY <1>1, <1>11, <2>3
<1>12. Moved(u, w, from, to) BY <1>2, <1>7, EndsPassIs DEF Sound
<1> HIDE DEF w
<1>13. /\ from[b] = x /\ from[c] = Begin(s, c)
       /\ b = c => to[b] = v /\ to[c] = y
       /\ b # c => to[b] = v - e /\ to[c] = y + e
       /\ \A a \in Buffers : a # b /\ a # c => from[a] = Begin(s, a) /\ to[a] = End(s, a)
  BY <1>7
<1>14. \A a \in Buffers : Begin(w, a) = from[a] /\ End(w, a) = to[a] BY <1>12 DEF Moved
<1> HIDE DEF from, to
<1>15. Ready(w, c)
  <2> DEFINE h == (m - 1) * PageSize
             f == m * PageSize
  <2>0. f = h + PageSize /\ h \in Nat /\ f \in Nat
    <3> DEFINE j == m - 1
    <3>1. j \in Nat /\ j + 1 = m BY <1>9
    <3> HIDE DEF j, m
    <3>2. (j + 1) * PageSize = j * PageSize + PageSize /\ j * PageSize \in Nat BY <3>1, RowSize
    <3>3. f = j * PageSize + PageSize BY <3>1, <3>2
    <3>4. h = j * PageSize BY DEF j
    <3> QED BY <3>2, <3>3, <3>4, SizeIs
  <2>1. to[c] = f /\ (b # c => h = y)
    <3>1. b = c => to[c] = f BY <1>2, <1>9, <1>13
    <3>2. b # c => m - 1 = n BY <1>2, <1>9
    <3>3. b # c => h = y BY <1>2, <3>2
    <3> HIDE DEF h, f
    <3> QED BY <1>13, <2>0, <3>1, <3>3
  <2>2. from[c] \in Nat /\ to[c] \in Nat /\ from[c] <= to[c]
    <3>1. x \in Nat /\ y \in Nat /\ v \in Nat /\ Begin(s, c) \in Nat /\ Begin(s, c) <= y BY <1>2
    <3> HIDE DEF x, y, v, e
    <3>2. from[c] = Begin(s, c) /\ (to[c] = y \/ to[c] = y + e) BY <1>13
    <3> QED BY ONLY <1>3, <3>1, <3>2
  <2>3. to[c] <= Len(Pages(u, c)) * PageSize
    <3> HIDE DEF f
    <3>1. to[c] <= f BY <2>1, <2>0
    <3> QED BY <3>1 DEF f
  <2>4. ASSUME NEW z \in from[c]..to[c] - 1 PROVE ByteAt(u, c, z) \in Nat
    <3>0. z \in Int /\ z < f /\ z >= from[c]
      <4> HIDE DEF f
      <4> QED BY <2>0, <2>1, <2>2
    <3>1. CASE z >= h
      <4> HIDE DEF m
      <4> QED BY <1>10, <3>0, <3>1
    <3>2. CASE z < h /\ b # c
      <4>1. z \in Begin(s, c)..y - 1
        <5> HIDE DEF h, f
        <5> QED BY <1>2, <1>13, <2>1, <3>0, <3>2
      <4> QED BY <1>11, <3>2, <4>1
    <3>3. CASE z < h /\ b = c
      <4>1. z \in x..v - e - 1
        <5>1. v = f /\ from[c] = x BY <1>13, <2>1, <3>3
        <5>2. x \in Nat /\ v \in Nat BY <1>2
        <5> HIDE DEF h, f, v, x
        <5> QED BY ONLY <1>3, <2>0, <3>0, <3>3, <5>1, <5>2
      <4> QED BY <1>8, <3>3, <4>1
    <3> QED BY <2>0, <3>0, <3>1, <3>2, <3>3
  <2> QED BY <1>7, <1>12, <2>2, <2>3, <2>4, MovedKeeps
<1>16. ASSUME b # c PROVE Ready(w, b)
  <2>1. from[b] \in Nat /\ to[b] \in Nat /\ from[b] <= to[b] BY <1>2, <1>3, <1>13, <1>16
  <2>2. to[b] <= Len(Pages(u, b)) * PageSize
    <3> DEFINE j == g - 1
    <3>1. j \in Nat /\ Len(Pages(u, b)) = j /\ g = j + 1
      <4>1. Len(Pages(u, b)) = g - 1 BY <1>6, <1>16 DEF GivenBehind
      <4> HIDE DEF g
      <4> QED BY <1>2, <1>4, <4>1
    <3>2. v <= (j + 1) * PageSize BY <1>2, <3>1
    <3> HIDE DEF j, g, v
    <3>3. (j + 1) * PageSize = j * PageSize + PageSize /\ j * PageSize \in Nat BY <3>1, RowSize
    <3>4. to[b] <= j * PageSize BY <1>2, <1>3, <1>13, <1>16, <3>2, <3>3
    <3> QED BY <3>1, <3>4
  <2>3. \A z \in from[b]..to[b] - 1 : ByteAt(u, b, z) \in Nat BY <1>8, <1>13, <1>16
  <2> QED BY <1>7, <1>12, <2>1, <2>2, <2>3, MovedKeeps
<1>17. ASSUME NEW a \in Buffers, a # b, a # c PROVE Intact(s, w, a)
  BY <1>7, <1>12, <1>13, <1>17, Beside
<1>18. Fine(w) BY <1>7, <1>12, <1>15, <1>16, <1>17, SoundMoved DEF Fine, Intact
<1>19. /\ Begin(w, b) = x /\ Begin(w, c) = Begin(s, c)
       /\ b = c => End(w, b) = v /\ End(w, c) = y
       /\ b # c => End(w, b) = v - e /\ End(w, c) = y + e
       /\ \A a \in Buffers : a # b /\ a # c => Begin(w, a) = Begin(s, a) /\ End(w, a) = End(s, a)
  BY <1>13, <1>14
<1>20. End(w, b) - Begin(w, b) >= v - x - e
  BY <1>2, <1>3, <1>19
<1>21. Begin(w, b) % PageSize = (x + e) % PageSize /\ End(w, c) % PageSize = (y + e) % PageSize
  <2>1. (x + e) % PageSize = x % PageSize /\ (y + e) % PageSize = y % PageSize
    BY <1>2, AlignedSum
  <2> QED BY <1>19, <2>1
<1> DEFINE h == (m - 1) * PageSize
           d == -e
<1>22. /\ h \in Int /\ m * PageSize = h + PageSize
       /\ b # c => h = y
       /\ b = c => h = v + d
  <2> DEFINE j == m - 1
             f == n * PageSize
  <2>1. j \in Nat /\ j + 1 = m /\ (b = c => n = j + 1 /\ v = y) /\ (b # c => n = j) /\ y = f
    BY <1>2, <1>9
  <2> HIDE DEF j, m, n, y, v
  <2>2. (j + 1) * PageSize = j * PageSize + PageSize /\ j * PageSize \in Nat BY <2>1, RowSize
  <2>3. h = j * PageSize BY DEF j
  <2>4. b # c => f = h BY <2>1, <2>3
  <2>5. b = c => f = h + PageSize BY <2>1, <2>2, <2>3
  <2>6. m * PageSize = h + PageSize BY <2>1, <2>2, <2>3
  <2>7. h \in Nat BY <2>2, <2>3
  <2> HIDE DEF h, f
  <2> QED BY <2>1, <2>4, <2>5, <2>6, <2>7, SizeIs
<1>23. \A a \in Buffers : \A z : ByteAt(w, a, z) = ByteAt(u, a, z) BY <1>7, <1>12, SoundMoved
<1>24. ASSUME NEW z \in x + e..v - 1 PROVE ByteAt(w, b, z + d) = ByteAt(s, b, z)
  <2>1. z + d \in x..v - e - 1 /\ (z + d) + PageSize = z
    <3>1. e = PageSize OBVIOUS
    <3> HIDE DEF e, x, v
    <3> QED BY <1>2, <1>3, <3>1
  <2> QED BY <1>8, <1>23, <2>1
<1>25. ASSUME NEW i \in 0..e - 1 PROVE ByteAt(w, c, h + i) = ByteAt(s, b, x + i)
  <2> DEFINE z == h + i
             f == m * PageSize
  <2>1. z \in Int /\ z >= h /\ z < f /\ z - h = i
    <3> HIDE DEF h, f
    <3>1. f = h + PageSize /\ h \in Int BY <1>22 DEF f
    <3> QED BY <3>1, SizeIs
  <2> HIDE DEF z
  <2>2. ByteAt(u, c, z) = ByteAt(s, b, x + (z - h))
    <3> HIDE DEF m
    <3> QED BY <1>10, <2>1
  <2> HIDE DEF h
  <2> QED BY <1>23, <2>1, <2>2 DEF z
<1>26. Passed(s, w, b, c, e)
  <2>1. /\ e \in Nat /\ d \in Int /\ e <= End(s, b) - Begin(s, b) /\ Ready(w, b) /\ Ready(w, c)
        /\ Begin(w, b) # NoPosition /\ Begin(w, c) # NoPosition
        /\ \A a \in Buffers : a # b /\ a # c => Text(w, a) = Text(s, a)
        /\ Begin(w, b) = Begin(s, b) + e + d /\ Begin(w, c) = Begin(s, c)
        /\ b = c => End(w, b) = End(s, b) + e + d
        /\ b # c => End(w, b) = End(s, b) + d /\ End(w, c) = End(s, c) + e
    BY <1>2, <1>3, <1>17, <1>18, <1>19 DEF Fine, Intact
  <2>2. \A z \in Begin(s, b) + e..End(s, b) - 1 : ByteAt(w, b, z + d) = ByteAt(s, b, z) BY <1>24
  <2>3. b # c => \A z \in Begin(s, c)..End(s, c) - 1 : ByteAt(w, c, z) = ByteAt(s, c, z)
    BY <1>11, <1>23
  <2>4. /\ b # c => \A i \in 0..e - 1 : ByteAt(w, c, End(s, c) + i) = ByteAt(s, b, Begin(s, b) + i)
        /\ b = c => \A i \in 0..e - 1 :
                     ByteAt(w, c, End(s, b) + d + i) = ByteAt(s, b, Begin(s, b) + i)
    <3> HIDE DEF h, d, e
    <3> QED BY <1>22, <1>25
  <2> HIDE DEF e, d
  <2>5. CASE b # c BY <1>1, <2>1, <2>2, <2>3, <2>4, <2>5, PassedOver
  <2>6. CASE b = c
    <3>1. Passed(s, w, b, b, e) BY <1>1, <2>1, <2>2, <2>4, <2>6, PassedRound
    <3> QED BY <2>6, <3>1
  <2> QED BY <2>5, <2>6
<1>27. GoneOn(s, w, b, c, e) BY <1>26, <1>18, <1>19, <1>20, <1>21 DEF GoneOn
<1> QED BY <1>5, <1>27

\* A whole page of b is handed over before the full pages of c.
LEMMA HandBefore ==
  ASSUME NEW s, Fine(s), NEW b \in Buffers, NEW c \in Buffers,
         Begin(s, b) # NoPosition, Begin(s, c) # NoPosition,
         End(s, b) % PageSize = 0, Begin(s, c) = 0,
         End(s, b) - Begin(s, b) > PageSize
  PROVE  GoneBack(s, PageBefore(s, b, c), b, c, PageSize)
<1> DEFINE A == Pages(s, b)
           x == End(s, b) - PageSize
           first == Begin(s, b)
           y == End(s, c)
           v == End(s, b)
           k == (x \div PageSize) + 1
           n == Len(Pages(s, c))
           g == Len(A)
           q == Front([A EXCEPT ![k] = Last(A)])
           t == SetPages(s, b, q)
           u == SetPages(t, c, <<A[k]>> \o Pages(t, c))
           m == Len(Pages(u, c))
           e == PageSize
           w == EndsPass(u, b, c)
           from == [a \in Buffers |-> Begin(u, a)]
           to == [a \in Buffers |-> IF b = c THEN End(u, a)
                                    ELSE IF a = b THEN End(u, a) - e
                                    ELSE IF a = c THEN End(u, a) + e ELSE End(u, a)]
<1>1. /\ Sound(s, {}) /\ Ready(s, b) /\ Ready(s, c)
      /\ \A z \in first..v - 1 : ByteAt(s, b, z) \in Nat
      /\ \A z \in Begin(s, c)..y - 1 : ByteAt(s, c, z) \in Nat
  BY ReadyParts DEF Fine
<1>2. /\ first \in Nat /\ y \in Nat /\ v \in Nat /\ n \in Nat /\ g \in Nat
      /\ y <= n * PageSize /\ v <= g * PageSize
  BY ReadyParts, SoundParts DEF Fine
<1>3. /\ x \in Nat /\ x + e = v /\ first < x /\ e \in Nat /\ e > 0
  BY <1>2, SizeIs
<1>4. /\ k \in 1..g /\ (v - 1) \div PageSize = x \div PageSize /\ x % PageSize = 0
      /\ x \div PageSize \in Nat
  <2>1. x \in first..v - 1 BY <1>2, <1>3
  <2>2. k \in 1..g BY <1>1, <1>2, <2>1, LivePage
  <2> DEFINE o == PageSize - 1
  <2>3. o \in Offsets /\ o \in Int BY SizeIs DEF Offsets
  <2>4. x % PageSize = 0 BY <1>2, AlignedSum
  <2>5. v - 1 = x + o BY <1>2, SizeIs
  <2> HIDE DEF x, o, v, g
  <2>6. (x + o) \div PageSize = x \div PageSize BY <1>3, <2>3, <2>4, QuotAligned
  <2>7. x \div PageSize \in Nat BY <1>3, QuotNat
  <2> QED BY <2>2, <2>4, <2>5, <2>6, <2>7
<1>5. PageBefore(s, b, c) = w BY <1>4 DEF PageBefore
<1>6. GivenBefore(s, u, b, c, k)
  <2> HIDE DEF k
  <2> QED BY <1>1, <1>4, GiveBefore
<1> HIDE DEF u, t, q
<1>7. /\ Sound(u, {}) /\ u.heap = s.heap
      /\ \A a \in Buffers : /\ Begin(u, a) = Begin(s, a) /\ End(u, a) = End(s, a)
                            /\ a # b /\ a # c => Pages(u, a) = Pages(s, a)
  BY <1>6 DEF GivenBefore
<1>8. ASSUME NEW z \in first..x - 1
      PROVE  /\ ByteAt(s, b, z) \in Nat /\ z \in Int
             /\ (z \div PageSize) + 1 \in 1..g - 1 /\ (z \div PageSize) + 1 < k
  <2>1. z \in first..v - 1 /\ z \in Int /\ z < x
    <3>1. first \in Nat /\ v \in Nat BY <1>2
    <3> HIDE DEF first, x, v, e
    <3> QED BY ONLY <1>3, <3>1
  <2>2. (z \div PageSize) + 1 \in 1..g
    <3>1. Len(Pages(s, b)) \in Nat /\ Ready(s, b) /\ z \in Begin(s, b)..End(s, b) - 1
      BY <1>1, <1>2, <2>1
    <3> QED BY ONLY <3>1, LivePage, Begin(s, b) # NoPosition
  <2>3. z \div PageSize < x \div PageSize
    <3> HIDE DEF x, first
    <3> QED BY <1>3, <1>4, <2>1, PageOrder
  <2>4. z \div PageSize \in Int BY <2>1, Quot
  <2>5. (z \div PageSize) + 1 \in 1..g - 1 /\ (z \div PageSize) + 1 < k
    <3> HIDE DEF x, g
    <3> QED BY <1>2, <1>4, <2>2, <2>3, <2>4 DEF k
  <2> QED BY <1>1, <2>1, <2>5
<1>9. m \in Nat /\ m >= 1 /\ (b = c => m = n) /\ (b # c => m = n + 1)
  <2>1. b = c => n >= 1 BY <1>2, <1>4
  <2>2. b = c => m = n BY <1>6 DEF GivenBefore
  <2>3. b # c => m = n + 1 BY <1>6 DEF GivenBefore
  <2> HIDE DEF m, n
  <2> QED BY <1>2, <2>1, <2>2, <2>3
<1>10. ASSUME NEW z \in Offsets
       PROVE  ByteAt(u, c, z) \in Nat /\ ByteAt(u, c, z) = ByteAt(s, b, x + z)
  <2> DEFINE r == x + z
             zero == 0
  <2>1. zero \in Int /\ zero % PageSize = 0 /\ zero \div PageSize = 0
        /\ z \in Nat /\ z < PageSize /\ zero + z = z
    BY SizeIs DEF Offsets
  <2>2. z \div PageSize = 0 /\ z % PageSize = z
    <3> HIDE DEF zero
    <3>1. (zero + z) \div PageSize = zero \div PageSize /\ (zero + z) % PageSize = z
      BY <2>1, QuotAligned
    <3> QED BY <2>1, <3>1
  <2>3. r \in first..v - 1
    <3> HIDE DEF x, first, v
    <3> QED BY ONLY <1>2, <1>3, <2>1
  <2>4. r \div PageSize = x \div PageSize /\ r % PageSize = z BY <1>3, <1>4, QuotAligned
  <2>5. Pages(u, c)[1] = A[k] BY <1>6 DEF GivenBefore
  <2>6. ByteAt(u, c, z) = u.heap[Pages(u, c)[0 + 1]][z] BY <2>2 DEF ByteAt, PageAt
  <2>7. ByteAt(s, b, r) = s.heap[A[k]][z] BY <2>4 DEF ByteAt, PageAt
  <2> HIDE DEF r
  <2>8. ByteAt(u, c, z) = ByteAt(s, b, r) BY <1>7, <2>5, <2>6, <2>7
  <2> QED BY <1>1, <2>3, <2>8 DEF r
<1>11. ASSUME NEW z \in Int, z >= PageSize, b # c => z - PageSize < y, b = c => z < v
       PROVE  ByteAt(u, c, z) \in Nat /\ ByteAt(u, c, z) = ByteAt(s, c, z - PageSize)
  <2> DEFINE r == z - PageSize
             i == (r \div PageSize) + 1
  <2>1. r \in Nat /\ r \in Int BY <1>11, SizeIs
  <2>2. r \div PageSize = (z \div PageSize) - 1 /\ r % PageSize = z % PageSize
        /\ z \div PageSize \in Int
    BY QuotBefore, Quot
  <2>3. (z \div PageSize) + 1 = i + 1 BY <2>2
  <2>4. ByteAt(u, c, z) = u.heap[Pages(u, c)[i + 1]][r % PageSize]
    BY <2>2, <2>3 DEF ByteAt, PageAt
  <2>5. CASE b = c
    <3>1. r \in first..x - 1
      <4>1. first = 0 /\ z < v BY <1>11, <2>5
      <4> HIDE DEF first, x, v
      <4> QED BY <1>2, <1>3, <1>11, <2>1, <4>1, SizeIs
    <3> HIDE DEF r
    <3>2. ByteAt(s, b, r) \in Nat /\ i \in 1..g - 1 /\ i < k BY <1>8, <3>1
    <3> HIDE DEF k
    <3>3. Pages(u, b)[i + 1] = A[i] BY <1>6, <2>5, <3>2 DEF GivenBefore
    <3>4. ByteAt(s, b, r) = s.heap[A[i]][r % PageSize] BY DEF ByteAt, PageAt
    <3> HIDE DEF i
    <3> QED BY <1>7, <2>4, <2>5, <3>2, <3>3, <3>4 DEF r
  <2>6. CASE b # c
    <3>1. r \in Begin(s, c)..y - 1 BY <1>2, <1>11, <2>1, <2>6
    <3> HIDE DEF r
    <3>2. ByteAt(s, c, r) \in Nat /\ i \in 1..n BY <1>1, <1>2, <3>1, LivePage
    <3>3. Pages(u, c)[i + 1] = Pages(s, c)[i] BY <1>6, <2>6, <3>2 DEF GivenBefore
    <3>4. ByteAt(s, c, r) = s.heap[Pages(s, c)[i]][r % PageSize] BY DEF ByteAt, PageAt
    <3> HIDE DEF i
    <3> QED BY <1>7, <2>4, <2>6, <3>2, <3>3, <3>4 DEF r
  <2> QED BY <2>5, <2>6
<1>12. Moved(u, w, from, to) BY <1>2, <1>7, EndsPassIs DEF Sound
<1> HIDE DEF w
<1>13. /\ from[b] = first /\ from[c] = 0
       /\ b = c => to[b] = v /\ to[c] = y
       /\ b # c => to[b] = v - e /\ to[c] = y + e
       /\ \A a \in Buffers : a # b /\ a # c => from[a] = Begin(s, a) /\ to[a] = End(s, a)
  BY <1>7
<1>14. \A a \in Buffers : Begin(w, a) = from[a] /\ End(w, a) = to[a] BY <1>12 DEF Moved
<1> HIDE DEF from, to
<1>15. Ready(w, c)
  <2>1. from[c] \in Nat /\ to[c] \in Nat /\ from[c] <= to[c]
    <3>1. y \in Nat /\ e \in Nat BY <1>2, <1>3
    <3>2. from[c] = 0 /\ (to[c] = y \/ to[c] = y + e) BY <1>13
    <3> HIDE DEF y, e
    <3> QED BY ONLY <3>1, <3>2
  <2>2. to[c] <= Len(Pages(u, c)) * PageSize
    <3>1. CASE b = c
      <4>1. to[c] = y /\ m * PageSize = n * PageSize BY <1>9, <1>13, <3>1
      <4> QED BY <1>2, <4>1
    <3>2. CASE b # c
      <4> DEFINE h == n * PageSize
      <4>1. (n + 1) * PageSize = h + PageSize /\ h \in Nat BY <1>2, RowSize
      <4>2. m * PageSize = (n + 1) * PageSize BY <1>9, <3>2
      <4>3. to[c] = y + e /\ y <= h BY <1>2, <1>13, <3>2
      <4> HIDE DEF h, y, m, n
      <4>4. to[c] <= m * PageSize BY <1>2, <4>1, <4>2, <4>3, SizeIs
      <4> QED BY <4>4 DEF m
    <3> QED BY <3>1, <3>2
  <2>3. ASSUME NEW z \in from[c]..to[c] - 1 PROVE ByteAt(u, c, z) \in Nat
    <3>0. z \in Nat /\ z < to[c] BY <1>13, <2>1
    <3>1. CASE z < PageSize
      <4>1. z \in Offsets BY <3>0, <3>1, SizeIs DEF Offsets
      <4> QED BY <1>10, <4>1
    <3>2. CASE z >= PageSize
      <4>1. b # c => z - PageSize < y
        <5> HAVE b # c
        <5>1. to[c] = y + PageSize /\ y \in Nat BY <1>2, <1>13
        <5> HIDE DEF y
        <5> QED BY <3>0, <5>1, SizeIs
      <4>2. b = c => z < v
        <5> HAVE b = c
        <5>1. to[c] = v BY <1>13
        <5> QED BY <3>0, <5>1
      <4> QED BY <1>11, <3>0, <3>2, <4>1, <4>2
    <3> QED BY <3>0, <3>1, <3>2, SizeIs
  <2> QED BY <1>7, <1>12, <2>1, <2>2, <2>3, MovedKeeps
<1>16. ASSUME b # c
       PROVE  Ready(w, b) /\ \A z \in first..x - 1 : ByteAt(u, b, z) = ByteAt(s, b, z)
  <2>0. from[b] = first /\ to[b] = x BY <1>13, <1>16
  <2>1. from[b] \in Nat /\ to[b] \in Nat /\ from[b] <= to[b]
    <3> HIDE DEF first, x
    <3> QED BY <1>2, <1>3, <2>0
  <2>2. to[b] <= Len(Pages(u, b)) * PageSize
    <3> DEFINE j == g - 1
    <3>1. j \in Nat /\ Len(Pages(u, b)) = j /\ g = j + 1
      <4>1. Len(Pages(u, b)) = g - 1 BY <1>6, <1>16 DEF GivenBefore
      <4> HIDE DEF g
      <4> QED BY <1>2, <1>4, <4>1
    <3>2. v <= (j + 1) * PageSize BY <1>2, <3>1
    <3> HIDE DEF j, g, v, x
    <3>3. (j + 1) * PageSize = j * PageSize + PageSize /\ j * PageSize \in Nat BY <3>1, RowSize
    <3>4. to[b] <= j * PageSize BY <1>2, <1>3, <2>0, <3>2, <3>3
    <3> QED BY <3>1, <3>4
  <2>3. ASSUME NEW z \in from[b]..to[b] - 1
        PROVE  ByteAt(u, b, z) \in Nat /\ ByteAt(u, b, z) = ByteAt(s, b, z)
    <3>1. z \in first..x - 1 BY <2>0
    <3>2. /\ ByteAt(s, b, z) \in Nat /\ (z \div PageSize) + 1 \in 1..g - 1
          /\ (z \div PageSize) + 1 < k
      BY <1>8, <3>1
    <3> HIDE DEF k
    <3>3. Pages(u, b)[(z \div PageSize) + 1] = A[(z \div PageSize) + 1]
      BY <1>6, <1>16, <3>2 DEF GivenBefore
    <3>4. ByteAt(u, b, z) = ByteAt(s, b, z) BY <1>7, <3>3 DEF ByteAt, PageAt
    <3> QED BY <3>2, <3>4
  <2>4. Ready(w, b) BY <1>7, <1>12, <2>1, <2>2, <2>3, MovedKeeps
  <2> QED BY <2>0, <2>3, <2>4
<1>17. ASSUME NEW a \in Buffers, a # b, a # c PROVE Intact(s, w, a)
  BY <1>7, <1>12, <1>13, <1>17, Beside
<1>18. Fine(w) BY <1>7, <1>12, <1>15, <1>16, <1>17, SoundMoved DEF Fine, Intact
<1>19. /\ Begin(w, b) = first /\ Begin(w, c) = 0
       /\ b = c => End(w, b) = v
       /\ b # c => End(w, b) = v - e
       /\ \A a \in Buffers : a # b /\ a # c => Begin(w, a) = Begin(s, a) /\ End(w, a) = End(s, a)
  BY <1>13, <1>14
<1>20. End(w, b) - Begin(w, b) >= v - first - e /\ Begin(w, b) # NoPosition
       /\ Begin(w, c) # NoPosition
  BY <1>2, <1>3, <1>19 DEF NoPosition
<1>21. End(w, b) % PageSize = (v - e) % PageSize /\ Begin(w, c) % PageSize = (0 - e) % PageSize
  <2>1. (v - e) % PageSize = v % PageSize BY <1>2, AlignedSum
  <2> DEFINE z == 0
  <2>2. z \in Int OBVIOUS
  <2> HIDE DEF z
  <2>3. (z - e) % PageSize = z % PageSize BY <2>2, AlignedSum
  <2> QED BY <1>19, <2>1, <2>3 DEF z
<1> DEFINE d == -e
<1>22. \A a \in Buffers : \A z : ByteAt(w, a, z) = ByteAt(u, a, z) BY <1>7, <1>12, SoundMoved
<1>23. /\ e = PageSize /\ d = -PageSize /\ e \in Nat /\ d \in Int
       /\ b = c => End(w, c) = v /\ first = 0
       /\ b # c => End(w, b) = x /\ End(w, c) = y + e
  <2>1. End(w, c) = to[c] /\ End(w, b) = to[b] BY <1>14
  <2>2. /\ b = c => to[c] = v /\ first = 0
        /\ b # c => to[b] = x /\ to[c] = y + e
    BY <1>13
  <2>3. e = PageSize /\ d = -PageSize /\ e \in Nat /\ d \in Int BY SizeIs
  <2> HIDE DEF e, d, x, y, v, first
  <2> QED BY <2>1, <2>2, <2>3
<1>24. ASSUME NEW z \in Begin(w, c) + e..End(w, c) - 1
       PROVE  ByteAt(s, c, z + d) = ByteAt(w, c, z)
  <2>1. /\ z \in Int /\ z >= PageSize /\ (b # c => z - PageSize < y) /\ (b = c => z < v)
        /\ z + d = z - PageSize
    <3>1. Begin(w, c) = 0 /\ y \in Nat /\ v \in Nat BY <1>2, <1>19
    <3> HIDE DEF y, v, e, d
    <3> QED BY <1>23, <3>1
  <2> HIDE DEF d, e
  <2> QED BY <1>11, <1>22, <2>1
<1>25. b # c => \A z \in Begin(w, b)..End(w, b) - 1 : ByteAt(s, b, z) = ByteAt(w, b, z)
  BY <1>16, <1>19, <1>22, <1>23
<1>26. ASSUME NEW i \in 0..e - 1 PROVE ByteAt(s, b, x + i) = ByteAt(w, c, Begin(w, c) + i)
  <2>1. i \in Offsets /\ Begin(w, c) + i = i BY <1>19 DEF Offsets
  <2> HIDE DEF x
  <2> QED BY <1>10, <1>22, <2>1
<1>27. Passed(w, s, c, b, e)
  <2>1. /\ Ready(w, b) /\ Ready(w, c)
        /\ \A a \in Buffers : a # b /\ a # c => Text(s, a) = Text(w, a)
    BY <1>17, <1>18 DEF Fine, Intact
  <2>2. /\ e <= End(w, c) - Begin(w, c)
        /\ Begin(s, c) = Begin(w, c) + e + d /\ Begin(s, b) = Begin(w, b)
        /\ b # c => End(s, c) = End(w, c) + d /\ End(s, b) = End(w, b) + e
        /\ b = c => End(s, c) = End(w, c) + e + d /\ End(w, b) + d = x
    <3>1. /\ y \in Nat /\ v \in Nat /\ first \in Nat /\ Begin(w, c) = 0 /\ Begin(w, b) = first
          /\ Begin(s, c) = 0 /\ Begin(s, b) = first /\ End(s, c) = y /\ End(s, b) = v
          /\ (b = c => y = v) /\ x \in Nat /\ x + e = v
      BY <1>2, <1>3, <1>19
    <3> HIDE DEF x, y, v, first, e, d
    <3>2. d = -e /\ e \in Nat BY <1>23 DEF d
    <3>3. CASE b # c BY <1>23, <3>1, <3>2, <3>3
    <3>4. CASE b = c
      <4>1. End(w, c) = v /\ End(w, b) = v /\ first = 0 /\ v \in Nat /\ y = v
        BY <1>23, <3>1, <3>4
      <4>2. v + d = x /\ 0 + e + d = 0 /\ v + e + d = v /\ e <= v - 0 BY ONLY <3>1, <3>2, <4>1
      <4> QED BY <3>1, <3>4, <4>1, <4>2
    <3> QED BY <3>3, <3>4
  <2>3. /\ b # c => \A i \in 0..e - 1 : ByteAt(s, b, End(w, b) + i) = ByteAt(w, c, Begin(w, c) + i)
        /\ b = c => \A i \in 0..e - 1 :
                     ByteAt(s, b, End(w, b) + d + i) = ByteAt(w, c, Begin(w, c) + i)
    <3> HIDE DEF x, d, e
    <3> QED BY <1>23, <1>26, <2>2
  <2> HIDE DEF e, d, x
  <2>4. CASE b # c BY <1>1, <1>20, <1>23, <1>24, <1>25, <2>1, <2>2, <2>3, <2>4, PassedOver
  <2>5. CASE b = c
    <3>1. Passed(w, s, c, c, e) BY <1>1, <1>20, <1>23, <1>24, <2>1, <2>2, <2>3, <2>5, PassedRound
    <3> QED BY <2>5, <3>1
  <2> QED BY <2>4, <2>5
<1>28. GoneBack(s, w, b, c, e) BY <1>27, <1>18, <1>19, <1>20, <1>21 DEF GoneBack
<1> QED BY <1>5, <1>28

\* A whole page moves, either way.
LEMMA PageBehindIs ==
  ASSUME NEW s, Fine(s), NEW b \in Buffers, NEW c \in Buffers,
         Begin(s, b) # NoPosition, Begin(s, c) # NoPosition,
         Begin(s, b) % PageSize = 0, End(s, c) % PageSize = 0,
         End(s, b) - Begin(s, b) > PageSize
  PROVE  GoneOn(s, PageBehind(s, b, c), b, c, PageSize)
BY SwapBehind, HandBehind

\* The same to the front.
LEMMA PageBeforeIs ==
  ASSUME NEW s, Fine(s), NEW b \in Buffers, NEW c \in Buffers,
         Begin(s, b) # NoPosition, Begin(s, c) # NoPosition,
         End(s, b) % PageSize = 0, Begin(s, c) % PageSize = 0,
         End(s, b) - Begin(s, b) > PageSize
  PROVE  GoneBack(s, PageBefore(s, b, c), b, c, PageSize)
BY SwapBefore, HandBefore

(*** The loops over bytes and pages. ***)

\* What the loops start with: bytes in b, positions in both.
Bound(s, b, c, n) ==
  Fine(s) /\ Begin(s, b) # NoPosition /\ Begin(s, c) # NoPosition /\ End(s, b) - Begin(s, b) >= n

\* Nothing has moved.
LEMMA GoneNone ==
  ASSUME NEW s, Fine(s), NEW b \in Buffers, NEW c \in Buffers,
         Begin(s, b) # NoPosition, Begin(s, c) # NoPosition
  PROVE  GoneOn(s, s, b, c, 0) /\ GoneBack(s, s, b, c, 0)
<1>1. /\ Begin(s, b) \in Int /\ End(s, b) \in Int /\ Begin(s, c) \in Int /\ End(s, c) \in Int
  BY ReadyParts DEF Fine
<1>2. \A x \in Int : x + 0 = x /\ x - 0 = x OBVIOUS
<1>3. /\ Begin(s, b) + 0 = Begin(s, b) /\ End(s, c) + 0 = End(s, c)
      /\ End(s, b) - 0 = End(s, b) /\ Begin(s, c) - 0 = Begin(s, c)
      /\ End(s, b) - Begin(s, b) >= End(s, b) - Begin(s, b) - 0
  BY <1>1, <1>2
<1>4. Passed(s, s, b, c, 0) /\ Passed(s, s, c, b, 0) BY PassedNone DEF Fine
<1> QED BY <1>3, <1>4 DEF GoneOn, GoneBack

\* What moves on, and then on, has moved on by both.
LEMMA GoneOnTwice ==
  ASSUME NEW s, Fine(s), NEW b \in Buffers, NEW c \in Buffers, NEW i \in Nat, NEW j \in Nat,
         Begin(s, b) # NoPosition, i + j <= End(s, b) - Begin(s, b),
         NEW t, GoneOn(s, t, b, c, i), NEW u, GoneOn(t, u, b, c, j)
  PROVE  GoneOn(s, u, b, c, i + j)
<1>1. /\ Begin(s, b) \in Int /\ End(s, b) \in Int /\ End(s, c) \in Int
      /\ Begin(t, b) \in Int /\ End(t, b) \in Int /\ End(t, c) \in Int
      /\ Begin(u, b) \in Int /\ End(u, b) \in Int
  BY ReadyParts DEF GoneOn, Fine
<1>2. End(u, b) - Begin(u, b) >= End(s, b) - Begin(s, b) - (i + j)
  <2>1. /\ End(t, b) - Begin(t, b) >= End(s, b) - Begin(s, b) - i
        /\ End(u, b) - Begin(u, b) >= End(t, b) - Begin(t, b) - j
    BY DEF GoneOn
  <2> QED BY ONLY <1>1, <2>1, i \in Nat, j \in Nat
<1>3. Begin(u, b) % PageSize = (Begin(s, b) + (i + j)) % PageSize
  <2> DEFINE x == Begin(t, b)
             y == Begin(s, b) + i
  <2>1. x \in Int /\ y \in Int /\ x % PageSize = y % PageSize BY <1>1 DEF GoneOn
  <2>2. Begin(u, b) % PageSize = (x + j) % PageSize BY DEF GoneOn
  <2>3. y + j = Begin(s, b) + (i + j) BY <1>1
  <2> HIDE DEF x, y
  <2>4. (x + j) % PageSize = (y + j) % PageSize
    <3>1. j \in Int OBVIOUS
    <3> QED BY <2>1, <3>1, QuotStep
  <2> QED BY <2>2, <2>3, <2>4
<1>4. End(u, c) % PageSize = (End(s, c) + (i + j)) % PageSize
  <2> DEFINE x == End(t, c)
             y == End(s, c) + i
  <2>1. x \in Int /\ y \in Int /\ x % PageSize = y % PageSize BY <1>1 DEF GoneOn
  <2>2. End(u, c) % PageSize = (x + j) % PageSize BY DEF GoneOn
  <2>3. y + j = End(s, c) + (i + j) BY <1>1
  <2> HIDE DEF x, y
  <2>4. (x + j) % PageSize = (y + j) % PageSize
    <3>1. j \in Int OBVIOUS
    <3> QED BY <2>1, <3>1, QuotStep
  <2> QED BY <2>2, <2>3, <2>4
<1>5. Passed(s, u, b, c, i + j)
  <2>1. Ready(s, b) /\ Ready(s, c) /\ Passed(s, t, b, c, i) /\ Passed(t, u, b, c, j)
    BY DEF GoneOn, Fine
  <2>2. i + j <= Len(Text(s, b)) BY <2>1, TextIs
  <2> QED BY <2>1, <2>2, PassedTwice
<1> QED BY <1>2, <1>3, <1>4, <1>5 DEF GoneOn

\* The same to the front.
LEMMA GoneBackTwice ==
  ASSUME NEW s, Fine(s), NEW b \in Buffers, NEW c \in Buffers, NEW i \in Nat, NEW j \in Nat,
         Begin(s, b) # NoPosition, i + j <= End(s, b) - Begin(s, b),
         NEW t, GoneBack(s, t, b, c, i), NEW u, GoneBack(t, u, b, c, j)
  PROVE  GoneBack(s, u, b, c, i + j)
<1> DEFINE d == -j
<1>0. d \in Int OBVIOUS
<1>1. /\ Begin(s, b) \in Int /\ End(s, b) \in Int /\ Begin(s, c) \in Int
      /\ Begin(t, b) \in Int /\ End(t, b) \in Int /\ Begin(t, c) \in Int
      /\ Begin(u, b) \in Int /\ End(u, b) \in Int
  BY ReadyParts DEF GoneBack, Fine
<1>2. End(u, b) - Begin(u, b) >= End(s, b) - Begin(s, b) - (i + j)
  <2>1. /\ End(t, b) - Begin(t, b) >= End(s, b) - Begin(s, b) - i
        /\ End(u, b) - Begin(u, b) >= End(t, b) - Begin(t, b) - j
    BY DEF GoneBack
  <2> QED BY ONLY <1>1, <2>1, i \in Nat, j \in Nat
<1>3. End(u, b) % PageSize = (End(s, b) - (i + j)) % PageSize
  <2> DEFINE x == End(t, b)
             y == End(s, b) - i
  <2>1. x \in Int /\ y \in Int /\ x % PageSize = y % PageSize BY <1>1 DEF GoneBack
  <2>2. End(u, b) % PageSize = (x - j) % PageSize BY DEF GoneBack
  <2>3. y + d = End(s, b) - (i + j) /\ x + d = x - j BY <1>1
  <2> HIDE DEF x, y, d
  <2>4. (x + d) % PageSize = (y + d) % PageSize BY <1>0, <2>1, QuotStep
  <2> QED BY <2>2, <2>3, <2>4
<1>4. Begin(u, c) % PageSize = (Begin(s, c) - (i + j)) % PageSize
  <2> DEFINE x == Begin(t, c)
             y == Begin(s, c) - i
  <2>1. x \in Int /\ y \in Int /\ x % PageSize = y % PageSize BY <1>1 DEF GoneBack
  <2>2. Begin(u, c) % PageSize = (x - j) % PageSize BY DEF GoneBack
  <2>3. y + d = Begin(s, c) - (i + j) /\ x + d = x - j BY <1>1
  <2> HIDE DEF x, y, d
  <2>4. (x + d) % PageSize = (y + d) % PageSize BY <1>0, <2>1, QuotStep
  <2> QED BY <2>2, <2>3, <2>4
<1>5. Passed(u, s, c, b, i + j)
  <2>1. /\ Ready(s, b) /\ Ready(u, b) /\ Ready(u, c)
        /\ Passed(u, t, c, b, j) /\ Passed(t, s, c, b, i)
    BY DEF GoneBack, Fine
  <2>2. Len(Text(s, b)) = End(s, b) - Begin(s, b) BY <2>1, TextIs
  <2>3. Len(Text(u, c)) \in Nat
    <3>1. Text(u, c) \in Seq(Nat) BY <2>1, TextIs
    <3> QED BY <3>1
  <2>4. j + i <= Len(Text(u, c)) /\ j + i = i + j
    <3>1. CASE b = c
      <4>1. Len(Text(t, b)) = Len(Text(u, b)) /\ Len(Text(s, b)) = Len(Text(t, b))
        BY <2>1, <3>1 DEF Passed, Rotated
      <4> QED BY <2>2, <3>1, <4>1
    <3>2. CASE b # c
      <4>1. Len(Text(t, c)) = Len(Text(u, c)) - j /\ i <= Len(Text(t, c))
        BY <2>1, <3>2 DEF Passed, Went
      <4> QED BY <2>3, <4>1
    <3> QED BY <3>1, <3>2
  <2>5. Passed(u, s, c, b, j + i) BY <2>1, <2>4, PassedTwice
  <2> QED BY <2>4, <2>5
<1> QED BY <1>2, <1>3, <1>4, <1>5 DEF GoneBack

\* n bytes, one after the other.
LEMMA BytesBehindIs ==
  ASSUME NEW b \in Buffers, NEW c \in Buffers, NEW n \in Nat, NEW s, Bound(s, b, c, n)
  PROVE  GoneOn(s, BytesBehind!Times(n, s, <<b, c>>), b, c, n)
<1>1. PICK g : /\ g[0] = s /\ BytesBehind!Times(n, s, <<b, c>>) = g[n]
               /\ \A k \in 1..n : g[k] = ByteBehind(g[k - 1], <<b, c>>[1], <<b, c>>[2])
  BY CountsUp, BytesBehind!Iterates
<1> DEFINE K == {k \in 0..n : GoneOn(s, g[k], b, c, k)}
<1>2. 0 \in K BY <1>1, GoneNone DEF Bound
<1>3. ASSUME NEW k \in 0..n - 1, k \in K PROVE k + 1 \in K
  <2> DEFINE t == g[k]
             u == ByteBehind(t, b, c)
  <2>1. g[k + 1] = u
    <3>1. k + 1 \in 1..n /\ (k + 1) - 1 = k OBVIOUS
    <3> QED BY <1>1, <3>1
  <2>2. GoneOn(s, t, b, c, k) BY <1>3
  <2> HIDE DEF t
  <2>3. /\ Fine(t) /\ Begin(t, b) # NoPosition /\ Begin(t, c) # NoPosition
        /\ End(t, b) - Begin(t, b) >= End(s, b) - Begin(s, b) - k
        /\ Begin(t, b) \in Int /\ End(t, b) \in Int /\ Begin(s, b) \in Int /\ End(s, b) \in Int
    BY <2>2, ReadyParts DEF GoneOn, Fine, Bound
  <2>4. End(t, b) - Begin(t, b) >= 1 BY <2>3 DEF Bound
  <2>5. GoneOn(t, u, b, c, 1) BY <2>3, <2>4, ByteBehindIs
  <2> HIDE DEF u
  <2> DEFINE one == 1
  <2>6. GoneOn(t, u, b, c, one) /\ one \in Nat /\ k \in Nat /\ Fine(s)
        /\ Begin(s, b) # NoPosition /\ k + one <= End(s, b) - Begin(s, b)
    BY <2>3, <2>5 DEF Bound
  <2> HIDE DEF one
  <2>7. GoneOn(s, u, b, c, k + one)
    BY ONLY <2>2, <2>6, GoneOnTwice, b \in Buffers, c \in Buffers
  <2>8. GoneOn(s, g[k + 1], b, c, k + 1) BY <2>1, <2>7 DEF one
  <2> QED BY <2>8
<1> HIDE DEF K
<1>4. n \in K BY <1>2, <1>3, CountingUp
<1> QED BY <1>1, <1>4 DEF K

\* The same to the front.
LEMMA BytesBeforeIs ==
  ASSUME NEW b \in Buffers, NEW c \in Buffers, NEW n \in Nat, NEW s, Bound(s, b, c, n)
  PROVE  GoneBack(s, BytesBefore!Times(n, s, <<b, c>>), b, c, n)
<1>1. PICK g : /\ g[0] = s /\ BytesBefore!Times(n, s, <<b, c>>) = g[n]
               /\ \A k \in 1..n : g[k] = ByteBefore(g[k - 1], <<b, c>>[1], <<b, c>>[2])
  BY CountsUp, BytesBefore!Iterates
<1> DEFINE K == {k \in 0..n : GoneBack(s, g[k], b, c, k)}
<1>2. 0 \in K BY <1>1, GoneNone DEF Bound
<1>3. ASSUME NEW k \in 0..n - 1, k \in K PROVE k + 1 \in K
  <2> DEFINE t == g[k]
             u == ByteBefore(t, b, c)
  <2>1. g[k + 1] = u
    <3>1. k + 1 \in 1..n /\ (k + 1) - 1 = k OBVIOUS
    <3> QED BY <1>1, <3>1
  <2>2. GoneBack(s, t, b, c, k) BY <1>3
  <2> HIDE DEF t
  <2>3. /\ Fine(t) /\ Begin(t, b) # NoPosition /\ Begin(t, c) # NoPosition
        /\ End(t, b) - Begin(t, b) >= End(s, b) - Begin(s, b) - k
        /\ Begin(t, b) \in Int /\ End(t, b) \in Int /\ Begin(s, b) \in Int /\ End(s, b) \in Int
    BY <2>2, ReadyParts DEF GoneBack, Fine, Bound
  <2>4. End(t, b) - Begin(t, b) >= 1 BY <2>3 DEF Bound
  <2>5. GoneBack(t, u, b, c, 1) BY <2>3, <2>4, ByteBeforeIs
  <2> HIDE DEF u
  <2> DEFINE one == 1
  <2>6. GoneBack(t, u, b, c, one) /\ one \in Nat /\ k \in Nat /\ Fine(s)
        /\ Begin(s, b) # NoPosition /\ k + one <= End(s, b) - Begin(s, b)
    BY <2>3, <2>5 DEF Bound
  <2> HIDE DEF one
  <2>7. GoneBack(s, u, b, c, k + one)
    BY ONLY <2>2, <2>6, GoneBackTwice, b \in Buffers, c \in Buffers
  <2>8. GoneBack(s, g[k + 1], b, c, k + 1) BY <2>1, <2>7 DEF one
  <2> QED BY <2>8
<1> HIDE DEF K
<1>4. n \in K BY <1>2, <1>3, CountingUp
<1> QED BY <1>1, <1>4 DEF K

\* Whole pages, multiplied.
LEMMA PagesOf ==
  ASSUME NEW k \in Nat
  PROVE  /\ k * PageSize \in Nat /\ (k * PageSize) % PageSize = 0
         /\ \A i \in 0..k - 1 : (i + 1) * PageSize = i * PageSize + PageSize
                              /\ (i + 1) * PageSize <= k * PageSize /\ i * PageSize \in Nat
<1>1. k * PageSize \in Nat /\ (k * PageSize) % PageSize = 0 BY RowSize
<1>2. ASSUME NEW i \in 0..k - 1
      PROVE  (i + 1) * PageSize = i * PageSize + PageSize /\ i * PageSize \in Nat
             /\ (i + 1) * PageSize <= k * PageSize
  <2>1. i \in Nat /\ (i + 1) * PageSize = i * PageSize + PageSize /\ i * PageSize \in Nat
    BY RowSize
  <2> DEFINE d == k - (i + 1)
  <2>2. d \in Nat /\ k = (i + 1) + d BY <2>1
  <2> HIDE DEF d
  <2>3. d * PageSize \in Nat BY <2>2, RowSize
  <2>4. ((i + 1) + d) * PageSize = (i + 1) * PageSize + d * PageSize BY <2>1, <2>2, SizeIs, Z3
  <2>5. (i + 1) * PageSize \in Nat BY <2>1, SizeIs
  <2>6. k * PageSize = (i + 1) * PageSize + d * PageSize BY <2>2, <2>4
  <2>7. (i + 1) * PageSize <= k * PageSize
    <3> DEFINE x == (i + 1) * PageSize
               y == d * PageSize
               z == k * PageSize
    <3>1. x \in Nat /\ y \in Nat /\ z = x + y BY <2>3, <2>5, <2>6
    <3> HIDE DEF x, y, z
    <3>2. x <= z BY <3>1
    <3> QED BY <3>2 DEF x, z
  <2> QED BY <2>1, <2>7
<1> QED BY <1>1, <1>2

\* Some pages further, or back, the offset is the same.
LEMMA PagesOn ==
  ASSUME NEW x \in Int, x % PageSize = 0, NEW k \in Nat
  PROVE  (x + k * PageSize) % PageSize = 0 /\ (x - k * PageSize) % PageSize = 0
<1> DEFINE y == k * PageSize
           z == 0
<1>1. y \in Int /\ y % PageSize = 0
  <2>1. k * PageSize \in Nat /\ (k * PageSize) % PageSize = 0 BY PagesOf
  <2> QED BY <2>1
<1>6. z \in Int /\ z = 0 OBVIOUS
<1>2. z % PageSize = 0 BY SizeIs
<1> HIDE DEF y, z
<1>3. (x + y) % PageSize = (z + y) % PageSize
  <2>1. x % PageSize = z % PageSize BY <1>2
  <2> QED BY ONLY <1>1, <1>6, <2>1, x \in Int, QuotStep
<1>4. (x - y) % PageSize = 0 BY <1>1, QuotDiff
<1>5. z + y = y BY <1>1, <1>6
<1> QED BY <1>1, <1>3, <1>4, <1>5 DEF y

\* k pages, one after the other, where more than these are left.
LEMMA PagesBehindIs ==
  ASSUME NEW b \in Buffers, NEW c \in Buffers, NEW n \in Nat, NEW s,
         Bound(s, b, c, n * PageSize + 1), Begin(s, b) % PageSize = 0, End(s, c) % PageSize = 0
  PROVE  GoneOn(s, PagesBehind!Times(n, s, <<b, c>>), b, c, n * PageSize)
<1>1. PICK g : /\ g[0] = s /\ PagesBehind!Times(n, s, <<b, c>>) = g[n]
               /\ \A k \in 1..n : g[k] = PageBehind(g[k - 1], <<b, c>>[1], <<b, c>>[2])
  BY CountsUp, PagesBehind!Iterates
<1> DEFINE K == {k \in 0..n : GoneOn(s, g[k], b, c, k * PageSize)}
<1>2. 0 \in K
  <2>1. 0 * PageSize = 0 BY SizeIs
  <2>2. GoneOn(s, g[0], b, c, 0) BY <1>1, GoneNone DEF Bound
  <2> QED BY <2>1, <2>2
<1>3. ASSUME NEW k \in 0..n - 1, k \in K PROVE k + 1 \in K
  <2> DEFINE t == g[k]
             u == PageBehind(t, b, c)
             h == k * PageSize
             f == (k + 1) * PageSize
             e == n * PageSize
  <2>0. f = h + PageSize /\ f <= e /\ h \in Nat /\ e \in Nat BY PagesOf
  <2>1. g[k + 1] = u
    <3>1. k + 1 \in 1..n /\ (k + 1) - 1 = k OBVIOUS
    <3> QED BY <1>1, <3>1
  <2>2. GoneOn(s, t, b, c, h) BY <1>3
  <2>3. (Begin(s, b) + h) % PageSize = 0 /\ (End(s, c) + h) % PageSize = 0
    <3>1. Begin(s, b) \in Int /\ End(s, c) \in Int /\ k \in Nat BY ReadyParts DEF Bound, Fine
    <3> QED BY <3>1, PagesOn
  <2>4. End(s, b) - Begin(s, b) >= e + 1 BY DEF Bound
  <2> HIDE DEF t, h, f, e
  <2>5. /\ Fine(t) /\ Begin(t, b) # NoPosition /\ Begin(t, c) # NoPosition
        /\ End(t, b) - Begin(t, b) >= End(s, b) - Begin(s, b) - h
        /\ Begin(t, b) % PageSize = 0 /\ End(t, c) % PageSize = 0
        /\ Begin(t, b) \in Int /\ End(t, b) \in Int /\ Begin(s, b) \in Int /\ End(s, b) \in Int
    BY <2>2, <2>3, ReadyParts DEF GoneOn, Fine, Bound
  <2>6. End(t, b) - Begin(t, b) > PageSize BY ONLY <2>0, <2>4, <2>5, SizeIs
  <2>7. GoneOn(t, u, b, c, PageSize) BY <2>5, <2>6, PageBehindIs
  <2> HIDE DEF u
  <2>8. /\ h \in Nat /\ PageSize \in Nat /\ Fine(s) /\ Begin(s, b) # NoPosition
        /\ h + PageSize <= End(s, b) - Begin(s, b)
    BY <2>0, <2>4, <2>5, SizeIs DEF Bound
  <2>9. GoneOn(s, u, b, c, h + PageSize)
    BY ONLY <2>2, <2>7, <2>8, GoneOnTwice, b \in Buffers, c \in Buffers
  <2>10. GoneOn(s, g[k + 1], b, c, (k + 1) * PageSize) BY <2>0, <2>1, <2>9 DEF f
  <2> QED BY <2>10
<1> HIDE DEF K
<1>4. n \in K BY <1>2, <1>3, CountingUp
<1> QED BY <1>1, <1>4 DEF K

\* The same to the front.
LEMMA PagesBeforeIs ==
  ASSUME NEW b \in Buffers, NEW c \in Buffers, NEW n \in Nat, NEW s,
         Bound(s, b, c, n * PageSize + 1), End(s, b) % PageSize = 0, Begin(s, c) % PageSize = 0
  PROVE  GoneBack(s, PagesBefore!Times(n, s, <<b, c>>), b, c, n * PageSize)
<1>1. PICK g : /\ g[0] = s /\ PagesBefore!Times(n, s, <<b, c>>) = g[n]
               /\ \A k \in 1..n : g[k] = PageBefore(g[k - 1], <<b, c>>[1], <<b, c>>[2])
  BY CountsUp, PagesBefore!Iterates
<1> DEFINE K == {k \in 0..n : GoneBack(s, g[k], b, c, k * PageSize)}
<1>2. 0 \in K
  <2>1. 0 * PageSize = 0 BY SizeIs
  <2>2. GoneBack(s, g[0], b, c, 0) BY <1>1, GoneNone DEF Bound
  <2> QED BY <2>1, <2>2
<1>3. ASSUME NEW k \in 0..n - 1, k \in K PROVE k + 1 \in K
  <2> DEFINE t == g[k]
             u == PageBefore(t, b, c)
             h == k * PageSize
             f == (k + 1) * PageSize
             e == n * PageSize
  <2>0. f = h + PageSize /\ f <= e /\ h \in Nat /\ e \in Nat BY PagesOf
  <2>1. g[k + 1] = u
    <3>1. k + 1 \in 1..n /\ (k + 1) - 1 = k OBVIOUS
    <3> QED BY <1>1, <3>1
  <2>2. GoneBack(s, t, b, c, h) BY <1>3
  <2>3. (End(s, b) - h) % PageSize = 0 /\ (Begin(s, c) - h) % PageSize = 0
    <3>1. End(s, b) \in Int /\ Begin(s, c) \in Int /\ k \in Nat BY ReadyParts DEF Bound, Fine
    <3> QED BY <3>1, PagesOn
  <2>4. End(s, b) - Begin(s, b) >= e + 1 BY DEF Bound
  <2> HIDE DEF t, h, f, e
  <2>5. /\ Fine(t) /\ Begin(t, b) # NoPosition /\ Begin(t, c) # NoPosition
        /\ End(t, b) - Begin(t, b) >= End(s, b) - Begin(s, b) - h
        /\ End(t, b) % PageSize = 0 /\ Begin(t, c) % PageSize = 0
        /\ Begin(t, b) \in Int /\ End(t, b) \in Int /\ Begin(s, b) \in Int /\ End(s, b) \in Int
    BY <2>2, <2>3, ReadyParts DEF GoneBack, Fine, Bound
  <2>6. End(t, b) - Begin(t, b) > PageSize BY ONLY <2>0, <2>4, <2>5, SizeIs
  <2>7. GoneBack(t, u, b, c, PageSize) BY <2>5, <2>6, PageBeforeIs
  <2> HIDE DEF u
  <2>8. /\ h \in Nat /\ PageSize \in Nat /\ Fine(s) /\ Begin(s, b) # NoPosition
        /\ h + PageSize <= End(s, b) - Begin(s, b)
    BY <2>0, <2>4, <2>5, SizeIs DEF Bound
  <2>9. GoneBack(s, u, b, c, h + PageSize)
    BY ONLY <2>2, <2>7, <2>8, GoneBackTwice, b \in Buffers, c \in Buffers
  <2>10. GoneBack(s, g[k + 1], b, c, (k + 1) * PageSize) BY <2>0, <2>1, <2>9 DEF f
  <2> QED BY <2>10
<1> HIDE DEF K
<1>4. n \in K BY <1>2, <1>3, CountingUp
<1> QED BY <1>1, <1>4 DEF K

\* The pages that move whole once a position is at the start of one: fewer bytes than there are.
LEMMA PagesToMove ==
  ASSUME NEW n \in Nat, NEW a \in Offsets, n > 2 * PageSize
  PROVE  /\ CeilDiv(n - a) - 1 \in Nat
         /\ (CeilDiv(n - a) - 1) * PageSize + 1 <= n - a
         /\ n - a - (CeilDiv(n - a) - 1) * PageSize \in Nat
         /\ (CeilDiv(n - a) - 1) * PageSize \in Nat
<1> DEFINE m == n - a
           d == CeilDiv(m)
           h == (d - 1) * PageSize
<1>1. a \in Nat /\ a < PageSize BY SizeIs DEF Offsets
<1>2. m \in Int /\ m > PageSize BY <1>1, SizeIs
<1> HIDE DEF m
<1>3. d \in Int /\ d * PageSize >= m /\ m > h BY <1>2, CeilIs
<1> HIDE DEF d
<1>4. d >= 1
  <2>1. SUFFICES ASSUME d <= 0 PROVE FALSE BY <1>3
  <2>2. -d \in Nat BY <1>3, <2>1
  <2>3. (-d) * PageSize \in Nat BY <2>2, RowSize
  <2>4. d * PageSize = -((-d) * PageSize) BY <1>3, SizeIs, Z3
  <2> DEFINE e == (-d) * PageSize
             f == d * PageSize
  <2>5. e \in Nat /\ f = -e /\ f >= m BY <1>3, <2>3, <2>4
  <2> HIDE DEF e, f
  <2> QED BY <1>2, <2>5, SizeIs
<1>5. d - 1 \in Nat BY <1>3, <1>4
<1>6. h \in Nat BY <1>5, RowSize
<1> HIDE DEF h
<1>7. h + 1 <= m /\ m - h \in Nat BY <1>2, <1>3, <1>6
<1> QED BY <1>5, <1>6, <1>7 DEF h, d, m

\* The bytes up to the next page: behind them a page starts.
LEMMA UpToPage ==
  ASSUME NEW x \in Int
  PROVE  (-x) % PageSize \in Offsets /\ (x + ((-x) % PageSize)) % PageSize = 0
<1> DEFINE m == -x
           a == m % PageSize
           z == 0
<1>1. m \in Int /\ z \in Int OBVIOUS
<1>2. m + x = 0 OBVIOUS
<1> HIDE DEF m
<1>3. a \in Offsets BY <1>1, Quot
<1>4. a \in Int /\ a = PageSize * 0 + a BY <1>3, SizeIs DEF Offsets
<1>7. m % PageSize = a OBVIOUS
<1> HIDE DEF a
<1>5. a % PageSize = a
  <2>1. a = PageSize * z + a BY <1>4
  <2> HIDE DEF z
  <2> QED BY ONLY <1>1, <1>3, <1>4, <2>1, QuotIs
<1>6. (m + x) % PageSize = (a + x) % PageSize
  <2>1. m % PageSize = a % PageSize BY <1>5, <1>7
  <2> QED BY ONLY <1>1, <1>4, <2>1, x \in Int, QuotStep
<1>8. 0 % PageSize = 0 BY SizeIs
<1>9. a + x = x + a BY <1>4
<1>10. (x + a) % PageSize = 0 BY <1>2, <1>6, <1>8, <1>9
<1> QED BY <1>3, <1>10 DEF a, m

\* The bytes back to the start of a page.
LEMMA BackToPage ==
  ASSUME NEW x \in Int
  PROVE  x % PageSize \in Offsets /\ (x - (x % PageSize)) % PageSize = 0
<1> DEFINE a == x % PageSize
           z == 0
<1>1. a \in Offsets BY Quot
<1>2. a \in Int /\ a = PageSize * 0 + a /\ z \in Int BY <1>1, SizeIs DEF Offsets
<1>3. x % PageSize = a OBVIOUS
<1> HIDE DEF a
<1>4. a % PageSize = a
  <2>1. a = PageSize * z + a BY <1>2
  <2> HIDE DEF z
  <2> QED BY ONLY <1>1, <1>2, <2>1, QuotIs
<1>5. (x - a) % PageSize = 0 BY <1>2, <1>3, <1>4, QuotDiff
<1> QED BY <1>1, <1>5 DEF a

\* Where two positions have one offset, they have one so many bytes on or back.
LEMMA SameOffset ==
  ASSUME NEW x \in Int, NEW y \in Int, (x - y) % PageSize = 0, NEW a \in Int
  PROVE  /\ (x + a) % PageSize = 0 => (y + a) % PageSize = 0
         /\ (x - a) % PageSize = 0 => (y - a) % PageSize = 0
<1>1. x % PageSize = y % PageSize BY QuotDiff
<1>2. (x + a) % PageSize = (y + a) % PageSize BY <1>1, QuotStep
<1> DEFINE d == -a
<1>3. d \in Int /\ x + d = x - a /\ y + d = y - a OBVIOUS
<1> HIDE DEF d
<1>4. (x + d) % PageSize = (y + d) % PageSize BY <1>1, <1>3, QuotStep
<1> QED BY <1>2, <1>3, <1>4

\* The bytes and pages that pop_front_to_other_back_n moves.
LEMMA AllBehindIs ==
  ASSUME NEW b \in Buffers, NEW c \in Buffers, NEW n \in Nat, NEW s, Bound(s, b, c, n)
  PROVE  GoneOn(s, AllBehind(s, b, c, n), b, c, n)
<1> DEFINE x == Begin(s, b)
           y == End(s, c)
           fast == (x - y) % PageSize = 0 /\ n > 2 * PageSize
           a == IF fast THEN (-x) % PageSize ELSE 0
           k == IF fast THEN CeilDiv(n - a) - 1 ELSE 0
           h == k * PageSize
           r == n - a - h
           u == BytesBehind!Times(a, s, <<b, c>>)
           t == PagesBehind!Times(k, u, <<b, c>>)
           v == BytesBehind!Times(r, t, <<b, c>>)
<1>0. v = AllBehind(s, b, c, n) BY DEF AllBehind
<1>1. Fine(s) /\ x \in Int /\ y \in Int /\ End(s, b) \in Int /\ End(s, b) - x >= n
  BY ReadyParts DEF Bound, Fine
<1>2. a \in Nat /\ k \in Nat /\ h \in Nat /\ r \in Nat /\ a <= n /\ (fast => h + 1 <= n - a)
  <2>1. CASE fast
    <3>1. a \in Offsets BY <1>1, <2>1, UpToPage
    <3>2. a \in Nat /\ a < PageSize BY <3>1, SizeIs DEF Offsets
    <3>3. k \in Nat /\ h + 1 <= n - a /\ r \in Nat /\ h \in Nat
      <4>1. k = CeilDiv(n - a) - 1 /\ n > 2 * PageSize BY <2>1
      <4> HIDE DEF a, fast, x, y
      <4> QED BY <3>1, <4>1, PagesToMove
    <3>4. a <= n BY <2>1, <3>2, SizeIs
    <3> QED BY <3>2, <3>3, <3>4
  <2>2. CASE ~fast
    <3>1. a = 0 /\ k = 0 BY <2>2
    <3> HIDE DEF a, k, fast
    <3>2. h = 0 BY <3>1, SizeIs
    <3> HIDE DEF h
    <3> QED BY <2>2, <3>1, <3>2
  <2> QED BY <2>1, <2>2
<1>3. fast => (x + a) % PageSize = 0 /\ (y + a) % PageSize = 0
  <2>1. SUFFICES ASSUME fast PROVE (x + a) % PageSize = 0 /\ (y + a) % PageSize = 0 OBVIOUS
  <2>2. (x - y) % PageSize = 0 /\ a = (-x) % PageSize BY <2>1
  <2>3. a \in Int BY <1>2
  <2> HIDE DEF a, x, y, fast
  <2>4. (x + a) % PageSize = 0 BY <1>1, <2>2, UpToPage
  <2> QED BY <1>1, <2>2, <2>3, <2>4, SameOffset
<1>4. GoneOn(s, u, b, c, a)
  <2> HIDE DEF a
  <2>1. Bound(s, b, c, a) BY <1>1, <1>2 DEF Bound
  <2> QED BY <1>2, <2>1, BytesBehindIs
<1>8. /\ Begin(s, b) = x /\ End(s, c) = y /\ (~fast => k = 0)
      /\ Begin(s, b) # NoPosition /\ Begin(s, c) # NoPosition
  BY DEF Bound
<1> HIDE DEF a, k, u, x, y, fast
<1>5. /\ Fine(u) /\ Begin(u, b) # NoPosition /\ Begin(u, c) # NoPosition
      /\ Begin(u, b) \in Int /\ End(u, b) \in Int
      /\ End(u, b) - Begin(u, b) >= n - a
      /\ fast => Begin(u, b) % PageSize = 0 /\ End(u, c) % PageSize = 0
  <2>1. /\ Fine(u) /\ Begin(u, b) # NoPosition /\ Begin(u, c) # NoPosition
        /\ Begin(u, b) \in Int /\ End(u, b) \in Int
        /\ End(u, b) - Begin(u, b) >= End(s, b) - x - a
        /\ Begin(u, b) % PageSize = (x + a) % PageSize
        /\ End(u, c) % PageSize = (y + a) % PageSize
    BY <1>4, <1>8, ReadyParts DEF GoneOn, Fine
  <2>2. End(u, b) - Begin(u, b) >= n - a BY ONLY <1>1, <1>2, <2>1
  <2> QED BY <1>3, <2>1, <2>2
<1>6. GoneOn(u, t, b, c, h)
  <2>1. CASE fast
    <3>1. Bound(u, b, c, h + 1)
      <4> HIDE DEF h
      <4> QED BY <1>2, <1>5, <2>1 DEF Bound
    <3> QED BY <1>2, <1>5, <2>1, <3>1, PagesBehindIs
  <2>2. CASE ~fast
    <3>1. k = 0 /\ h = 0 BY <1>8, <2>2, SizeIs
    <3>2. t = u
      <4>1. k \in Int /\ k <= 0 BY <3>1
      <4> QED BY ONLY <4>1, PagesBehind!NoTurn DEF t
    <3>3. GoneOn(u, u, b, c, 0) BY <1>5, GoneNone
    <3> QED BY <3>1, <3>2, <3>3
  <2> QED BY <2>1, <2>2
<1> HIDE DEF t, h
<1>7. GoneOn(t, v, b, c, r)
  <2>1. /\ Fine(t) /\ Begin(t, b) # NoPosition /\ Begin(t, c) # NoPosition
        /\ Begin(t, b) \in Int /\ End(t, b) \in Int
        /\ End(t, b) - Begin(t, b) >= End(u, b) - Begin(u, b) - h
    BY <1>6, ReadyParts DEF GoneOn, Fine
  <2>2. End(t, b) - Begin(t, b) >= r BY ONLY <1>2, <1>5, <2>1
  <2>3. Bound(t, b, c, r) BY <2>1, <2>2 DEF Bound
  <2> HIDE DEF r
  <2> QED BY <1>2, <2>3, BytesBehindIs
<1> HIDE DEF v
<1>9. GoneOn(s, t, b, c, a + h)
  <2>1. a \in Nat /\ h \in Nat /\ a + h <= End(s, b) - Begin(s, b) BY <1>1, <1>2, <1>8
  <2> QED BY ONLY <1>1, <1>4, <1>6, <1>8, <2>1, GoneOnTwice, b \in Buffers, c \in Buffers
<1>10. GoneOn(s, v, b, c, (a + h) + r)
  <2>1. a + h \in Nat /\ r \in Nat /\ (a + h) + r <= End(s, b) - Begin(s, b) BY <1>1, <1>2, <1>8
  <2> DEFINE i == a + h
  <2>2. GoneOn(s, t, b, c, i) /\ i \in Nat /\ i + r <= End(s, b) - Begin(s, b) BY <1>9, <2>1
  <2> HIDE DEF i, r
  <2>3. GoneOn(s, v, b, c, i + r)
    BY ONLY <1>1, <1>7, <1>8, <2>1, <2>2, GoneOnTwice, b \in Buffers, c \in Buffers
  <2> QED BY <2>3 DEF i
<1>11. (a + h) + r = n BY <1>2
<1> QED BY <1>0, <1>10, <1>11

\* The bytes and pages that pop_back_to_other_front_n moves.
LEMMA AllBeforeIs ==
  ASSUME NEW b \in Buffers, NEW c \in Buffers, NEW n \in Nat, NEW s, Bound(s, b, c, n)
  PROVE  GoneBack(s, AllBefore(s, b, c, n), b, c, n)
<1> DEFINE x == End(s, b)
           y == Begin(s, c)
           fast == (x - y) % PageSize = 0 /\ n > 2 * PageSize
           a == IF fast THEN x % PageSize ELSE 0
           k == IF fast THEN CeilDiv(n - a) - 1 ELSE 0
           h == k * PageSize
           r == n - a - h
           u == BytesBefore!Times(a, s, <<b, c>>)
           t == PagesBefore!Times(k, u, <<b, c>>)
           v == BytesBefore!Times(r, t, <<b, c>>)
<1>0. v = AllBefore(s, b, c, n) BY DEF AllBefore
<1>1. Fine(s) /\ x \in Int /\ y \in Int /\ Begin(s, b) \in Int /\ x - Begin(s, b) >= n
  BY ReadyParts DEF Bound, Fine
<1>2. a \in Nat /\ k \in Nat /\ h \in Nat /\ r \in Nat /\ a <= n /\ (fast => h + 1 <= n - a)
  <2>1. CASE fast
    <3>1. a \in Offsets BY <1>1, <2>1, BackToPage
    <3>2. a \in Nat /\ a < PageSize BY <3>1, SizeIs DEF Offsets
    <3>3. k \in Nat /\ h + 1 <= n - a /\ r \in Nat /\ h \in Nat
      <4>1. k = CeilDiv(n - a) - 1 /\ n > 2 * PageSize BY <2>1
      <4> HIDE DEF a, fast, x, y
      <4> QED BY <3>1, <4>1, PagesToMove
    <3>4. a <= n BY <2>1, <3>2, SizeIs
    <3> QED BY <3>2, <3>3, <3>4
  <2>2. CASE ~fast
    <3>1. a = 0 /\ k = 0 BY <2>2
    <3> HIDE DEF a, k, fast
    <3>2. h = 0 BY <3>1, SizeIs
    <3> HIDE DEF h
    <3> QED BY <2>2, <3>1, <3>2
  <2> QED BY <2>1, <2>2
<1>3. fast => (x - a) % PageSize = 0 /\ (y - a) % PageSize = 0
  <2>1. SUFFICES ASSUME fast PROVE (x - a) % PageSize = 0 /\ (y - a) % PageSize = 0 OBVIOUS
  <2>2. (x - y) % PageSize = 0 /\ a = x % PageSize BY <2>1
  <2>3. a \in Int BY <1>2
  <2> HIDE DEF a, x, y, fast
  <2>4. (x - a) % PageSize = 0 BY <1>1, <2>2, BackToPage
  <2> QED BY <1>1, <2>2, <2>3, <2>4, SameOffset
<1>4. GoneBack(s, u, b, c, a)
  <2> HIDE DEF a
  <2>1. Bound(s, b, c, a) BY <1>1, <1>2 DEF Bound
  <2> QED BY <1>2, <2>1, BytesBeforeIs
<1>8. /\ End(s, b) = x /\ Begin(s, c) = y /\ (~fast => k = 0)
      /\ Begin(s, b) # NoPosition /\ Begin(s, c) # NoPosition
  BY DEF Bound
<1> HIDE DEF a, k, u, x, y, fast
<1>5. /\ Fine(u) /\ Begin(u, b) # NoPosition /\ Begin(u, c) # NoPosition
      /\ Begin(u, b) \in Int /\ End(u, b) \in Int
      /\ End(u, b) - Begin(u, b) >= n - a
      /\ fast => End(u, b) % PageSize = 0 /\ Begin(u, c) % PageSize = 0
  <2>1. /\ Fine(u) /\ Begin(u, b) # NoPosition /\ Begin(u, c) # NoPosition
        /\ Begin(u, b) \in Int /\ End(u, b) \in Int
        /\ End(u, b) - Begin(u, b) >= x - Begin(s, b) - a
        /\ End(u, b) % PageSize = (x - a) % PageSize
        /\ Begin(u, c) % PageSize = (y - a) % PageSize
    BY <1>4, <1>8, ReadyParts DEF GoneBack, Fine
  <2>2. End(u, b) - Begin(u, b) >= n - a BY ONLY <1>1, <1>2, <2>1
  <2> QED BY <1>3, <2>1, <2>2
<1>6. GoneBack(u, t, b, c, h)
  <2>1. CASE fast
    <3>1. Bound(u, b, c, h + 1)
      <4> HIDE DEF h
      <4> QED BY <1>2, <1>5, <2>1 DEF Bound
    <3> QED BY <1>2, <1>5, <2>1, <3>1, PagesBeforeIs
  <2>2. CASE ~fast
    <3>1. k = 0 /\ h = 0 BY <1>8, <2>2, SizeIs
    <3>2. t = u
      <4>1. k \in Int /\ k <= 0 BY <3>1
      <4> QED BY ONLY <4>1, PagesBefore!NoTurn DEF t
    <3>3. GoneBack(u, u, b, c, 0) BY <1>5, GoneNone
    <3> QED BY <3>1, <3>2, <3>3
  <2> QED BY <2>1, <2>2
<1> HIDE DEF t, h
<1>7. GoneBack(t, v, b, c, r)
  <2>1. /\ Fine(t) /\ Begin(t, b) # NoPosition /\ Begin(t, c) # NoPosition
        /\ Begin(t, b) \in Int /\ End(t, b) \in Int
        /\ End(t, b) - Begin(t, b) >= End(u, b) - Begin(u, b) - h
    BY <1>6, ReadyParts DEF GoneBack, Fine
  <2>2. End(t, b) - Begin(t, b) >= r BY ONLY <1>2, <1>5, <2>1
  <2>3. Bound(t, b, c, r) BY <2>1, <2>2 DEF Bound
  <2> HIDE DEF r
  <2> QED BY <1>2, <2>3, BytesBeforeIs
<1> HIDE DEF v
<1>9. GoneBack(s, t, b, c, a + h)
  <2>1. a \in Nat /\ h \in Nat /\ a + h <= End(s, b) - Begin(s, b) BY <1>1, <1>2, <1>8
  <2> QED BY ONLY <1>1, <1>4, <1>6, <1>8, <2>1, GoneBackTwice, b \in Buffers, c \in Buffers
<1>10. GoneBack(s, v, b, c, (a + h) + r)
  <2>1. a + h \in Nat /\ r \in Nat /\ (a + h) + r <= End(s, b) - Begin(s, b) BY <1>1, <1>2, <1>8
  <2> DEFINE i == a + h
  <2>2. GoneBack(s, t, b, c, i) /\ i \in Nat /\ i + r <= End(s, b) - Begin(s, b) BY <1>9, <2>1
  <2> HIDE DEF i, r
  <2>3. GoneBack(s, v, b, c, i + r)
    BY ONLY <1>1, <1>7, <1>8, <2>1, <2>2, GoneBackTwice, b \in Buffers, c \in Buffers
  <2> QED BY <2>3 DEF i
<1>11. (a + h) + r = n BY <1>2
<1> QED BY <1>0, <1>10, <1>11

(*** check() and __shrink_size(). ***)

\* A buffer without bytes has no position.
Trim(s, a) == Begin(s, a) = NoPosition \/ Begin(s, a) < End(s, a)
\* The positions are the same.
Beheld(s, t, a) == Begin(t, a) = Begin(s, a) /\ End(t, a) = End(s, a)
\* n pages of b have gone, and no position has moved.
Emptied(s, t, b, n) ==
  /\ Fine(t) /\ SameTexts(s, t) /\ \A a \in Buffers : Beheld(s, t, a)
  /\ Len(Pages(t, b)) = Len(Pages(s, b)) - n
\* n pages before the bytes of b have gone.
Lowered(s, t, b, n) ==
  /\ Fine(t) /\ SameTexts(s, t) /\ \A a \in Buffers : a # b => Beheld(s, t, a)
  /\ Begin(t, b) # NoPosition /\ Begin(t, b) \div PageSize = (Begin(s, b) \div PageSize) - n
  /\ End(t, b) - Begin(t, b) = End(s, b) - Begin(s, b)
\* A range that a buffer can have with the pages it has.
Fits(s, b, from, to) ==
  \/ from = NoPosition /\ to = 0
  \/ /\ from \in Nat /\ to \in Nat /\ from <= to /\ to <= Len(Pages(s, b)) * PageSize
     /\ \A x \in from..to - 1 : ByteAt(s, b, x) \in Nat

\* A range that fits.
LEMMA RangeKeeps ==
  ASSUME NEW s, Fine(s), NEW b \in Buffers, NEW x, NEW y, Fits(s, b, x, y)
  PROVE  /\ Fine(SetRange(s, b, x, y)) /\ Ranged(s, SetRange(s, b, x, y), b, x, y)
         /\ \A a \in Buffers : a # b => Text(SetRange(s, b, x, y), a) = Text(s, a)
<1> DEFINE t == SetRange(s, b, x, y)
<1>1. Ranged(s, t, b, x, y) BY SetRangeIs DEF Fine, Sound
<1> HIDE DEF t
<1>2. Sound(t, {}) BY <1>1, SoundRanged DEF Fine
<1>3. ASSUME NEW a \in Buffers, a # b PROVE Intact(s, t, a)
  <2>1. /\ Pages(t, a) = Pages(s, a) /\ Begin(t, a) = Begin(s, a) /\ End(t, a) = End(s, a)
        /\ t.heap = s.heap
    BY <1>1, <1>3 DEF Ranged
  <2>2. Ready(s, a) /\ Len(Pages(s, a)) \in Nat BY SoundParts DEF Fine
  <2> QED BY <2>1, <2>2, SameKeeps
<1>4. Ready(t, b)
  <2>1. /\ Pages(t, b) = Pages(s, b) /\ Begin(t, b) = x /\ End(t, b) = y /\ t.heap = s.heap
    BY <1>1 DEF Ranged
  <2>2. \A z : ByteAt(t, b, z) = ByteAt(s, b, z) BY <2>1 DEF ByteAt, PageAt
  <2>3. CASE x = NoPosition BY <2>1, <2>3 DEF Ready, Fits, NoPosition
  <2>4. CASE x # NoPosition BY <2>1, <2>2, <2>4 DEF Ready, Fits
  <2> QED BY <2>3, <2>4
<1>5. Fine(t) BY <1>2, <1>3, <1>4 DEF Fine, Intact
<1>6. \A a \in Buffers : a # b => Text(t, a) = Text(s, a) BY <1>3 DEF Intact
<1> QED BY <1>1, <1>5, <1>6 DEF t

\* A buffer whose begin has come to its end has no bytes.
LEMMA NoText ==
  ASSUME NEW s, NEW a, Ready(s, a),
         Begin(s, a) = NoPosition \/ End(s, a) = 0 \/ Begin(s, a) >= End(s, a)
  PROVE  Text(s, a) = <<>>
<1>1. CASE Begin(s, a) = NoPosition BY <1>1, TextIs
<1>2. CASE Begin(s, a) # NoPosition
  <2>1. /\ Begin(s, a) \in Nat /\ End(s, a) \in Nat /\ Begin(s, a) <= End(s, a)
        /\ Text(s, a) \in Seq(Nat) /\ Len(Text(s, a)) = End(s, a) - Begin(s, a)
    BY <1>2, ReadyParts, TextIs
  <2>2. Len(Text(s, a)) = 0 BY <1>2, <2>1
  <2> QED BY <2>1, <2>2
<1> QED BY <1>1, <1>2

\* What check() leaves.
Checked(s, t, b) ==
  /\ Fine(t) /\ SameTexts(s, t) /\ Trim(t, b)
  /\ \A a \in Buffers : Pages(t, a) = Pages(s, a)
  /\ \A a \in Buffers : a # b \/ Trim(s, a) => Beheld(s, t, a)

\* check()
LEMMA CheckIs ==
  ASSUME NEW s, Fine(s), NEW b \in Buffers
  PROVE  Checked(s, Check(s, b), b)
<1> DEFINE none == Begin(s, b) = NoPosition \/ End(s, b) = 0 \/ Begin(s, b) >= End(s, b)
           x == NoPosition
           y == 0
           t == SetRange(s, b, x, y)
<1>1. CASE none
  <2>1. Fits(s, b, x, y) BY DEF Fits
  <2>2. Check(s, b) = t BY <1>1 DEF Check
  <2>3. x = NoPosition /\ y = 0 OBVIOUS
  <2>4. Trim(s, b) => Begin(s, b) = x /\ End(s, b) = y
    <3>1. Ready(s, b) BY DEF Fine
    <3>2. Begin(s, b) # NoPosition => Begin(s, b) \in Nat /\ End(s, b) \in Nat
      BY <3>1, ReadyParts
    <3>3. Begin(s, b) = NoPosition => End(s, b) = 0 BY <3>1, ReadyParts
    <3> QED BY <1>1, <3>2, <3>3 DEF Trim
  <2> HIDE DEF x, y, none
  <2>5. /\ Fine(t) /\ Ranged(s, t, b, x, y)
        /\ \A a \in Buffers : a # b => Text(t, a) = Text(s, a)
    BY <2>1, RangeKeeps
  <2> HIDE DEF t
  <2>6. Trim(t, b) /\ Begin(t, b) = NoPosition BY <2>3, <2>5 DEF Trim, Ranged
  <2>7. Text(s, b) = <<>> /\ Text(t, b) = <<>>
    <3>1. Ready(s, b) /\ Ready(t, b) BY <2>5 DEF Fine
    <3> QED BY <1>1, <2>6, <3>1, NoText DEF none
  <2>8. SameTexts(s, t) BY <2>5, <2>7 DEF SameTexts
  <2> QED BY <2>2, <2>4, <2>5, <2>6, <2>8 DEF Checked, Ranged, Beheld
<1>2. CASE ~none
  <2>1. Check(s, b) = s BY <1>2 DEF Check
  <2>2. Begin(s, b) \in Int /\ End(s, b) \in Int BY ReadyParts DEF Fine
  <2>3. Trim(s, b) BY <1>2, <2>2 DEF Trim
  <2> QED BY <2>1, <2>3 DEF Checked, Beheld, SameTexts
<1> QED BY <1>1, <1>2

\* An empty buffer gives its first pages back.
LEMMA FrontReleasesIs ==
  ASSUME NEW b \in Buffers, NEW s, Fine(s), Begin(s, b) = NoPosition,
         NEW n \in Nat, n <= Len(Pages(s, b))
  PROVE  Emptied(s, FrontReleases!Times(n, s, b), b, n)
<1>1. PICK g : /\ g[0] = s /\ FrontReleases!Times(n, s, b) = g[n]
               /\ \A k \in 1..n : g[k] = ReleaseFront(g[k - 1], b)
  BY ONLY FrontReleases!Iterates, CountsUp, n \in Nat
<1> DEFINE K == {k \in 0..n : Emptied(s, g[k], b, k)}
<1>0. Len(Pages(s, b)) \in Nat BY SoundParts DEF Fine
<1>2. 0 \in K BY <1>0, <1>1 DEF Emptied, Beheld, SameTexts
<1>3. ASSUME NEW k \in 0..n - 1, k \in K PROVE k + 1 \in K
  <2> DEFINE t == g[k]
             u == ReleaseFront(t, b)
  <2>1. g[k + 1] = u
    <3>1. k + 1 \in 1..n /\ (k + 1) - 1 = k OBVIOUS
    <3> QED BY <1>1, <3>1
  <2>2. Emptied(s, t, b, k) BY <1>3
  <2> HIDE DEF t
  <2>3. Fine(t) /\ Begin(t, b) = NoPosition /\ Len(Pages(t, b)) = Len(Pages(s, b)) - k
    BY <2>2 DEF Emptied, Beheld
  <2>4. Pages(t, b) # <<>>
    <3>1. Len(Pages(t, b)) > 0 BY <1>0, <2>3
    <3> QED BY <3>1
  <2>5. Shrunk(t, u, b, 0) BY <2>3, <2>4, ReleaseFrontKeeps
  <2> HIDE DEF u
  <2>6. ASSUME NEW a \in Buffers PROVE Beheld(s, u, a)
    <3>1. Begin(t, a) \in Int /\ End(t, a) \in Int BY <2>3, ReadyParts DEF Fine
    <3> QED BY <2>2, <2>5, <3>1 DEF Emptied, Beheld, Shrunk, Shifted
  <2>9. SameTexts(s, u) BY <2>2, <2>5 DEF Emptied, Shrunk, SameTexts
  <2>7. Emptied(s, u, b, k + 1) BY <1>0, <2>3, <2>5, <2>6, <2>9 DEF Emptied, Shrunk
  <2> QED BY <2>1, <2>7
<1> HIDE DEF K
<1>4. n \in K BY <1>2, <1>3, CountingUp
<1> QED BY <1>1, <1>4 DEF K

\* A buffer gives the pages after the one of end back.
LEMMA BackReleasesIs ==
  ASSUME NEW b \in Buffers, NEW s, Fine(s), Begin(s, b) # NoPosition,
         NEW n \in Nat, n <= Len(Pages(s, b)) - ((End(s, b) \div PageSize) + 1)
  PROVE  Emptied(s, BackReleases!Times(n, s, b), b, n)
<1>1. PICK g : /\ g[0] = s /\ BackReleases!Times(n, s, b) = g[n]
               /\ \A k \in 1..n : g[k] = ReleaseBack(g[k - 1], b)
  BY ONLY BackReleases!Iterates, CountsUp, n \in Nat
<1> DEFINE K == {k \in 0..n : Emptied(s, g[k], b, k)}
           q == End(s, b) \div PageSize
<1>0. Len(Pages(s, b)) \in Nat /\ q \in Int
  <2>1. Len(Pages(s, b)) \in Nat BY SoundParts DEF Fine
  <2>2. End(s, b) \in Int BY ReadyParts DEF Fine
  <2> QED BY <2>1, <2>2, Quot
<1>2. 0 \in K BY <1>0, <1>1 DEF Emptied, Beheld, SameTexts
<1>3. ASSUME NEW k \in 0..n - 1, k \in K PROVE k + 1 \in K
  <2> DEFINE t == g[k]
             u == ReleaseBack(t, b)
  <2>1. g[k + 1] = u
    <3>1. k + 1 \in 1..n /\ (k + 1) - 1 = k OBVIOUS
    <3> QED BY <1>1, <3>1
  <2>2. Emptied(s, t, b, k) BY <1>3
  <2> HIDE DEF t
  <2>3. /\ Fine(t) /\ Begin(t, b) # NoPosition /\ Len(Pages(t, b)) = Len(Pages(s, b)) - k
        /\ End(t, b) \div PageSize = q
    BY <2>2 DEF Emptied, Beheld
  <2>8. n <= Len(Pages(s, b)) - (q + 1) OBVIOUS
  <2> HIDE DEF q
  <2>4. Len(Pages(t, b)) > (End(t, b) \div PageSize) + 1 BY <1>0, <2>3, <2>8
  <2>5. Shrunk(t, u, b, 0) BY <2>3, <2>4, ReleaseBackKeeps
  <2> HIDE DEF u
  <2>6. ASSUME NEW a \in Buffers PROVE Beheld(s, u, a)
    <3>1. Begin(t, a) \in Int /\ End(t, a) \in Int BY <2>3, ReadyParts DEF Fine
    <3> QED BY <2>2, <2>5, <3>1 DEF Emptied, Beheld, Shrunk, Shifted
  <2>9. SameTexts(s, u) BY <2>2, <2>5 DEF Emptied, Shrunk, SameTexts
  <2>7. Emptied(s, u, b, k + 1) BY <1>0, <2>3, <2>5, <2>6, <2>9 DEF Emptied, Shrunk
  <2> QED BY <2>1, <2>7
<1> HIDE DEF K
<1>4. n \in K BY <1>2, <1>3, CountingUp
<1> QED BY <1>1, <1>4 DEF K

\* A buffer gives the pages before its bytes back.
LEMMA ReleasesBeforeIs ==
  ASSUME NEW b \in Buffers, NEW s, Fine(s), Begin(s, b) # NoPosition,
         NEW n \in Nat, n <= Begin(s, b) \div PageSize
  PROVE  Lowered(s, ReleasesBefore!Times(n, s, b), b, n)
<1>1. PICK g : /\ g[0] = s /\ ReleasesBefore!Times(n, s, b) = g[n]
               /\ \A k \in 1..n : g[k] = ReleaseBefore(g[k - 1], b)
  BY CountsUp, ReleasesBefore!Iterates
<1> DEFINE K == {k \in 0..n : Lowered(s, g[k], b, k)}
           q == Begin(s, b) \div PageSize
<1>0. Begin(s, b) \in Int /\ End(s, b) \in Int /\ q \in Int
  <2>1. Begin(s, b) \in Int /\ End(s, b) \in Int BY ReadyParts DEF Fine
  <2> QED BY <2>1, Quot
<1>2. 0 \in K BY <1>0, <1>1 DEF Lowered, Beheld, SameTexts
<1>3. ASSUME NEW k \in 0..n - 1, k \in K PROVE k + 1 \in K
  <2> DEFINE t == g[k]
             u == ReleaseBefore(t, b)
  <2>1. g[k + 1] = u
    <3>1. k + 1 \in 1..n /\ (k + 1) - 1 = k OBVIOUS
    <3> QED BY <1>1, <3>1
  <2>2. Lowered(s, t, b, k) BY <1>3
  <2> HIDE DEF t
  <2>3. /\ Fine(t) /\ Begin(t, b) # NoPosition /\ Begin(t, b) \div PageSize = q - k
        /\ Begin(t, b) \in Int /\ End(t, b) \in Int
        /\ End(t, b) - Begin(t, b) = End(s, b) - Begin(s, b)
    BY <2>2, ReadyParts DEF Lowered, Fine
  <2>8. n <= q OBVIOUS
  <2> HIDE DEF q
  <2>4. Begin(t, b) >= PageSize
    <3>1. ~(Begin(t, b) \div PageSize < 1) BY <1>0, <2>3, <2>8
    <3> DEFINE one == 1
    <3>2. one \in Int /\ one * PageSize = PageSize BY SizeIs
    <3>3. ~(Begin(t, b) \div PageSize < one) BY <3>1
    <3> HIDE DEF one
    <3>4. ~(Begin(t, b) < one * PageSize) BY <2>3, <3>2, <3>3, QuotBelow
    <3> QED BY <2>3, <3>2, <3>4, SizeIs
  <2>5. Shrunk(t, u, b, -PageSize) BY <2>3, <2>4, ReleaseBeforeKeeps
  <2> HIDE DEF u
  <2>6. ASSUME NEW a \in Buffers, a # b PROVE Beheld(s, u, a)
    BY <2>2, <2>5, <2>6 DEF Lowered, Beheld, Shrunk, Shifted
  <2>7. /\ Fine(u) /\ Begin(u, b) = Begin(t, b) - PageSize /\ End(u, b) = End(t, b) - PageSize
    <3>1. Fine(u) /\ Begin(u, b) = Begin(t, b) + (-PageSize) /\ End(u, b) = End(t, b) + (-PageSize)
      BY <2>5 DEF Shrunk, Shifted
    <3> QED BY <2>3, <3>1, SizeIs
  <2>9. Begin(u, b) # NoPosition BY <2>3, <2>4, <2>7, SizeIs DEF NoPosition
  <2>10. Begin(u, b) \div PageSize = q - (k + 1)
    <3>1. Begin(u, b) \div PageSize = (q - k) - 1 BY <2>3, <2>7, QuotBefore
    <3> QED BY <1>0, <3>1
  <2>11. End(u, b) - Begin(u, b) = End(s, b) - Begin(s, b)
    BY ONLY <1>0, <2>3, <2>7, SizeIs
  <2>13. SameTexts(s, u) BY <2>2, <2>5 DEF Lowered, Shrunk, SameTexts
  <2>12. Lowered(s, u, b, k + 1) BY <2>6, <2>7, <2>9, <2>10, <2>11, <2>13 DEF Lowered, q
  <2> QED BY <2>1, <2>12
<1> HIDE DEF K
<1>4. n \in K BY <1>2, <1>3, CountingUp
<1> QED BY <1>1, <1>4 DEF K

\* The positions of the others are as before, and b has some only if it has bytes.
Trimmed(s, t, b) ==
  /\ Fine(t) /\ SameTexts(s, t) /\ Trim(t, b) /\ \A a \in Buffers : a # b => Beheld(s, t, a)

\* __shrink_size()
LEMMA ShrinkIs ==
  ASSUME NEW s, Fine(s), NEW b \in Buffers
  PROVE  Trimmed(s, Shrink(s, b), b)
<1> DEFINE t == Check(s, b)
           q == Begin(t, b) \div PageSize
           u == ReleasesBefore!Times(q, t, b)
           after == Len(Pages(u, b)) - ((End(u, b) \div PageSize) + 1)
           l == Len(Pages(t, b))
           v == BackReleases!Times(after, u, b)
           w == FrontReleases!Times(l, t, b)
<1>1. Shrink(s, b) = IF Begin(t, b) = NoPosition THEN w ELSE v BY DEF Shrink
<1>2. Checked(s, t, b) BY CheckIs
<1> HIDE DEF t
<1>3. Fine(t) /\ SameTexts(s, t) /\ Trim(t, b) /\ \A a \in Buffers : a # b => Beheld(s, t, a)
  BY <1>2 DEF Checked
<1>4. l \in Nat /\ Begin(t, b) \in Int /\ End(t, b) \in Int
  BY <1>3, SoundParts, ReadyParts DEF Fine
<1>5. CASE Begin(t, b) = NoPosition
  <2>1. l <= Len(Pages(t, b)) BY <1>4
  <2> HIDE DEF l
  <2>2. Emptied(t, w, b, l) BY <1>3, <1>4, <1>5, <2>1, FrontReleasesIs
  <2> HIDE DEF w
  <2>4. SameTexts(s, w) BY <1>3, <2>2 DEF Emptied, SameTexts
  <2>3. Trimmed(s, w, b) BY <1>3, <1>5, <2>2, <2>4 DEF Trimmed, Trim, Emptied, Beheld
  <2> QED BY <1>1, <1>5, <2>3
<1>6. CASE Begin(t, b) # NoPosition
  <2>1. q \in Nat /\ q <= Begin(t, b) \div PageSize
    <3>1. Begin(t, b) \in Nat BY <1>3, <1>6, ReadyParts DEF Fine
    <3>2. q \in Nat BY <3>1, QuotNat
    <3> QED BY <3>2
  <2> HIDE DEF q
  <2>2. Lowered(t, u, b, q) BY <1>3, <1>6, <2>1, ReleasesBeforeIs
  <2> HIDE DEF u
  <2>3. /\ Fine(u) /\ Begin(u, b) # NoPosition /\ Begin(u, b) \in Int /\ End(u, b) \in Int
        /\ Len(Pages(u, b)) \in Nat /\ End(u, b) \div PageSize \in Int
        /\ End(u, b) - Begin(u, b) = End(t, b) - Begin(t, b)
    <3>1. Fine(u) /\ Begin(u, b) # NoPosition /\ End(u, b) - Begin(u, b) = End(t, b) - Begin(t, b)
      BY <2>2 DEF Lowered
    <3>2. Begin(u, b) \in Int /\ End(u, b) \in Int /\ Len(Pages(u, b)) \in Nat
      BY <3>1, ReadyParts, SoundParts DEF Fine
    <3> QED BY <3>1, <3>2, Quot
  <2>4. Begin(t, b) < End(t, b) BY <1>3, <1>6 DEF Trim
  <2>5. Begin(u, b) < End(u, b) BY ONLY <1>4, <2>3, <2>4
  <2>6. \E n \in Nat : Emptied(u, v, b, n)
    <3>1. CASE after <= 0
      <4>1. v = u
        <5>1. after \in Int BY <2>3
        <5> HIDE DEF after
        <5> QED BY ONLY <3>1, <5>1, BackReleases!NoTurn DEF v
      <4>2. Emptied(u, u, b, 0) BY <2>3 DEF Emptied, Beheld, SameTexts
      <4> QED BY <4>1, <4>2
    <3>2. CASE after > 0
      <4>1. after \in Nat /\ after <= Len(Pages(u, b)) - ((End(u, b) \div PageSize) + 1)
        BY <2>3, <3>2
      <4> HIDE DEF after
      <4>2. Emptied(u, v, b, after) BY <2>3, <4>1, BackReleasesIs
      <4> QED BY <4>1, <4>2
    <3>3. after \in Int BY <2>3
    <3> HIDE DEF after, v
    <3> QED BY <3>1, <3>2, <3>3
  <2> HIDE DEF v
  <2>7. Fine(v) /\ SameTexts(u, v) /\ \A a \in Buffers : Beheld(u, v, a) BY <2>6 DEF Emptied
  <2>8. Trim(v, b) BY <2>5, <2>7 DEF Trim, Beheld
  <2>9. \A a \in Buffers : a # b => Beheld(s, v, a) BY <1>3, <2>2, <2>7 DEF Lowered, Beheld
  <2>11. SameTexts(s, v) BY <1>3, <2>2, <2>7 DEF Lowered, SameTexts
  <2>10. Trimmed(s, v, b) BY <2>7, <2>8, <2>9, <2>11 DEF Trimmed
  <2> QED BY <1>1, <1>6, <2>10
<1> QED BY <1>5, <1>6

(*** The moves as a whole. ***)

\* What every operation starts from and comes back to.
Proper(s) == Fine(s) /\ \A a \in Buffers : Trim(s, a)
\* How many bytes a move of n takes: within one buffer, all of them stay where they are.
Moves(s, b, c, n) ==
  IF n < Len(Text(s, b)) THEN n ELSE IF b = c THEN 0 ELSE Len(Text(s, b))
\* What Open leaves: positions in b and c, and the bytes of the buffers.
Opened(s, t, b, c) ==
  /\ Fine(t) /\ SameTexts(s, t) /\ Begin(t, b) # NoPosition /\ Begin(t, c) # NoPosition
  /\ End(t, b) - Begin(t, b) = End(s, b) - Begin(s, b)
  /\ \A a \in Buffers : a # b /\ a # c => Beheld(s, t, a)

\* Bytes have passed, whatever was done before and after that left the texts the same.
LEMMA PassedBetween ==
  ASSUME NEW s, NEW t, NEW u, NEW w, NEW b \in Buffers, NEW c \in Buffers, NEW n,
         SameTexts(s, t), Passed(t, u, b, c, n), SameTexts(u, w)
  PROVE  Passed(s, w, b, c, n)
<1>1. \A a \in Buffers : Text(t, a) = Text(s, a) /\ Text(w, a) = Text(u, a) BY DEF SameTexts
<1> QED BY <1>1 DEF Passed

\* The length of a buffer is that of its text.
LEMMA LengthText ==
  ASSUME NEW s, NEW b, Ready(s, b)
  PROVE  Length(s, b) = Len(Text(s, b)) /\ Length(s, b) \in Nat
<1>1. CASE Begin(s, b) = NoPosition
  <2>1. Text(s, b) = <<>> BY <1>1, TextIs
  <2> QED BY <1>1, <2>1 DEF Length
<1>2. CASE Begin(s, b) # NoPosition
  <2>1. Len(Text(s, b)) = End(s, b) - Begin(s, b) BY <1>2, TextIs
  <2> QED BY <1>2, <2>1, ReadyParts DEF Length
<1> QED BY <1>1, <1>2

\* A page that c gets when it has none.
LEMMA PageForEmpty ==
  ASSUME NEW s, Fine(s), NEW b \in Buffers, NEW c \in Buffers, b # c, Begin(s, b) # NoPosition,
         NEW t, Pages(s, c) = <<>>,
         t = IF Spare(s, b) THEN BackToBack(s, b, c)
             ELSE IF Begin(s, b) >= PageSize THEN Shift(FrontToBack(s, b, c), b, -PageSize)
             ELSE FreshBack(s, c)
  PROVE  Like(s, t, b, c) /\ Len(Pages(t, c)) >= 1
<1>0. Len(Pages(s, c)) = 0 BY SoundParts DEF Fine
<1>1. Begin(s, c) \in Int /\ Begin(s, b) \in Nat BY ReadyParts DEF Fine
<1>2. CASE Spare(s, b)
  <2>1. Gained(s, t, b, c, c, 0) BY <1>2, BackToBackKeeps
  <2>2. Len(Pages(t, c)) = 1 BY <1>0, <2>1 DEF Gained
  <2>3. CASE Begin(s, c) = NoPosition
    <3>1. \A a \in Buffers : Beheld(s, t, a)
      <4>1. \A a \in Buffers : End(s, a) \in Int /\ Begin(s, a) \in Int BY ReadyParts DEF Fine
      <4> QED BY <2>1, <4>1 DEF Gained, Shifted, Beheld
    <3>2. Fine(t) /\ SameTexts(s, t) BY <2>1 DEF Gained
    <3>3. Like(s, t, b, c) BY <3>1, <3>2 DEF Like, Beheld
    <3> QED BY <2>2, <3>3
  <2>4. CASE Begin(s, c) # NoPosition
    <3>1. Begin(s, c) \in Nat BY <2>4, ReadyParts DEF Fine
    <3> DEFINE z == 0
    <3>2. Gained(s, t, b, c, c, z) /\ z \in Int /\ z = 0 BY <2>1
    <3>3. Begin(s, c) + z >= 0 BY <3>1
    <3> HIDE DEF z
    <3>4. Fine(t) /\ SameTexts(s, t) /\ Shifted(s, t, c, z) BY <3>2 DEF Gained
    <3>5. Like(s, t, b, c)
      BY ONLY <3>2, <3>3, <3>4, Fine(s), c \in Buffers, ShiftedLike
    <3> QED BY <2>2, <3>5
  <2> QED BY <2>3, <2>4
<1>3. CASE ~Spare(s, b) /\ Begin(s, b) >= PageSize
  <2> DEFINE e == -PageSize
  <2>1. Gained(s, t, b, c, b, e) BY <1>3, FrontToBackKeeps
  <2>2. Len(Pages(t, c)) = 1 BY <1>0, <2>1 DEF Gained
  <2>3. e \in Int /\ e = -PageSize /\ Begin(s, b) + e >= 0 BY <1>1, <1>3, SizeIs
  <2> HIDE DEF e
  <2>4. Fine(t) /\ SameTexts(s, t) /\ Shifted(s, t, b, e) BY <2>1 DEF Gained
  <2>5. Like(s, t, b, c) BY ONLY <2>3, <2>4, Fine(s), b \in Buffers, ShiftedLike
  <2> QED BY <2>2, <2>5
<1>4. CASE ~Spare(s, b) /\ ~(Begin(s, b) >= PageSize)
  <2>1. Grown(s, t, c, 0) BY <1>4, FreshBackKeeps
  <2>2. Len(Pages(t, c)) = 1 BY <1>0, <2>1 DEF Grown
  <2>3. \A a \in Buffers : Beheld(s, t, a)
    <3>1. \A a \in Buffers : End(s, a) \in Int /\ Begin(s, a) \in Int BY ReadyParts DEF Fine
    <3> QED BY <2>1, <3>1 DEF Grown, Shifted, Beheld
  <2> QED BY <2>1, <2>2, <2>3 DEF Grown, Like, Beheld
<1> QED BY <1>2, <1>3, <1>4

\* The positions c gets for the bytes to come.
LEMMA OpenIs ==
  ASSUME NEW s, Fine(s), NEW b \in Buffers, NEW c \in Buffers, b # c, Begin(s, b) # NoPosition,
         NEW o \in Offsets
  PROVE  Opened(s, Open(s, b, c, o), b, c)
<1> DEFINE t == IF Pages(s, c) # <<>> THEN s
                ELSE IF Spare(s, b) THEN BackToBack(s, b, c)
                ELSE IF Begin(s, b) >= PageSize THEN Shift(FrontToBack(s, b, c), b, -PageSize)
                ELSE FreshBack(s, c)
           u == SetRange(t, c, o, o)
<1>1. Open(s, b, c, o) = IF Begin(s, c) = NoPosition THEN u ELSE s BY DEF Open
<1>2. CASE Begin(s, c) # NoPosition BY <1>1, <1>2 DEF Opened, Beheld, SameTexts
<1>3. CASE Begin(s, c) = NoPosition
  <2>1. Like(s, t, b, c) /\ Len(Pages(t, c)) >= 1
    <3>1. CASE Pages(s, c) # <<>>
      <4>1. t = s BY <3>1
      <4>2. Len(Pages(s, c)) \in Nat /\ Pages(s, c) \in Seq(DOMAIN s.heap) BY SoundParts DEF Fine
      <4>3. Len(Pages(s, c)) >= 1 BY <3>1, <4>2
      <4> QED BY <4>1, <4>3, LikeItself
    <3>2. CASE Pages(s, c) = <<>>
      <4>1. t = IF Spare(s, b) THEN BackToBack(s, b, c)
                ELSE IF Begin(s, b) >= PageSize THEN Shift(FrontToBack(s, b, c), b, -PageSize)
                ELSE FreshBack(s, c)
        BY <3>2
      <4> HIDE DEF t
      <4> QED BY <3>2, <4>1, PageForEmpty
    <3> QED BY <3>1, <3>2
  <2> HIDE DEF t
  <2>2. Fine(t) /\ Len(Pages(t, c)) \in Nat BY <2>1, SoundParts DEF Like, Fine
  <2>3. Fits(t, c, o, o)
    <3> DEFINE l == Len(Pages(t, c))
               d == l - 1
    <3>1. d \in Nat /\ d + 1 = l BY <2>1, <2>2
    <3> HIDE DEF d
    <3>2. l * PageSize = d * PageSize + PageSize /\ d * PageSize \in Nat
      <4>1. (d + 1) * PageSize = d * PageSize + PageSize /\ d * PageSize \in Nat
        BY <3>1, RowSize
      <4> QED BY <3>1, <4>1
    <3> DEFINE h == d * PageSize
               m == l * PageSize
    <3>3. m = h + PageSize /\ h \in Nat BY <3>2
    <3>4. o \in Nat /\ o < PageSize BY SizeIs DEF Offsets
    <3> HIDE DEF h, m
    <3>5. o <= m BY <3>3, <3>4, SizeIs
    <3>6. \A x \in o..o - 1 : ByteAt(t, c, x) \in Nat BY <3>4
    <3> QED BY <3>4, <3>5, <3>6 DEF Fits, m
  <2>4. /\ Fine(u) /\ Ranged(t, u, c, o, o)
        /\ \A a \in Buffers : a # c => Text(u, a) = Text(t, a)
    BY <2>2, <2>3, RangeKeeps
  <2> HIDE DEF u
  <2>5. Begin(u, c) # NoPosition
    <3>1. Begin(u, c) = o BY <2>4 DEF Ranged
    <3>2. o \in Nat BY SizeIs DEF Offsets
    <3> QED BY <3>1, <3>2 DEF NoPosition
  <2>6. Beheld(t, u, b) /\ \A a \in Buffers : a # b /\ a # c => Beheld(t, u, a)
    BY <2>4 DEF Ranged, Beheld
  <2>7. /\ Begin(t, b) # NoPosition /\ End(t, b) - Begin(t, b) = End(s, b) - Begin(s, b)
        /\ \A a \in Buffers : a # b /\ a # c => Beheld(s, t, a)
    BY <2>1 DEF Like, Beheld
  <2>9. SameTexts(s, u)
    <3>1. SameTexts(s, t) BY <2>1 DEF Like
    <3>2. Text(s, c) = <<>>
      <4>1. Ready(s, c) BY DEF Fine
      <4> QED BY <1>3, <4>1, TextIs
    <3>3. Text(u, c) = <<>>
      <4>1. Ready(u, c) BY <2>4 DEF Fine
      <4>2. Begin(u, c) = o /\ End(u, c) = o /\ o \in Nat BY <2>4, SizeIs DEF Ranged, Offsets
      <4>3. Begin(u, c) >= End(u, c) BY <4>2
      <4> QED BY <4>1, <4>3, NoText
    <3> QED BY <2>4, <3>1, <3>2, <3>3 DEF SameTexts
  <2>8. Opened(s, u, b, c) BY <2>4, <2>5, <2>6, <2>7, <2>9 DEF Opened, Beheld
  <2> QED BY <1>1, <1>3, <2>8
<1> QED BY <1>2, <1>3

\* What a move starts from, after both checks.
Waits(s, b, c, n) ==
  /\ Proper(s) /\ n \in Nat
  /\ n # 0 => Begin(s, b) # NoPosition /\ End(s, b) - Begin(s, b) >= n

\* The checks change nothing, and no more bytes may move than there are.
LEMMA MoveStarts ==
  ASSUME NEW s0, Proper(s0), NEW b \in Buffers, NEW c \in Buffers, NEW n0 \in Nat
  PROVE  /\ Waits(Check(Check(s0, b), c), b, c, Movable(Check(Check(s0, b), c), b, c, n0))
         /\ SameTexts(s0, Check(Check(s0, b), c))
         /\ Movable(Check(Check(s0, b), c), b, c, n0) = Moves(s0, b, c, n0)
<1> DEFINE r == Check(s0, b)
           s == Check(r, c)
           n == Movable(s, b, c, n0)
<1>1. Checked(s0, r, b) BY CheckIs DEF Proper
<1>2. \A a \in Buffers : Beheld(s0, r, a) /\ Trim(r, a) BY <1>1 DEF Checked, Proper, Beheld, Trim
<1> HIDE DEF r
<1>3. Checked(r, s, c) BY <1>1, CheckIs DEF Checked
<1>4. Proper(s) BY <1>2, <1>3 DEF Checked, Proper, Beheld, Trim
<1>9. SameTexts(s0, s) BY <1>1, <1>3 DEF Checked, SameTexts
<1> HIDE DEF s
<1>5. Length(s, b) \in Nat /\ (Length(s, b) > 0 => Begin(s, b) # NoPosition)
  <2>1. Ready(s, b) BY <1>4 DEF Proper, Fine
  <2> QED BY <2>1, ReadyParts DEF Length
<1>6. n \in Nat /\ n <= Length(s, b) BY <1>5 DEF Movable
<1>10. n = Moves(s0, b, c, n0)
  <2>1. Length(s, b) = Len(Text(s0, b))
    <3>1. Ready(s, b) BY <1>4 DEF Proper, Fine
    <3>2. Text(s, b) = Text(s0, b) BY <1>9 DEF SameTexts
    <3> QED BY <3>1, <3>2, LengthText
  <2> QED BY <2>1 DEF Movable, Moves
<1> HIDE DEF n
<1>7. n # 0 => Begin(s, b) # NoPosition /\ End(s, b) - Begin(s, b) >= n
  BY <1>5, <1>6 DEF Length
<1>8. Waits(s, b, c, n) BY <1>4, <1>6, <1>7 DEF Waits
<1> QED BY <1>8, <1>9, <1>10 DEF n, s, r

\* After the loops, both buffers are shrunk.
LEMMA ShrinkBoth ==
  ASSUME NEW u, Fine(u), NEW b \in Buffers, NEW c \in Buffers,
         \A a \in Buffers : a # b /\ a # c => Trim(u, a)
  PROVE  Proper(Shrink(Shrink(u, b), c)) /\ SameTexts(u, Shrink(Shrink(u, b), c))
<1> DEFINE v == Shrink(u, b)
           w == Shrink(v, c)
<1>1. Trimmed(u, v, b) BY ShrinkIs
<1> HIDE DEF v
<1>2. Trimmed(v, w, c) BY <1>1, ShrinkIs DEF Trimmed
<1> HIDE DEF w
<1>3. ASSUME NEW a \in Buffers PROVE Trim(w, a)
  <2>1. CASE a = c BY <1>2, <2>1 DEF Trimmed
  <2>2. CASE a # c /\ a = b
    <3>1. Beheld(v, w, a) /\ Trim(v, a) BY <1>1, <1>2, <2>2 DEF Trimmed
    <3> QED BY <3>1 DEF Beheld, Trim
  <2>3. CASE a # c /\ a # b
    <3>1. Beheld(v, w, a) /\ Beheld(u, v, a) /\ Trim(u, a) BY <1>1, <1>2, <2>3 DEF Trimmed
    <3> QED BY <3>1 DEF Beheld, Trim
  <2> QED BY <2>1, <2>2, <2>3
<1>4. Proper(w) BY <1>2, <1>3 DEF Proper, Trimmed
<1>5. SameTexts(u, w) BY <1>1, <1>2 DEF Trimmed, SameTexts
<1> QED BY <1>4, <1>5 DEF w, v

\* The texts are the same, n bytes are there to move, and only b and c may be open.
Started(s, t, b, c, n) ==
  Bound(t, b, c, n) /\ SameTexts(s, t) /\ \A a \in Buffers : a # b /\ a # c => Trim(t, a)

\* The state the loops start from.
LEMMA LoopStarts ==
  ASSUME NEW s, NEW b \in Buffers, NEW c \in Buffers, NEW n, Waits(s, b, c, n), n # 0,
         NEW o \in Offsets, NEW t, t = IF b = c THEN s ELSE Open(s, b, c, o)
  PROVE  Started(s, t, b, c, n)
<1>1. /\ Fine(s) /\ Begin(s, b) # NoPosition /\ End(s, b) - Begin(s, b) >= n
      /\ \A a \in Buffers : Trim(s, a)
  BY DEF Waits, Proper
<1>2. CASE b = c BY <1>1, <1>2 DEF Bound, SameTexts, Started
<1>3. CASE b # c
  <2>1. Opened(s, t, b, c) BY <1>1, <1>3, OpenIs
  <2>2. Bound(t, b, c, n) BY <1>1, <2>1 DEF Opened, Bound
  <2>3. \A a \in Buffers : a # b /\ a # c => Trim(t, a) BY <1>1, <2>1 DEF Opened, Beheld, Trim
  <2>4. SameTexts(s, t) BY <2>1 DEF Opened
  <2> QED BY <2>2, <2>3, <2>4 DEF Started
<1> QED BY <1>2, <1>3

\* pop_front_to_other_back_n
LEMMA MoveBehindIs ==
  ASSUME NEW s0, Proper(s0), NEW b \in Buffers, NEW c \in Buffers, NEW n0 \in Nat
  PROVE  /\ Proper(MoveBehind(s0, b, c, n0))
         /\ Passed(s0, MoveBehind(s0, b, c, n0), b, c, Moves(s0, b, c, n0))
<1> DEFINE s == Check(Check(s0, b), c)
           n == Movable(s, b, c, n0)
           o == Begin(s, b) % PageSize
           t == IF b = c THEN s ELSE Open(s, b, c, o)
           u == AllBehind(t, b, c, n)
           w == Shrink(Shrink(u, b), c)
<1>1. MoveBehind(s0, b, c, n0) = IF n = 0 THEN s ELSE w BY DEF MoveBehind
<1>2. Waits(s, b, c, n) /\ SameTexts(s0, s) /\ n = Moves(s0, b, c, n0) BY MoveStarts
<1>5. SameTexts(s0, s0) /\ SameTexts(s, s0) /\ SameTexts(s, s) BY <1>2 DEF SameTexts
<1> HIDE DEF n, s
<1>3. CASE n = 0
  <2>1. Ready(s, b) /\ Ready(s, c) BY <1>2 DEF Waits, Proper, Fine
  <2>2. Passed(s, s, b, c, n) /\ Passed(s, s, c, b, n) BY <1>3, <2>1, PassedNone
  <2>3. Passed(s0, s, b, c, n) BY <1>2, <1>5, <2>2, PassedBetween
  <2> QED BY <1>1, <1>2, <1>3, <2>3 DEF Waits
<1>4. CASE n # 0
  <2>1. o \in Offsets
    <3>1. Begin(s, b) \in Int BY <1>2, ReadyParts DEF Waits, Proper, Fine
    <3> QED BY <3>1, Quot
  <2> HIDE DEF o
  <2>2. /\ Bound(t, b, c, n) /\ SameTexts(s, t)
        /\ \A a \in Buffers : a # b /\ a # c => Trim(t, a)
    <3>1. t = IF b = c THEN s ELSE Open(s, b, c, o) OBVIOUS
    <3> HIDE DEF t
    <3>2. Started(s, t, b, c, n) BY <1>2, <1>4, <2>1, <3>1, LoopStarts
    <3> QED BY <3>2 DEF Started
  <2> HIDE DEF t
  <2>3. GoneOn(t, u, b, c, n) BY <1>2, <2>2, AllBehindIs DEF Waits
  <2> HIDE DEF u
  <2>4. Fine(u) /\ \A a \in Buffers : a # b /\ a # c => Trim(u, a)
    BY <2>2, <2>3 DEF GoneOn, Trim
  <2>5. Proper(w) /\ SameTexts(u, w) BY <2>4, ShrinkBoth
  <2>6. Passed(t, u, b, c, n) BY <2>3 DEF GoneOn
  <2>7. SameTexts(s0, t) BY <1>2, <2>2, <2>5 DEF SameTexts
  <2> HIDE DEF w
  <2>8. Passed(s0, w, b, c, n) BY <2>5, <2>6, <2>7, PassedBetween
  <2> QED BY <1>1, <1>2, <1>4, <2>5, <2>8
<1> QED BY <1>3, <1>4

\* pop_back_to_other_front_n
LEMMA MoveBeforeIs ==
  ASSUME NEW s0, Proper(s0), NEW b \in Buffers, NEW c \in Buffers, NEW n0 \in Nat
  PROVE  /\ Proper(MoveBefore(s0, b, c, n0))
         /\ Passed(MoveBefore(s0, b, c, n0), s0, c, b, Moves(s0, b, c, n0))
<1> DEFINE s == Check(Check(s0, b), c)
           n == Movable(s, b, c, n0)
           o == End(s, b) % PageSize
           t == IF b = c THEN s ELSE Open(s, b, c, o)
           u == AllBefore(t, b, c, n)
           w == Shrink(Shrink(u, b), c)
<1>1. MoveBefore(s0, b, c, n0) = IF n = 0 THEN s ELSE w BY DEF MoveBefore
<1>2. Waits(s, b, c, n) /\ SameTexts(s0, s) /\ n = Moves(s0, b, c, n0) BY MoveStarts
<1>5. SameTexts(s0, s0) /\ SameTexts(s, s0) /\ SameTexts(s, s) BY <1>2 DEF SameTexts
<1> HIDE DEF n, s
<1>3. CASE n = 0
  <2>1. Ready(s, b) /\ Ready(s, c) BY <1>2 DEF Waits, Proper, Fine
  <2>2. Passed(s, s, b, c, n) /\ Passed(s, s, c, b, n) BY <1>3, <2>1, PassedNone
  <2>3. Passed(s, s0, c, b, n) BY <1>2, <1>5, <2>2, PassedBetween
  <2> QED BY <1>1, <1>2, <1>3, <2>3 DEF Waits
<1>4. CASE n # 0
  <2>1. o \in Offsets
    <3>1. End(s, b) \in Int BY <1>2, ReadyParts DEF Waits, Proper, Fine
    <3> QED BY <3>1, Quot
  <2> HIDE DEF o
  <2>2. /\ Bound(t, b, c, n) /\ SameTexts(s, t)
        /\ \A a \in Buffers : a # b /\ a # c => Trim(t, a)
    <3>1. t = IF b = c THEN s ELSE Open(s, b, c, o) OBVIOUS
    <3> HIDE DEF t
    <3>2. Started(s, t, b, c, n) BY <1>2, <1>4, <2>1, <3>1, LoopStarts
    <3> QED BY <3>2 DEF Started
  <2> HIDE DEF t
  <2>3. GoneBack(t, u, b, c, n) BY <1>2, <2>2, AllBeforeIs DEF Waits
  <2> HIDE DEF u
  <2>4. Fine(u) /\ \A a \in Buffers : a # b /\ a # c => Trim(u, a)
    BY <2>2, <2>3 DEF GoneBack, Trim
  <2>5. Proper(w) /\ SameTexts(u, w) BY <2>4, ShrinkBoth
  <2>6. Passed(u, t, c, b, n) BY <2>3 DEF GoneBack
  <2>7. SameTexts(w, u) /\ SameTexts(t, s0) BY <1>2, <2>2, <2>5 DEF SameTexts
  <2> HIDE DEF w
  <2>8. Passed(w, s0, c, b, n) BY <2>5, <2>6, <2>7, PassedBetween
  <2> QED BY <1>1, <1>2, <1>4, <2>5, <2>8
<1> QED BY <1>3, <1>4

(*** Pages that are added, and bytes that are written. ***)

\* b has at least m pages, and no position has moved.
Extended(s, t, b, m) ==
  /\ Fine(t) /\ SameTexts(s, t) /\ \A a \in Buffers : Beheld(s, t, a)
  /\ Len(Pages(t, b)) >= m
\* The bytes of b are n pages further.
Raised(s, t, b, n) ==
  /\ Fine(t) /\ SameTexts(s, t) /\ \A a \in Buffers : a # b => Beheld(s, t, a)
  /\ Begin(t, b) = Begin(s, b) + n * PageSize /\ End(t, b) = End(s, b) + n * PageSize

\* More pages are more bytes.
LEMMA MorePages ==
  ASSUME NEW i \in Int, NEW j \in Int, i <= j
  PROVE  i * PageSize <= j * PageSize /\ i * PageSize \in Int /\ j * PageSize \in Int
<1> DEFINE d == j - i
<1>1. d \in Nat /\ j = i + d OBVIOUS
<1> HIDE DEF d
<1>2. d * PageSize \in Nat BY <1>1, RowSize
<1>3. (i + d) * PageSize = i * PageSize + d * PageSize BY <1>1, SizeIs, Z3
<1>4. i * PageSize \in Int /\ j * PageSize \in Int BY SizeIs, Z3
<1>5. j * PageSize = i * PageSize + d * PageSize BY <1>1, <1>3
<1> DEFINE x == i * PageSize
           y == d * PageSize
           z == j * PageSize
<1>6. x \in Int /\ y \in Nat /\ z = x + y /\ z \in Int BY <1>2, <1>4, <1>5
<1> HIDE DEF x, y, z
<1>7. x <= z BY <1>6
<1> QED BY <1>6, <1>7 DEF x, z

\* n pages behind b.
LEMMA AddBacksIs ==
  ASSUME NEW b \in Buffers, NEW s, Fine(s), NEW n \in Nat
  PROVE  Extended(s, AddBacks!Times(n, s, b), b, Len(Pages(s, b)) + n)
<1>1. PICK g : /\ g[0] = s /\ AddBacks!Times(n, s, b) = g[n]
               /\ \A k \in 1..n : g[k] = AddBack(g[k - 1], b)
  BY ONLY AddBacks!Iterates, CountsUp, n \in Nat
<1> DEFINE K == {k \in 0..n : Extended(s, g[k], b, Len(Pages(s, b)) + k)}
<1>0. Len(Pages(s, b)) \in Nat BY SoundParts DEF Fine
<1>2. 0 \in K BY <1>0, <1>1 DEF Extended, Beheld, SameTexts
<1>3. ASSUME NEW k \in 0..n - 1, k \in K PROVE k + 1 \in K
  <2> DEFINE t == g[k]
             u == AddBack(t, b)
  <2>1. g[k + 1] = u
    <3>1. k + 1 \in 1..n /\ (k + 1) - 1 = k OBVIOUS
    <3> QED BY <1>1, <3>1
  <2>2. Extended(s, t, b, Len(Pages(s, b)) + k) BY <1>3
  <2> HIDE DEF t
  <2>3. Fine(t) /\ Len(Pages(t, b)) \in Nat BY <2>2, SoundParts DEF Extended, Fine
  <2>4. Grown(t, u, b, 0) BY <2>3, AddBackKeeps
  <2> HIDE DEF u
  <2>5. ASSUME NEW a \in Buffers PROVE Beheld(s, u, a)
    <3>1. Begin(t, a) \in Int /\ End(t, a) \in Int BY <2>3, ReadyParts DEF Fine
    <3> QED BY <2>2, <2>4, <3>1 DEF Extended, Beheld, Grown, Shifted
  <2>6. Len(Pages(u, b)) >= Len(Pages(s, b)) + (k + 1)
    BY <1>0, <2>2, <2>3, <2>4 DEF Extended, Grown
  <2>8. SameTexts(s, u) BY <2>2, <2>4 DEF Extended, Grown, SameTexts
  <2>7. Extended(s, u, b, Len(Pages(s, b)) + (k + 1))
    BY <2>4, <2>5, <2>6, <2>8 DEF Extended, Grown
  <2> QED BY <2>1, <2>7
<1> HIDE DEF K
<1>4. n \in K BY <1>2, <1>3, CountingUp
<1> QED BY <1>1, <1>4 DEF K

\* Pages are added behind b until there are m.
LEMMA AddBacksTo ==
  ASSUME NEW b \in Buffers, NEW s, Fine(s), NEW m \in Int
  PROVE  Extended(s, AddBacks!Times(m - Len(Pages(s, b)), s, b), b, m)
<1> DEFINE n == m - Len(Pages(s, b))
           t == AddBacks!Times(n, s, b)
<1>0. Len(Pages(s, b)) \in Nat BY SoundParts DEF Fine
<1>1. n \in Int /\ Len(Pages(s, b)) + n = m BY <1>0
<1> HIDE DEF n
<1>2. CASE n <= 0
  <2>1. t = s BY ONLY <1>1, <1>2, AddBacks!NoTurn DEF t
  <2>2. Len(Pages(s, b)) >= m BY <1>0, <1>1, <1>2
  <2>3. Extended(s, s, b, m) BY <2>2 DEF Extended, Beheld, SameTexts
  <2> QED BY <2>1, <2>3 DEF n
<1>3. CASE n > 0
  <2>1. n \in Nat BY <1>1, <1>3
  <2>2. Extended(s, t, b, Len(Pages(s, b)) + n) BY <2>1, AddBacksIs
  <2> QED BY <1>1, <2>2 DEF n
<1> QED BY <1>1, <1>2, <1>3

\* n pages before b, which has no bytes.
LEMMA AddFrontsEmpty ==
  ASSUME NEW b \in Buffers, NEW s, Fine(s), Begin(s, b) = NoPosition, NEW n \in Nat
  PROVE  Extended(s, AddFronts!Times(n, s, b), b, Len(Pages(s, b)) + n)
<1>1. PICK g : /\ g[0] = s /\ AddFronts!Times(n, s, b) = g[n]
               /\ \A k \in 1..n : g[k] = AddFront(g[k - 1], b)
  BY ONLY AddFronts!Iterates, CountsUp, n \in Nat
<1> DEFINE K == {k \in 0..n : Extended(s, g[k], b, Len(Pages(s, b)) + k)}
<1>0. Len(Pages(s, b)) \in Nat BY SoundParts DEF Fine
<1>2. 0 \in K BY <1>0, <1>1 DEF Extended, Beheld, SameTexts
<1>3. ASSUME NEW k \in 0..n - 1, k \in K PROVE k + 1 \in K
  <2> DEFINE t == g[k]
             u == AddFront(t, b)
  <2>1. g[k + 1] = u
    <3>1. k + 1 \in 1..n /\ (k + 1) - 1 = k OBVIOUS
    <3> QED BY <1>1, <3>1
  <2>2. Extended(s, t, b, Len(Pages(s, b)) + k) BY <1>3
  <2> HIDE DEF t
  <2>3. Fine(t) /\ Len(Pages(t, b)) \in Nat /\ Begin(t, b) = NoPosition
    BY <2>2, SoundParts DEF Extended, Fine, Beheld
  <2>4. Grown(t, u, b, 0)
    <3>1. Grown(t, u, b, IF Begin(t, b) = NoPosition THEN 0 ELSE PageSize)
      BY <2>3, AddFrontKeeps
    <3> HIDE DEF u
    <3> QED BY <2>3, <3>1
  <2> HIDE DEF u
  <2>5. ASSUME NEW a \in Buffers PROVE Beheld(s, u, a)
    <3>1. Begin(t, a) \in Int /\ End(t, a) \in Int BY <2>3, ReadyParts DEF Fine
    <3> QED BY <2>2, <2>4, <3>1 DEF Extended, Beheld, Grown, Shifted
  <2>6. Len(Pages(u, b)) >= Len(Pages(s, b)) + (k + 1)
    BY <1>0, <2>2, <2>3, <2>4 DEF Extended, Grown
  <2>8. SameTexts(s, u) BY <2>2, <2>4 DEF Extended, Grown, SameTexts
  <2>7. Extended(s, u, b, Len(Pages(s, b)) + (k + 1))
    BY <2>4, <2>5, <2>6, <2>8 DEF Extended, Grown
  <2> QED BY <2>1, <2>7
<1> HIDE DEF K
<1>4. n \in K BY <1>2, <1>3, CountingUp
<1> QED BY <1>1, <1>4 DEF K

\* n pages before the bytes of b.
LEMMA AddFrontsIs ==
  ASSUME NEW b \in Buffers, NEW s, Fine(s), Begin(s, b) # NoPosition, NEW n \in Nat
  PROVE  Raised(s, AddFronts!Times(n, s, b), b, n)
<1>1. PICK g : /\ g[0] = s /\ AddFronts!Times(n, s, b) = g[n]
               /\ \A k \in 1..n : g[k] = AddFront(g[k - 1], b)
  BY ONLY AddFronts!Iterates, CountsUp, n \in Nat
<1> DEFINE K == {k \in 0..n : Raised(s, g[k], b, k)}
           x == Begin(s, b)
           y == End(s, b)
<1>0. x \in Nat /\ y \in Nat BY ReadyParts DEF Fine
<1>2. 0 \in K
  <2>1. 0 * PageSize = 0 BY SizeIs
  <2>2. Begin(s, b) = Begin(s, b) + 0 * PageSize /\ End(s, b) = End(s, b) + 0 * PageSize
    BY <1>0, <2>1
  <2>3. Raised(s, s, b, 0) BY <2>2 DEF Raised, Beheld, SameTexts
  <2> QED BY <1>1, <2>3
<1>3. ASSUME NEW k \in 0..n - 1, k \in K PROVE k + 1 \in K
  <2> DEFINE t == g[k]
             u == AddFront(t, b)
             h == k * PageSize
             f == (k + 1) * PageSize
  <2>0. f = h + PageSize /\ h \in Nat BY RowSize
  <2>1. g[k + 1] = u
    <3>1. k + 1 \in 1..n /\ (k + 1) - 1 = k OBVIOUS
    <3> QED BY <1>1, <3>1
  <2>2. Raised(s, t, b, k) BY <1>3
  <2> HIDE DEF t
  <2>3. Fine(t) /\ Begin(t, b) = x + h /\ End(t, b) = y + h BY <2>2 DEF Raised
  <2>9. Begin(s, b) = x /\ End(s, b) = y OBVIOUS
  <2> HIDE DEF h, f, x, y
  <2>4. Begin(t, b) # NoPosition BY <1>0, <2>0, <2>3 DEF NoPosition
  <2>5. Grown(t, u, b, PageSize)
    <3>1. Grown(t, u, b, IF Begin(t, b) = NoPosition THEN 0 ELSE PageSize)
      BY <2>3, AddFrontKeeps
    <3> HIDE DEF u
    <3> QED BY <2>4, <3>1
  <2> HIDE DEF u
  <2>6. Begin(u, b) = Begin(t, b) + PageSize /\ End(u, b) = End(t, b) + PageSize /\ Fine(u)
    BY <2>5 DEF Grown, Shifted
  <2>7. Begin(u, b) = x + f /\ End(u, b) = y + f BY ONLY <1>0, <2>0, <2>3, <2>6, SizeIs
  <2>8. \A a \in Buffers : a # b => Beheld(s, u, a)
    BY <2>2, <2>5 DEF Raised, Beheld, Grown, Shifted
  <2>11. SameTexts(s, u) BY <2>2, <2>5 DEF Raised, Grown, SameTexts
  <2>10. Raised(s, u, b, k + 1) BY <2>6, <2>7, <2>8, <2>9, <2>11 DEF Raised, f
  <2> QED BY <2>1, <2>10
<1> HIDE DEF K
<1>4. n \in K BY <1>2, <1>3, CountingUp
<1> QED BY <1>1, <1>4 DEF K

\* A set of places in a sequence has a last one.
LEMMA LastOne ==
  ASSUME NEW n \in Nat, NEW S, S \subseteq 1..n, S # {}
  PROVE  \E i \in S : \A j \in S : j <= i
<1>1. SUFFICES ASSUME \A i \in S : \E j \in S : ~(j <= i) PROVE FALSE OBVIOUS
<1> DEFINE m == n + 1
           K == {k \in 0..m : \E i \in S : i >= k}
<1>2. m \in Nat /\ \A i \in S : i \in Nat /\ i <= n BY SMT
<1>3. 0 \in K
  <2>1. PICK i \in S : TRUE OBVIOUS
  <2>2. i >= 0 BY <1>2
  <2> QED BY <1>2, <2>2
<1>4. ASSUME NEW k \in 0..m - 1, k \in K PROVE k + 1 \in K
  <2>1. PICK i \in S : i >= k BY <1>4
  <2>2. PICK j \in S : ~(j <= i) BY <1>1
  <2>3. j >= k + 1 BY <1>2, <2>1, <2>2
  <2> QED BY <1>2, <2>3
<1>5. m \in K
  <2> HIDE DEF K, m
  <2> QED BY ONLY <1>2, <1>3, <1>4, CountingUp
<1> QED BY <1>2, <1>5

\* What the write of data from a position does: its bytes are there, one by one, and a cell
\* elsewhere keeps what it holds.
Wrote(s, t, b, from, data) ==
  /\ Sound(t, {})
  /\ \A a \in Buffers : Pages(t, a) = Pages(s, a) /\ Beheld(s, t, a)
  /\ \A a \in Buffers : \A z \in Int :
       (z \div PageSize) + 1 \in 1..Len(Pages(s, a)) /\ ByteAt(s, a, z) \in Nat
       => ByteAt(t, a, z) \in Nat
  /\ \A z \in from..from + Len(data) - 1 : ByteAt(t, b, z) \in Nat
  /\ \A i \in 1..Len(data) : ByteAt(t, b, from + i - 1) = data[i]
  /\ \A a \in Buffers : \A z \in Int :
       /\ (z \div PageSize) + 1 \in 1..Len(Pages(s, a))
       /\ a # b \/ z < from \/ z >= from + Len(data)
       => ByteAt(t, a, z) = ByteAt(s, a, z)

\* A position of the pages of a, page and offset.
LEMMA PositionIn ==
  ASSUME NEW s, NEW a, Len(Pages(s, a)) \in Nat, NEW x \in Nat, x < Len(Pages(s, a)) * PageSize
  PROVE  (x \div PageSize) + 1 \in 1..Len(Pages(s, a)) /\ x % PageSize \in Offsets
<1> DEFINE l == Len(Pages(s, a))
           q == x \div PageSize
<1>1. q \in Nat /\ x % PageSize \in Offsets BY Quot, QuotNat
<1>2. q < l
  <2>1. l \in Int /\ x < l * PageSize OBVIOUS
  <2> HIDE DEF l
  <2> QED BY <2>1, QuotBelow
<1> HIDE DEF q
<1> QED BY <1>1, <1>2 DEF q

\* Bytes are written to the pages of b.
LEMMA WriteIs ==
  ASSUME NEW s, Sound(s, {}), NEW b \in Buffers, NEW from \in Nat, NEW data, data \in Seq(Nat),
         from + Len(data) <= Len(Pages(s, b)) * PageSize
  PROVE  Wrote(s, Write(s, b, from, data), b, from, data)
<1> DEFINE Written(p, o) == {i \in 1..Len(data) : PageAt(s, b, from + i - 1) = p
                                                  /\ (from + i - 1) % PageSize = o}
           After(p, o) == IF Written(p, o) = {} THEN s.heap[p][o]
                          ELSE data[CHOOSE i \in Written(p, o) : \A j \in Written(p, o) : j <= i]
           H == [p \in DOMAIN s.heap |-> [o \in Offsets |-> After(p, o)]]
           t == [s EXCEPT !.heap = H]
<1>1. Write(s, b, from, data) = t BY DEF Write
<1>2. Len(data) \in Nat /\ \A i \in 1..Len(data) : data[i] \in Nat OBVIOUS
<1>3. ASSUME NEW p, NEW o, Written(p, o) # {} PROVE After(p, o) \in Nat
  <2> DEFINE S == Written(p, o)
  <2>1. S \subseteq 1..Len(data) /\ S # {} BY <1>3
  <2>2. After(p, o) = data[CHOOSE i \in S : \A j \in S : j <= i] BY <1>3
  <2> HIDE DEF S, After
  <2>3. \E i \in S : \A j \in S : j <= i BY <1>2, <2>1, LastOne
  <2>4. (CHOOSE i \in S : \A j \in S : j <= i) \in S BY <2>3
  <2> QED BY <1>2, <2>1, <2>2, <2>4
<1>4. ASSUME NEW p, NEW o, Written(p, o) = {} PROVE After(p, o) = s.heap[p][o] BY <1>4
<1> HIDE DEF After
<1>5. Heaped(s.heap) BY DEF Sound
<1>6. Heaped(H)
  <2>1. ASSUME NEW p \in DOMAIN s.heap, NEW o \in Offsets PROVE After(p, o) \in Nat \cup {Junk}
    <3>1. s.heap[p] \in PageBytes BY <1>5 DEF Heaped
    <3>2. s.heap[p][o] \in Nat \cup {Junk} BY <3>1 DEF PageBytes
    <3> HIDE DEF Written
    <3> QED BY <1>3, <1>4, <3>2
  <2>2. DOMAIN H = DOMAIN s.heap OBVIOUS
  <2>3. H \in [DOMAIN s.heap -> PageBytes] BY <2>1 DEF PageBytes
  <2> QED BY <1>5, <2>2, <2>3 DEF Heaped
<1>7. \A p \in DOMAIN s.heap : \A o \in Offsets : H[p][o] = After(p, o) OBVIOUS
<1>8. DOMAIN H = DOMAIN s.heap OBVIOUS
<1> HIDE DEF H
<1>9. Stored(s, t, H, s.pool) BY StoreIs DEF Sound
<1> HIDE DEF t
<1>10. /\ t.heap = H /\ \A a \in Buffers : Pages(t, a) = Pages(s, a) /\ Beheld(s, t, a)
  BY <1>9 DEF Stored, Beheld
<1>11. Sound(t, {})
  <2>1. Rows(t) = Rows(s)
    <3>1. Rows(t) = [Rows(s) EXCEPT !["pool"] = s.pool] BY <1>9, RowsStored
    <3> QED BY <3>1, RowsAre
  <2>2. Shaped(t) BY <1>9 DEF Stored
  <2> QED BY <1>6, <1>8, <1>10, <2>1, <2>2 DEF Sound
<1>12. \A a \in Buffers : Pages(s, a) \in Seq(DOMAIN s.heap) /\ Len(Pages(s, a)) \in Nat
  BY SoundParts
<1>16. ASSUME NEW i \in 1..Len(data)
       PROVE  from + i - 1 \in Nat /\ ((from + i - 1) \div PageSize) + 1 \in 1..Len(Pages(s, b))
  <2> DEFINE z == from + i - 1
             l == Len(Pages(s, b)) * PageSize
             n == Len(data)
  <2>1. l \in Nat BY <1>12, RowSize
  <2>2. z \in Nat /\ l \in Nat /\ n \in Nat /\ from + n <= l /\ z < from + n BY <1>2, <2>1
  <2> HIDE DEF z, l, n
  <2>3. z < l BY <2>2
  <2>4. z < Len(Pages(s, b)) * PageSize BY <2>3 DEF l
  <2>5. (z \div PageSize) + 1 \in 1..Len(Pages(s, b)) BY <1>12, <2>2, <2>4, PositionIn
  <2> QED BY <2>2, <2>5 DEF z
<1>17. ASSUME NEW a \in Buffers, NEW z \in Int, (z \div PageSize) + 1 \in 1..Len(Pages(s, a)),
              NEW i \in Written(PageAt(s, a, z), z % PageSize)
       PROVE  i \in 1..Len(data) /\ a = b /\ z = from + i - 1
  <2> DEFINE x == from + i - 1
  <2>1. i \in 1..Len(data) /\ PageAt(s, b, x) = PageAt(s, a, z) /\ x % PageSize = z % PageSize
    BY <1>17
  <2>2. x \in Int /\ (x \div PageSize) + 1 \in 1..Len(Pages(s, b)) BY <1>16, <2>1
  <2> HIDE DEF x
  <2>3. a = b /\ z = x BY <1>17, <2>1, <2>2, OneCell
  <2> QED BY <2>1, <2>3 DEF x
<1>13. ASSUME NEW a \in Buffers, NEW z \in Int, (z \div PageSize) + 1 \in 1..Len(Pages(s, a))
       PROVE  /\ ByteAt(t, a, z) = After(PageAt(s, a, z), z % PageSize)
              /\ ByteAt(s, a, z) = s.heap[PageAt(s, a, z)][z % PageSize]
  <2>1. z % PageSize \in Offsets BY Quot
  <2>2. PageAt(s, a, z) \in DOMAIN s.heap BY <1>12, <1>13 DEF PageAt
  <2>3. PageAt(t, a, z) = PageAt(s, a, z) BY <1>10 DEF PageAt
  <2> QED BY <1>7, <1>10, <2>1, <2>2, <2>3 DEF ByteAt
<1>14. ASSUME NEW a \in Buffers, NEW z \in Int, (z \div PageSize) + 1 \in 1..Len(Pages(s, a)),
              ByteAt(s, a, z) \in Nat
       PROVE  ByteAt(t, a, z) \in Nat
  <2> HIDE DEF Written
  <2> QED BY <1>3, <1>4, <1>13, <1>14
<1>15. ASSUME NEW z \in from..from + Len(data) - 1 PROVE ByteAt(t, b, z) \in Nat
  <2> DEFINE i == z - from + 1
             p == PageAt(s, b, z)
             o == z % PageSize
  <2>1. i \in 1..Len(data) /\ from + i - 1 = z /\ z \in Nat /\ z < from + Len(data) BY <1>2
  <2>2. Written(p, o) # {}
    <3>1. PageAt(s, b, from + i - 1) = p /\ (from + i - 1) % PageSize = o BY <2>1
    <3> HIDE DEF i
    <3>2. i \in Written(p, o) BY <2>1, <3>1
    <3> QED BY <3>2
  <2>3. z < Len(Pages(s, b)) * PageSize
    <3>1. Len(Pages(s, b)) * PageSize \in Nat BY <1>12, RowSize
    <3> DEFINE l == Len(Pages(s, b)) * PageSize
               n == Len(data)
    <3>2. l \in Nat /\ n \in Nat /\ from + n <= l /\ z < from + n /\ z \in Nat BY <1>2, <2>1, <3>1
    <3> HIDE DEF l, n
    <3>3. z < l BY <3>2
    <3> QED BY <3>3 DEF l
  <2>4. (z \div PageSize) + 1 \in 1..Len(Pages(s, b)) BY <1>12, <2>1, <2>3, PositionIn
  <2>5. ByteAt(t, b, z) = After(p, o) BY <1>13, <2>1, <2>4
  <2> HIDE DEF Written
  <2> QED BY <1>3, <2>2, <2>5
<1>18. ASSUME NEW i \in 1..Len(data) PROVE ByteAt(t, b, from + i - 1) = data[i]
  <2> DEFINE z == from + i - 1
             S == Written(PageAt(s, b, z), z % PageSize)
  <2>1. z \in Int /\ (z \div PageSize) + 1 \in 1..Len(Pages(s, b)) BY <1>16
  <2>2. i \in S OBVIOUS
  <2>3. ASSUME NEW j \in S PROVE j = i
    <3>1. j \in 1..Len(data) /\ z = from + j - 1
      <4> HIDE DEF z, Written
      <4> QED BY <1>17, <2>1, <2>3
    <3> QED BY <3>1
  <2> HIDE DEF Written
  <2>4. S = {i} BY <2>2, <2>3
  <2>5. i <= i OBVIOUS
  <2>6. After(PageAt(s, b, z), z % PageSize) =
          data[CHOOSE k \in S : \A j \in S : j <= k]
    BY <2>2 DEF After
  <2> HIDE DEF S, z
  <2>7. (CHOOSE k \in S : \A j \in S : j <= k) = i BY <2>4, <2>5
  <2>8. ByteAt(t, b, z) = data[i] BY <1>13, <2>1, <2>6, <2>7
  <2> QED BY <2>8 DEF z
<1>19. ASSUME NEW a \in Buffers, NEW z \in Int, (z \div PageSize) + 1 \in 1..Len(Pages(s, a)),
              a # b \/ z < from \/ z >= from + Len(data)
       PROVE  ByteAt(t, a, z) = ByteAt(s, a, z)
  <2> DEFINE S == Written(PageAt(s, a, z), z % PageSize)
  <2>1. ASSUME NEW i \in S PROVE FALSE
    <3>1. i \in 1..Len(data) /\ a = b /\ z = from + i - 1
      <4> HIDE DEF Written
      <4> QED BY <1>17, <1>19, <2>1
    <3> QED BY <1>2, <1>19, <3>1
  <2> HIDE DEF Written
  <2>2. Written(PageAt(s, a, z), z % PageSize) = {} BY <2>1
  <2> QED BY <1>4, <1>13, <1>19, <2>2
<1> QED BY <1>1, <1>10, <1>11, <1>14, <1>15, <1>18, <1>19 DEF Wrote

\* A buffer stays ready as bytes are written.
LEMMA WroteReady ==
  ASSUME NEW s, NEW t, NEW b, NEW from, NEW data, Wrote(s, t, b, from, data), NEW a \in Buffers,
         Len(Pages(s, a)) \in Nat, Ready(s, a)
  PROVE  Ready(t, a)
<1>1. Pages(t, a) = Pages(s, a) /\ Begin(t, a) = Begin(s, a) /\ End(t, a) = End(s, a)
  BY DEF Wrote, Beheld
<1>2. CASE Begin(s, a) = NoPosition BY <1>1, <1>2 DEF Ready
<1>3. CASE Begin(s, a) # NoPosition
  <2>1. ASSUME NEW x \in Begin(s, a)..End(s, a) - 1 PROVE ByteAt(t, a, x) \in Nat
    <3>1. Begin(s, a) \in Nat /\ End(s, a) \in Nat /\ ByteAt(s, a, x) \in Nat
      BY <1>3 DEF Ready
    <3>2. (x \div PageSize) + 1 \in 1..Len(Pages(s, a)) BY <1>3, LivePage
    <3>3. x \in Int BY <3>1
    <3> QED BY <3>1, <3>2, <3>3 DEF Wrote
  <2> QED BY <1>1, <1>3, <2>1 DEF Ready
<1> QED BY <1>2, <1>3

\* The others have the texts they had.
LEMMA WroteBeside ==
  ASSUME NEW s, NEW t, NEW b, NEW from, NEW data, Wrote(s, t, b, from, data), NEW a \in Buffers,
         a # b, Len(Pages(s, a)) \in Nat, Ready(s, a)
  PROVE  Text(t, a) = Text(s, a)
<1>1. Begin(t, a) = Begin(s, a) /\ End(t, a) = End(s, a) BY DEF Wrote, Beheld
<1>2. CASE Begin(s, a) = NoPosition BY <1>1, <1>2 DEF Text
<1>3. CASE Begin(s, a) # NoPosition
  <2>1. ASSUME NEW x \in Begin(s, a)..End(s, a) - 1 PROVE ByteAt(t, a, x) = ByteAt(s, a, x)
    <3>1. (x \div PageSize) + 1 \in 1..Len(Pages(s, a)) BY <1>3, LivePage
    <3>2. x \in Int BY <1>3, ReadyParts
    <3> QED BY <3>1, <3>2 DEF Wrote
  <2> QED BY <1>1, <2>1, TextBeside
<1> QED BY <1>2, <1>3

(*** Pushes. ***)

\* The others have positions only with bytes.
Aside(s, b) == \A a \in Buffers : a # b => Trim(s, a)

\* The text of b is now x, and no other has changed.
OnlyText(s, t, b, x) ==
  Text(t, b) = x /\ \A a \in Buffers : a # b => Text(t, a) = Text(s, a)

\* Two sequences behind one another.
LEMMA Joined ==
  ASSUME NEW x \in Seq(Nat), NEW y \in Seq(Nat), NEW z \in Seq(Nat), Len(z) = Len(x) + Len(y),
         \A i \in 1..Len(x) : z[i] = x[i],
         \A i \in 1..Len(y) : z[Len(x) + i] = y[i]
  PROVE  z = x \o y
<1> DEFINE w == x \o y
<1>1. Len(x) \in Nat /\ Len(y) \in Nat OBVIOUS
<1>2. w \in Seq(Nat) /\ Len(w) = Len(x) + Len(y) OBVIOUS
<1>3. ASSUME NEW i \in 1..Len(z) PROVE z[i] = w[i]
  <2>1. CASE i <= Len(x)
    <3>1. i \in 1..Len(x) BY <1>1, <2>1
    <3>2. w[i] = x[i] BY <3>1
    <3> QED BY <3>1, <3>2
  <2>2. CASE i > Len(x)
    <3> DEFINE j == i - Len(x)
    <3>1. j \in 1..Len(y) /\ Len(x) + j = i BY <1>1, <2>2
    <3>2. w[i] = y[j] BY <3>1
    <3> HIDE DEF j
    <3>3. z[Len(x) + j] = y[j] BY <3>1
    <3> QED BY <3>1, <3>2, <3>3
  <2> QED BY <1>1, <2>1, <2>2
<1> HIDE DEF w
<1>4. z = w BY <1>2, <1>3
<1> QED BY <1>4 DEF w

\* What was the same is, and the only change is that of b, before and after.
LEMMA OnlyBetween ==
  ASSUME NEW s, NEW t, NEW u, NEW w, NEW b \in Buffers, NEW x,
         SameTexts(s, t), OnlyText(t, u, b, x), SameTexts(u, w)
  PROVE  OnlyText(s, w, b, x)
<1>1. \A a \in Buffers : Text(t, a) = Text(s, a) /\ Text(w, a) = Text(u, a) BY DEF SameTexts
<1> QED BY <1>1 DEF OnlyText

\* Bytes are written behind those of b, and then counted.
LEMMA WriteBehindIs ==
  ASSUME NEW s, Fine(s), NEW b \in Buffers, Aside(s, b), NEW data, data \in Seq(Nat), data # <<>>,
         End(s, b) + Len(data) <= Len(Pages(s, b)) * PageSize,
         NEW x, x = IF Begin(s, b) = NoPosition THEN 0 ELSE Begin(s, b)
  PROVE  /\ Proper(SetRange(Write(s, b, End(s, b), data), b, x, End(s, b) + Len(data)))
         /\ OnlyText(s, SetRange(Write(s, b, End(s, b), data), b, x, End(s, b) + Len(data)), b,
                     Text(s, b) \o data)
<1> DEFINE e == End(s, b)
           n == Len(data)
           y == e + n
           w == Write(s, b, e, data)
           t == SetRange(w, b, x, y)
<1>1. n \in Nat /\ n > 0 OBVIOUS
<1>2. e \in Nat /\ Ready(s, b) /\ Len(Pages(s, b)) \in Nat /\ Sound(s, {})
  BY ReadyParts, SoundParts DEF Fine
<1>3. /\ x \in Nat /\ x <= e
      /\ Begin(s, b) # NoPosition => x = Begin(s, b)
      /\ Begin(s, b) = NoPosition => x = 0 /\ e = 0
  BY <1>2, ReadyParts
<1>4. Wrote(s, w, b, e, data) BY <1>2, WriteIs
<1> HIDE DEF w
<1>5. Fine(w)
  <2>1. \A a \in Buffers : Ready(s, a) /\ Len(Pages(s, a)) \in Nat BY SoundParts DEF Fine
  <2>2. \A a \in Buffers : Ready(w, a) BY <1>4, <2>1, WroteReady
  <2> QED BY <1>4, <2>2 DEF Wrote, Fine
<1>6. Pages(w, b) = Pages(s, b) /\ Begin(w, b) = Begin(s, b) /\ End(w, b) = e
  BY <1>4 DEF Wrote, Beheld
<1>7. /\ \A z \in e..e + n - 1 : ByteAt(w, b, z) \in Nat
      /\ \A i \in 1..n : ByteAt(w, b, e + i - 1) = data[i]
  BY <1>4 DEF Wrote
<1>15. ASSUME Begin(s, b) # NoPosition, NEW z \in x..e - 1 PROVE ByteAt(w, b, z) = ByteAt(s, b, z)
  <2>1. z \in Begin(s, b)..End(s, b) - 1 BY <1>3, <1>15
  <2>2. (z \div PageSize) + 1 \in 1..Len(Pages(s, b)) BY <1>2, <1>15, <2>1, LivePage
  <2>3. z \in Int /\ z < e BY <1>2, <1>3, <1>15
  <2> HIDE DEF e
  <2> QED BY <1>4, <2>2, <2>3 DEF Wrote
<1>16. ASSUME NEW a \in Buffers, a # b PROVE Text(w, a) = Text(s, a)
  <2>1. Ready(s, a) /\ Len(Pages(s, a)) \in Nat BY SoundParts DEF Fine
  <2> QED BY <1>4, <1>16, <2>1, WroteBeside
<1>17. /\ Text(s, b) \in Seq(Nat) /\ Len(Text(s, b)) = e - x
       /\ \A i \in 1..e - x : Begin(s, b) # NoPosition /\ Text(s, b)[i] = ByteAt(s, b, x + i - 1)
  <2>1. Text(s, b) \in Seq(Nat) BY <1>2, TextIs
  <2>2. CASE Begin(s, b) = NoPosition
    <3>1. Text(s, b) = <<>> /\ e - x = 0 BY <1>2, <1>3, <2>2, TextIs
    <3> HIDE DEF e
    <3> QED BY <3>1
  <2>3. CASE Begin(s, b) # NoPosition
    <3>1. x = Begin(s, b) BY <1>3, <2>3
    <3> QED BY <1>2, <2>1, <2>3, <3>1, TextIs
  <2> QED BY <2>2, <2>3
<1>8. Begin(s, b) # NoPosition => \A z \in x..e - 1 : ByteAt(w, b, z) \in Nat
  BY <1>3, <1>5, <1>6, ReadyParts DEF Fine
<1>9. y <= Len(Pages(w, b)) * PageSize BY <1>6
<1> HIDE DEF e, n
<1>10. Fits(w, b, x, y)
  <2>1. ASSUME NEW z \in x..y - 1 PROVE ByteAt(w, b, z) \in Nat
    <3>1. CASE z >= e
      <4>1. z \in e..e + n - 1 BY <1>1, <1>2, <1>3, <3>1
      <4> QED BY <1>7, <4>1
    <3>2. CASE z < e
      <4>1. z \in x..e - 1 /\ Begin(s, b) # NoPosition BY <1>1, <1>2, <1>3, <3>2
      <4> QED BY <1>8, <4>1
    <3> QED BY <1>2, <1>3, <3>1, <3>2
  <2>2. x \in Nat /\ y \in Nat /\ x <= y BY <1>1, <1>2, <1>3
  <2> QED BY <1>9, <2>1, <2>2 DEF Fits
<1>11. x < y BY <1>1, <1>2, <1>3
<1>18. y = e + n OBVIOUS
<1> HIDE DEF y
<1>12. /\ Fine(t) /\ Ranged(w, t, b, x, y)
       /\ \A a \in Buffers : a # b => Text(t, a) = Text(w, a)
  BY <1>5, <1>10, RangeKeeps
<1> HIDE DEF t
<1>13. ASSUME NEW a \in Buffers PROVE Trim(t, a)
  <2>1. CASE a = b BY <1>11, <1>12, <2>1 DEF Trim, Ranged
  <2>2. CASE a # b
    <3>1. Begin(t, a) = Begin(s, a) /\ End(t, a) = End(s, a) /\ Trim(s, a)
      BY <1>4, <1>12, <2>2 DEF Ranged, Wrote, Beheld, Aside
    <3> QED BY <3>1 DEF Trim
  <2> QED BY <2>1, <2>2
<1>14. Proper(t) BY <1>12, <1>13 DEF Proper
<1>19. Text(t, b) = Text(s, b) \o data
  <2> DEFINE X == Text(s, b)
             Z == Text(t, b)
             m == e - x
  <2>1. m \in Nat /\ x + m = e BY <1>2, <1>3
  <2>2. Begin(t, b) = x /\ End(t, b) = y /\ Ready(t, b) /\ x # NoPosition
    BY <1>3, <1>12 DEF Ranged, Fine, NoPosition
  <2>3. /\ Z \in Seq(Nat) /\ Len(Z) = y - x
        /\ \A i \in 1..Len(Z) : Z[i] = ByteAt(t, b, x + i - 1)
    BY <2>2, TextIs
  <2>4. \A z : ByteAt(t, b, z) = ByteAt(w, b, z) BY <1>12 DEF Ranged, ByteAt, PageAt
  <2>5. Len(X) = m /\ X \in Seq(Nat) /\ \A i \in 1..m : X[i] = ByteAt(s, b, x + i - 1)
    BY <1>17
  <2>6. m > 0 => Begin(s, b) # NoPosition BY <1>17, <2>1
  <2> HIDE DEF X, Z, m
  <2>7. Len(Z) = m + n BY <1>1, <1>3, <1>18, <2>1, <2>3
  <2>8. ASSUME NEW i \in 1..m PROVE Z[i] = X[i]
    <3>1. i \in 1..Len(Z) /\ x + i - 1 \in x..e - 1 /\ m > 0 BY <1>1, <1>3, <2>1, <2>7
    <3>2. ByteAt(w, b, x + i - 1) = ByteAt(s, b, x + i - 1) BY <1>15, <2>6, <3>1
    <3> QED BY <2>3, <2>4, <2>5, <3>1, <3>2
  <2>9. ASSUME NEW i \in 1..n PROVE Z[m + i] = data[i]
    <3>0. x \in Nat /\ e \in Nat /\ n \in Nat /\ i \in 1..n BY <1>1, <1>2, <1>3
    <3>1. m + i \in 1..Len(Z) /\ x + (m + i) - 1 = e + i - 1 BY ONLY <2>1, <2>7, <3>0
    <3>2. Z[m + i] = ByteAt(t, b, x + (m + i) - 1) BY <2>3, <3>1
    <3> QED BY <1>7, <2>4, <3>1, <3>2
  <2>10. n = Len(data) BY DEF n
  <2>11. Z = X \o data BY <2>3, <2>5, <2>7, <2>8, <2>9, <2>10, Joined
  <2> QED BY <2>11 DEF X, Z
<1>20. OnlyText(s, t, b, Text(s, b) \o data) BY <1>12, <1>16, <1>19 DEF OnlyText
<1> QED BY <1>14, <1>20 DEF t, w, y, e, n

\* From x, there is room for data before rest, the bytes from there to y.
Fronting(s, b, data, x, y, rest) ==
  /\ x \in Nat /\ y \in Nat /\ rest \in Seq(Nat)
  /\ x + Len(data) <= y /\ y <= Len(Pages(s, b)) * PageSize
  /\ \A z \in x + Len(data)..y - 1 : ByteAt(s, b, z) \in Nat
  /\ y = (x + Len(data)) + Len(rest)
  /\ \A i \in 1..Len(rest) : rest[i] = ByteAt(s, b, (x + Len(data)) + i - 1)

\* b starts at x in u, and w, where it has this text, is proper.
Fronted(s, u, b, w, x, text) == Begin(u, b) = x /\ Proper(w) /\ OnlyText(s, w, b, text)

\* data is written before the bytes of b, in pages that are there.
LEMMA WriteBeforeIs ==
  ASSUME NEW s, Fine(s), NEW b \in Buffers, Aside(s, b), NEW data, data \in Seq(Nat), data # <<>>,
         NEW x, NEW y, NEW rest, Fronting(s, b, data, x, y, rest), NEW u, u = SetRange(s, b, x, y)
  PROVE  Fronted(s, u, b, Write(u, b, x, data), x, data \o rest)
<1> SUFFICES ASSUME x \in Nat, y \in Nat, rest \in Seq(Nat), x + Len(data) <= y,
                    y <= Len(Pages(s, b)) * PageSize,
                    \A z \in x + Len(data)..y - 1 : ByteAt(s, b, z) \in Nat,
                    y = (x + Len(data)) + Len(rest),
                    \A i \in 1..Len(rest) : rest[i] = ByteAt(s, b, (x + Len(data)) + i - 1)
             PROVE  /\ Begin(u, b) = x /\ Proper(Write(u, b, x, data))
                    /\ OnlyText(s, Write(u, b, x, data), b, data \o rest)
  BY Zenon DEF Fronting, Fronted
<1> DEFINE n == Len(data)
           w == Write(u, b, x, data)
<1>1. n \in Nat /\ n > 0 OBVIOUS
<1>2. Len(Pages(s, b)) \in Nat /\ Sound(s, {}) /\ Shaped(s) BY SoundParts DEF Fine, Sound
<1>3. Ranged(s, u, b, x, y) BY <1>2, SetRangeIs
<1>4. Sound(u, {}) BY <1>2, <1>3, SoundRanged
<1>5. /\ u.heap = s.heap /\ Pages(u, b) = Pages(s, b) /\ Begin(u, b) = x /\ End(u, b) = y
      /\ \A a \in Buffers : Pages(u, a) = Pages(s, a) /\ (a # b => Beheld(s, u, a))
  BY <1>3 DEF Ranged, Beheld
<1>6. Len(Pages(s, b)) * PageSize \in Nat BY <1>2, RowSize
<1>7. x + n <= Len(Pages(u, b)) * PageSize
  <2> DEFINE m == Len(Pages(s, b)) * PageSize
  <2>1. x + n <= y /\ y <= m /\ m \in Nat BY <1>6
  <2> HIDE DEF m, n
  <2>2. x + n <= m BY <1>1, <2>1
  <2> QED BY <1>5, <2>2 DEF m
<1>8. Wrote(u, w, b, x, data) BY <1>4, <1>7, WriteIs
<1> HIDE DEF w
<1>9. ASSUME NEW a \in Buffers, a # b
      PROVE  Ready(w, a) /\ Trim(w, a) /\ Text(w, a) = Text(s, a)
  <2>1. Ready(s, a) /\ Len(Pages(s, a)) \in Nat BY SoundParts DEF Fine
  <2>7. Intact(s, u, a) BY <1>5, <1>9, <2>1, SameKeeps DEF Beheld
  <2>2. Ready(u, a) /\ Text(u, a) = Text(s, a) BY <2>7 DEF Intact
  <2>3. Len(Pages(u, a)) \in Nat BY <1>5, <2>1
  <2>4. Ready(w, a) BY <1>8, <2>2, <2>3, WroteReady
  <2>5. Beheld(u, w, a) /\ Beheld(s, u, a) /\ Trim(s, a) BY <1>5, <1>8, <1>9 DEF Wrote, Aside
  <2>6. Trim(w, a) BY <2>5 DEF Beheld, Trim
  <2>8. Text(w, a) = Text(u, a) BY <1>8, <1>9, <2>2, <2>3, WroteBeside
  <2> QED BY <2>2, <2>4, <2>6, <2>8
<1>10. Begin(w, b) = x /\ End(w, b) = y /\ Pages(w, b) = Pages(s, b)
  BY <1>5, <1>8 DEF Wrote, Beheld
<1>14. \A z \in x + n..y - 1 : ByteAt(s, b, z) \in Nat OBVIOUS
<1>15. x + n <= y OBVIOUS
<1>17. \A i \in 1..n : ByteAt(w, b, x + i - 1) = data[i] BY <1>8 DEF Wrote
<1>18. /\ Len(rest) \in Nat /\ y = (x + n) + Len(rest) /\ n = Len(data)
       /\ \A i \in 1..Len(rest) : rest[i] = ByteAt(s, b, (x + n) + i - 1)
  OBVIOUS
<1>19. \A z \in Int : /\ (z \div PageSize) + 1 \in 1..Len(Pages(s, b)) /\ z >= x + n
                      => ByteAt(w, b, z) = ByteAt(s, b, z)
  <2>1. \A z : ByteAt(u, b, z) = ByteAt(s, b, z) BY <1>5 DEF ByteAt, PageAt
  <2> QED BY <1>5, <1>8, <2>1 DEF Wrote
<1> HIDE DEF n
<1>11. ASSUME NEW z \in x..y - 1 PROVE ByteAt(w, b, z) \in Nat
  <2>1. CASE z < x + n
    <3>1. z \in x..x + n - 1 BY <1>1, <2>1
    <3> DEFINE i == (z - x) + 1
    <3>2. i \in 1..n /\ x + i - 1 = z BY <1>1, <3>1
    <3> HIDE DEF i
    <3>3. ByteAt(w, b, z) = data[i] BY <1>17, <3>2
    <3>4. i \in 1..Len(data) BY <1>18, <3>2
    <3> QED BY <3>3, <3>4
  <2>2. CASE z >= x + n
    <3>1. z \in x + n..y - 1 /\ z \in Nat /\ z < y BY <1>1, <2>2
    <3>2. ByteAt(u, b, z) \in Nat
      <4>1. ByteAt(u, b, z) = ByteAt(s, b, z) BY <1>5 DEF ByteAt, PageAt
      <4> QED BY <1>14, <3>1, <4>1
    <3>3. z < Len(Pages(s, b)) * PageSize
      <4> DEFINE m == Len(Pages(s, b)) * PageSize
      <4>1. y <= m /\ m \in Nat BY <1>6
      <4> HIDE DEF m
      <4>2. z < m BY <3>1, <4>1
      <4> QED BY <4>2 DEF m
    <3>4. (z \div PageSize) + 1 \in 1..Len(Pages(s, b)) BY <1>2, <3>1, <3>3, PositionIn
    <3>5. z \in Int BY <3>1
    <3> QED BY <1>5, <1>8, <3>2, <3>4, <3>5 DEF Wrote
  <2> QED BY <1>1, <2>1, <2>2
<1>12. x < y BY <1>1, <1>15
<1>13. Ready(w, b) /\ Trim(w, b)
  <2>1. Ready(w, b) BY <1>10, <1>11, <1>12 DEF Ready, NoPosition
  <2>2. Trim(w, b) BY <1>10, <1>12 DEF Trim
  <2> QED BY <2>1, <2>2
<1>16. Proper(w) BY <1>8, <1>9, <1>13 DEF Proper, Fine, Wrote
<1>20. Text(w, b) = data \o rest
  <2> DEFINE Z == Text(w, b)
  <2>1. /\ Z \in Seq(Nat) /\ Len(Z) = y - x
        /\ \A i \in 1..Len(Z) : Z[i] = ByteAt(w, b, x + i - 1)
    <3>1. Ready(w, b) /\ Begin(w, b) = x /\ End(w, b) = y BY <1>10, <1>13
    <3>2. Begin(w, b) # NoPosition BY <3>1 DEF NoPosition
    <3> QED BY ONLY <3>1, <3>2, TextIs
  <2> HIDE DEF Z
  <2>2. Len(Z) = n + Len(rest)
    <3>1. /\ Len(Z) = y - x /\ y = (x + n) + Len(rest) /\ x \in Nat /\ y \in Nat /\ n \in Nat
          /\ Len(rest) \in Nat
      BY <1>1, <1>18, <2>1
    <3> QED BY ONLY <3>1
  <2>3. ASSUME NEW i \in 1..n PROVE Z[i] = data[i]
    <3>1. i \in 1..Len(Z) BY <1>1, <1>18, <2>2
    <3> QED BY <1>17, <2>1, <3>1
  <2>4. ASSUME NEW i \in 1..Len(rest) PROVE Z[n + i] = rest[i]
    <3> DEFINE z == (x + n) + i - 1
    <3>0. x \in Nat /\ y \in Nat OBVIOUS
    <3>1. n + i \in 1..Len(Z) /\ x + (n + i) - 1 = z /\ z \in x..y - 1 /\ z >= x + n /\ z \in Nat
      BY ONLY <1>1, <1>18, <2>2, <3>0, i \in 1..Len(rest)
    <3>3. rest[i] = ByteAt(s, b, z) BY <1>18
    <3> HIDE DEF z
    <3>2. (z \div PageSize) + 1 \in 1..Len(Pages(w, b))
      <4>1. Ready(w, b) /\ Begin(w, b) # NoPosition /\ Len(Pages(w, b)) \in Nat
        BY <1>2, <1>10, <1>13 DEF NoPosition
      <4> QED BY <1>10, <3>1, <4>1, LivePage
    <3>4. ByteAt(w, b, z) = ByteAt(s, b, z) BY <1>10, <1>19, <3>1, <3>2
    <3>5. Z[n + i] = ByteAt(w, b, x + (n + i) - 1) BY <2>1, <3>1
    <3> QED BY <3>1, <3>3, <3>4, <3>5
  <2>5. Z = data \o rest BY <1>18, <2>1, <2>2, <2>3, <2>4, Joined
  <2> QED BY <2>5 DEF Z
<1>21. OnlyText(s, w, b, data \o rest) BY <1>9, <1>20 DEF OnlyText
<1> QED BY <1>5, <1>16, <1>21 DEF w

\* push_back_n
LEMMA PushBackIs ==
  ASSUME NEW s0, Proper(s0), NEW b \in Buffers, NEW data, data \in Seq(Nat)
  PROVE  /\ Proper(PushBackN(s0, b, data))
         /\ OnlyText(s0, PushBackN(s0, b, data), b, Text(s0, b) \o data)
<1> DEFINE s == Check(s0, b)
           z == 0
           r == SetRange(s, b, z, z)
           t == IF Begin(s, b) = NoPosition THEN r ELSE s
           x == Len(data) + End(t, b)
           m == CeilDiv(x)
           u == AddBacks!Times(m - Len(Pages(t, b)), t, b)
           v == SetRange(Write(u, b, End(u, b), data), b, Begin(u, b), End(u, b) + Len(data))
<1>1. PushBackN(s0, b, data) = IF data = <<>> THEN s ELSE v BY DEF PushBackN
<1>2. Checked(s0, s, b) BY CheckIs DEF Proper
<1> HIDE DEF s
<1>3. Fine(s) /\ SameTexts(s0, s) /\ \A a \in Buffers : Trim(s, a)
  BY <1>2 DEF Checked, Proper, Beheld, Trim
<1>6. Text(s0, b) \in Seq(Nat)
  <2>1. Ready(s0, b) BY DEF Proper, Fine
  <2> QED BY <2>1, TextIs
<1>4. CASE data = <<>>
  <2> DEFINE X == Text(s0, b)
  <2>1. Text(s, b) = X /\ X \in Seq(Nat) BY <1>3, <1>6 DEF SameTexts
  <2> HIDE DEF X
  <2>2. X \o data = X BY <1>4, <2>1
  <2>3. OnlyText(s0, s, b, Text(s0, b) \o data) BY <1>3, <2>1, <2>2 DEF OnlyText, SameTexts, X
  <2> QED BY <1>1, <1>3, <1>4, <2>3 DEF Proper
<1>5. CASE data # <<>>
  <2>1. Fine(t) /\ SameTexts(s, t) /\ Begin(t, b) # NoPosition /\ Aside(t, b)
    <3>1. CASE Begin(s, b) = NoPosition
      <4>1. Fits(s, b, z, z)
        <5>1. Len(Pages(s, b)) \in Nat BY <1>3, SoundParts DEF Fine
        <5>2. Len(Pages(s, b)) * PageSize >= 0 BY <5>1, RowSize
        <5> QED BY <5>2 DEF Fits
      <4>2. z # NoPosition BY DEF NoPosition
      <4> HIDE DEF z
      <4>3. /\ Fine(r) /\ Ranged(s, r, b, z, z)
            /\ \A a \in Buffers : a # b => Text(r, a) = Text(s, a)
        BY <1>3, <4>1, RangeKeeps
      <4>5. Text(s, b) = <<>>
        <5>1. Ready(s, b) BY <1>3 DEF Fine
        <5> QED BY <3>1, <5>1, TextIs
      <4>7. z \in Nat BY DEF z
      <4>4. t = r BY <3>1
      <4> HIDE DEF t, r
      <4>6. SameTexts(s, t)
        <5>1. Ready(t, b) /\ Begin(t, b) >= End(t, b) BY <4>3, <4>4, <4>7 DEF Fine, Ranged
        <5>2. Text(t, b) = <<>> BY <5>1, NoText
        <5> QED BY <4>3, <4>4, <4>5, <5>2 DEF SameTexts
      <4> QED BY <1>3, <4>2, <4>3, <4>4, <4>6 DEF Ranged, Aside, Trim
    <3>2. CASE Begin(s, b) # NoPosition
      <4>1. t = s BY <3>2
      <4> QED BY <1>3, <3>2, <4>1 DEF Aside, SameTexts
    <3> QED BY <3>1, <3>2
  <2> HIDE DEF t
  <2>2. End(t, b) \in Nat /\ Len(data) \in Nat BY <2>1, ReadyParts DEF Fine
  <2>3. x \in Int /\ x = End(t, b) + Len(data) BY <2>2
  <2> HIDE DEF x
  <2>4. m \in Int /\ m * PageSize >= x BY <2>3, CeilIs
  <2> HIDE DEF m
  <2>5. Extended(t, u, b, m) BY <2>1, <2>4, AddBacksTo
  <2> HIDE DEF u
  <2>6. Fine(u) /\ Begin(u, b) # NoPosition /\ End(u, b) = End(t, b) /\ Aside(u, b)
    BY <2>1, <2>5 DEF Extended, Beheld, Aside, Trim
  <2>7. End(u, b) + Len(data) <= Len(Pages(u, b)) * PageSize
    <3> DEFINE l == Len(Pages(u, b))
    <3>1. l \in Int /\ m <= l BY <2>4, <2>5, <2>6, SoundParts DEF Extended, Fine
    <3> HIDE DEF l
    <3>2. m * PageSize <= l * PageSize /\ m * PageSize \in Int /\ l * PageSize \in Int
      BY <2>4, <3>1, MorePages
    <3> DEFINE h == m * PageSize
               f == l * PageSize
    <3>3. h <= f /\ h \in Int /\ f \in Int /\ h >= x BY <2>4, <3>2
    <3> HIDE DEF h, f
    <3>4. x <= f BY <2>3, <3>3
    <3> QED BY <2>3, <2>6, <3>4 DEF f, l
  <2>8. Begin(u, b) = IF Begin(u, b) = NoPosition THEN 0 ELSE Begin(u, b) BY <2>6
  <2>9. Proper(v) /\ OnlyText(u, v, b, Text(u, b) \o data)
    BY <1>5, <2>6, <2>7, <2>8, WriteBehindIs
  <2>10. SameTexts(s0, u) /\ SameTexts(v, v) /\ Text(u, b) = Text(s0, b)
    BY <1>3, <2>1, <2>5 DEF Extended, SameTexts
  <2> HIDE DEF v
  <2>11. OnlyText(s0, v, b, Text(s0, b) \o data) BY <2>9, <2>10, OnlyBetween
  <2> QED BY <1>1, <1>5, <2>9, <2>11
<1> QED BY <1>4, <1>5

\* Pages are added before an empty buffer until there are m.
LEMMA AddFrontsTo ==
  ASSUME NEW b \in Buffers, NEW s, Fine(s), Begin(s, b) = NoPosition, NEW m \in Int
  PROVE  Extended(s, AddFronts!Times(m - Len(Pages(s, b)), s, b), b, m)
<1> DEFINE n == m - Len(Pages(s, b))
           t == AddFronts!Times(n, s, b)
<1>0. Len(Pages(s, b)) \in Nat BY SoundParts DEF Fine
<1>1. n \in Int /\ Len(Pages(s, b)) + n = m BY <1>0
<1> HIDE DEF n
<1>2. CASE n <= 0
  <2>1. t = s BY ONLY <1>1, <1>2, AddFronts!NoTurn DEF t
  <2>2. Len(Pages(s, b)) >= m BY <1>0, <1>1, <1>2
  <2>3. Extended(s, s, b, m) BY <2>2 DEF Extended, Beheld, SameTexts
  <2> QED BY <2>1, <2>3 DEF n
<1>3. CASE n > 0
  <2>1. n \in Nat BY <1>1, <1>3
  <2>2. Extended(s, t, b, Len(Pages(s, b)) + n) BY <2>1, AddFrontsEmpty
  <2> QED BY <1>1, <2>2 DEF n
<1> QED BY <1>1, <1>2, <1>3

\* As many pages before the bytes of b as n bytes need: then they fit before begin.
LEMMA RoomInFront ==
  ASSUME NEW b \in Buffers, NEW s, Fine(s), Begin(s, b) # NoPosition, NEW n \in Nat,
         NEW t, t = AddFronts!Times(CeilDiv(n - Begin(s, b)), s, b)
  PROVE  /\ Fine(t) /\ SameTexts(s, t) /\ Begin(t, b) # NoPosition /\ Begin(t, b) - n \in Nat
         /\ \A a \in Buffers : a # b => Beheld(s, t, a)
<1> DEFINE x == Begin(s, b)
           m == n - x
           k == CeilDiv(m)
           h == k * PageSize
<1>1. x \in Nat /\ m \in Int /\ m = n - x
  <2>1. x \in Nat BY ReadyParts DEF Fine
  <2> QED BY <2>1
<1>2. t = AddFronts!Times(k, s, b) /\ Begin(s, b) = x OBVIOUS
<1> HIDE DEF x, m
<1>3. k \in Int /\ h >= m BY <1>1, CeilIs
<1> HIDE DEF k
<1>4. CASE k <= 0
  <2>1. t = s BY ONLY <1>2, <1>3, <1>4, AddFronts!NoTurn
  <2>2. h <= 0
    <3> DEFINE z == 0
    <3>1. z \in Int /\ z * PageSize = 0 /\ k <= z BY <1>4, SizeIs
    <3> HIDE DEF z
    <3> QED BY <1>3, <3>1, MorePages
  <2>3. h \in Int BY <1>3, SizeIs, Z3
  <2> HIDE DEF h
  <2>4. x - n \in Nat BY <1>1, <1>3, <2>2, <2>3
  <2> QED BY <1>2, <2>1, <2>4 DEF Beheld, SameTexts
<1>5. CASE k > 0
  <2>1. k \in Nat BY <1>3, <1>5
  <2>2. Raised(s, t, b, k) BY <1>2, <2>1, AddFrontsIs
  <2>3. h \in Nat BY <2>1, RowSize
  <2>4. /\ Fine(t) /\ SameTexts(s, t) /\ Begin(t, b) = x + h
        /\ \A a \in Buffers : a # b => Beheld(s, t, a)
    BY <1>2, <2>2 DEF Raised
  <2> HIDE DEF h
  <2>5. Begin(t, b) - n \in Nat /\ Begin(t, b) # NoPosition BY <1>1, <1>3, <2>3, <2>4 DEF NoPosition
  <2> QED BY <2>4, <2>5
<1> QED BY <1>3, <1>4, <1>5

\* push_front_n
LEMMA PushFrontIs ==
  ASSUME NEW s0, Proper(s0), NEW b \in Buffers, NEW data, data \in Seq(Nat)
  PROVE  /\ Proper(PushFrontN(s0, b, data))
         /\ OnlyText(s0, PushFrontN(s0, b, data), b, data \o Text(s0, b))
<1> DEFINE s == Check(s0, b)
           n == Len(data)
           more == IF Begin(s, b) = NoPosition THEN CeilDiv(n) - Len(Pages(s, b))
                   ELSE CeilDiv(n - Begin(s, b))
           t == AddFronts!Times(more, s, b)
           u == IF Begin(s, b) = NoPosition THEN SetRange(t, b, 0, n)
                ELSE SetRange(t, b, Begin(t, b) - n, End(t, b))
           w == Write(u, b, Begin(u, b), data)
<1>1. PushFrontN(s0, b, data) = IF data = <<>> THEN s0 ELSE w BY DEF PushFrontN
<1>2. Checked(s0, s, b) BY CheckIs DEF Proper
<1> HIDE DEF s
<1>3. Fine(s) /\ SameTexts(s0, s) /\ \A a \in Buffers : Trim(s, a)
  BY <1>2 DEF Checked, Proper, Beheld, Trim
<1> DEFINE X == Text(s0, b)
<1>8. X \in Seq(Nat) /\ SameTexts(s0, s0)
  <2>1. Ready(s0, b) BY DEF Proper, Fine
  <2> QED BY <2>1, TextIs DEF SameTexts
<1>9. Text(s0, b) = X OBVIOUS
<1> HIDE DEF X
<1>4. n \in Nat OBVIOUS
<1>5. CASE data = <<>>
  <2>1. data \o X = X BY <1>5, <1>8
  <2>2. OnlyText(s0, s0, b, data \o X) BY <1>8, <1>9, <2>1 DEF OnlyText
  <2> QED BY <1>1, <1>5, <1>9, <2>2
<1>6. CASE data # <<>> /\ Begin(s, b) = NoPosition
  <2> DEFINE m == CeilDiv(n)
             z == 0
  <2>1. t = AddFronts!Times(m - Len(Pages(s, b)), s, b) /\ u = SetRange(t, b, z, n) BY <1>6
  <2>2. m \in Int /\ m * PageSize >= n BY <1>4, CeilIs
  <2> HIDE DEF m, t, u
  <2>3. Extended(s, t, b, m) BY <1>3, <1>6, <2>1, <2>2, AddFrontsTo
  <2>4. Fine(t) /\ SameTexts(s0, t) /\ Aside(t, b)
    BY <1>3, <2>3 DEF Extended, Beheld, Aside, Trim, SameTexts
  <2>9. X = <<>>
    <3>1. Ready(s, b) /\ Text(s, b) = X BY <1>3, <1>9 DEF Fine, SameTexts
    <3> QED BY <1>6, <3>1, TextIs
  <2>5. n <= Len(Pages(t, b)) * PageSize
    <3> DEFINE l == Len(Pages(t, b))
    <3>1. l \in Int /\ m <= l BY <2>2, <2>3, <2>4, SoundParts DEF Extended, Fine
    <3> HIDE DEF l
    <3>2. m * PageSize <= l * PageSize /\ m * PageSize \in Int /\ l * PageSize \in Int
      BY <2>2, <3>1, MorePages
    <3> DEFINE h == m * PageSize
               f == l * PageSize
    <3>3. h <= f /\ h \in Int /\ f \in Int /\ h >= n BY <2>2, <3>2
    <3> HIDE DEF h, f, n
    <3>4. n <= f BY <1>4, <3>3
    <3> QED BY <3>4 DEF f, l
  <2> DEFINE y == n
  <2>6. /\ z \in Nat /\ z + Len(data) <= y /\ y \in Nat
        /\ \A x \in z + Len(data)..y - 1 : ByteAt(t, b, x) \in Nat
        /\ y = (z + Len(data)) + Len(X)
        /\ \A i \in 1..Len(X) : X[i] = ByteAt(t, b, (z + Len(data)) + i - 1)
    BY <1>4, <2>9
  <2>8. u = SetRange(t, b, z, y) /\ y <= Len(Pages(t, b)) * PageSize BY <2>1, <2>5
  <2> HIDE DEF z, y
  <2> DEFINE v == Write(u, b, z, data)
  <2>7. Begin(u, b) = z /\ Proper(v) /\ OnlyText(t, v, b, data \o X)
    <3>1. Fronting(t, b, data, z, y, X) BY <1>8, <2>6, <2>8 DEF Fronting
    <3>2. u = SetRange(t, b, z, y) /\ Fine(t) /\ Aside(t, b) /\ data # <<>> BY <1>6, <2>4, <2>8
    <3>3. Fronted(t, u, b, v, z, data \o X) 
      BY ONLY <3>1, <3>2, WriteBeforeIs, b \in Buffers, data \in Seq(Nat)
    <3> QED BY <3>3 DEF Fronted
  <2>10. SameTexts(v, v) BY DEF SameTexts
  <2>11. w = v BY <2>7
  <2> HIDE DEF v, w
  <2>12. OnlyText(s0, v, b, data \o X) BY <2>4, <2>7, <2>10, OnlyBetween
  <2> QED BY <1>1, <1>6, <1>9, <2>7, <2>11, <2>12
<1>7. CASE data # <<>> /\ Begin(s, b) # NoPosition
  <2> DEFINE x == Begin(t, b) - n
             y == End(t, b)
  <2>1. t = AddFronts!Times(CeilDiv(n - Begin(s, b)), s, b) /\ u = SetRange(t, b, x, y) BY <1>7
  <2> HIDE DEF t, u
  <2>2. /\ Fine(t) /\ SameTexts(s, t) /\ Begin(t, b) # NoPosition /\ x \in Nat
        /\ \A a \in Buffers : a # b => Beheld(s, t, a)
    BY <1>3, <1>4, <1>7, <2>1, RoomInFront
  <2>3. Aside(t, b) BY <1>3, <2>2 DEF Beheld, Aside, Trim
  <2>4. /\ Begin(t, b) \in Nat /\ y \in Nat /\ Begin(t, b) <= y
        /\ y <= Len(Pages(t, b)) * PageSize
        /\ \A z \in Begin(t, b)..y - 1 : ByteAt(t, b, z) \in Nat
    BY <2>2, ReadyParts DEF Fine
  <2>5. x + n = Begin(t, b) BY <1>4, <2>4
  <2>6. x + n <= y /\ \A z \in x + n..y - 1 : ByteAt(t, b, z) \in Nat BY <2>4, <2>5
  <2>8. SameTexts(s0, t) BY <1>3, <2>2 DEF SameTexts
  <2>9. Len(X) = y - Begin(t, b) /\ \A i \in 1..Len(X) : X[i] = ByteAt(t, b, Begin(t, b) + i - 1)
    <3>1. Ready(t, b) /\ Text(t, b) = X BY <1>9, <2>2, <2>8 DEF Fine, SameTexts
    <3> QED BY <2>2, <3>1, TextIs
  <2>10. x \in Nat /\ y \in Nat BY <2>2, <2>4
  <2> HIDE DEF x, y
  <2>13. y = (x + n) + Len(X) BY <2>4, <2>5, <2>9, <2>10
  <2>14. /\ x + Len(data) <= y /\ \A z \in x + Len(data)..y - 1 : ByteAt(t, b, z) \in Nat
         /\ y = (x + Len(data)) + Len(X)
         /\ \A i \in 1..Len(X) : X[i] = ByteAt(t, b, (x + Len(data)) + i - 1)
    BY <2>5, <2>6, <2>9, <2>13
  <2> DEFINE v == Write(u, b, x, data)
  <2>7. Begin(u, b) = x /\ Proper(v) /\ OnlyText(t, v, b, data \o X)
    <3>1. Fronting(t, b, data, x, y, X) BY <1>8, <2>4, <2>10, <2>14 DEF Fronting
    <3>2. u = SetRange(t, b, x, y) /\ Fine(t) /\ Aside(t, b) /\ data # <<>>
      BY <1>7, <2>1, <2>2, <2>3
    <3>3. Fronted(t, u, b, v, x, data \o X)
      BY ONLY <3>1, <3>2, WriteBeforeIs, b \in Buffers, data \in Seq(Nat)
    <3> QED BY <3>3 DEF Fronted
  <2>15. SameTexts(v, v) BY DEF SameTexts
  <2>11. w = v BY <2>7
  <2> HIDE DEF v, w
  <2>12. OnlyText(s0, v, b, data \o X) BY <2>7, <2>8, <2>15, OnlyBetween
  <2> QED BY <1>1, <1>7, <1>9, <2>7, <2>11, <2>12
<1> QED BY <1>5, <1>6, <1>7

\* io::direct_read
LEMMA DirectReadIs ==
  ASSUME NEW s, Proper(s), NEW b \in Buffers, NEW data, data \in Seq(Nat)
  PROVE  /\ Proper(DirectReadN(s, b, data))
         /\ OnlyText(s, DirectReadN(s, b, data), b, Text(s, b) \o data)
<1> DEFINE e == End(s, b) + Len(data)
           m == (e \div PageSize) + 1
           t == AddBacks!Times(m - Len(Pages(s, b)), s, b)
           x == IF Begin(s, b) = NoPosition THEN 0 ELSE Begin(s, b)
           w == SetRange(Write(t, b, End(s, b), data), b, x, e)
<1>1. DirectReadN(s, b, data) = IF data = <<>> THEN t ELSE w
  <2> DEFINE q == e \div PageSize
             l == Len(Pages(s, b))
  <2>1. End(s, b) \in Nat /\ l \in Nat /\ Len(data) \in Nat
    BY ReadyParts, SoundParts DEF Proper, Fine
  <2>2. e \in Int BY <2>1
  <2> HIDE DEF e
  <2>3. q \in Int BY <2>2, Quot
  <2> HIDE DEF q, l
  <2>4. q + (1 - l) = (q + 1) - l BY <2>1, <2>3
  <2> QED BY <2>4 DEF DirectReadN, e, q, l
<1>2. Fine(s) /\ \A a \in Buffers : Trim(s, a) BY DEF Proper
<1>3. End(s, b) \in Nat /\ Len(data) \in Nat
  <2>1. Ready(s, b) BY <1>2 DEF Fine
  <2> QED BY <2>1, ReadyParts
<1>4. e \in Int /\ e = End(s, b) + Len(data) BY <1>3
<1>5. w = SetRange(Write(t, b, End(s, b), data), b, x, End(s, b) + Len(data)) OBVIOUS
<1> HIDE DEF e, w
<1>6. m \in Int /\ e < m * PageSize
  <2>1. e \div PageSize \in Int /\ e \div PageSize < m BY <1>4, Quot
  <2>2. m \in Int BY <2>1
  <2> HIDE DEF m
  <2> QED BY <1>4, <2>1, <2>2, QuotBelow
<1> HIDE DEF m
<1>7. Extended(s, t, b, m) BY <1>2, <1>6, AddBacksTo
<1> HIDE DEF t
<1>8. Fine(t) /\ SameTexts(s, t) /\ \A a \in Buffers : Beheld(s, t, a) /\ Trim(t, a)
  BY <1>2, <1>7 DEF Extended, Beheld, Trim
<1>9. CASE data = <<>>
  <2> DEFINE X == Text(s, b)
  <2>1. X \in Seq(Nat)
    <3>1. Ready(s, b) BY <1>2 DEF Fine
    <3> QED BY <3>1, TextIs
  <2> HIDE DEF X
  <2>2. X \o data = X BY <1>9, <2>1
  <2>3. OnlyText(s, t, b, X \o data) BY <1>8, <2>2 DEF OnlyText, SameTexts, X
  <2> QED BY <1>1, <1>8, <1>9, <2>3 DEF Proper, X
<1>10. CASE data # <<>>
  <2>1. End(t, b) = End(s, b) /\ Begin(t, b) = Begin(s, b) /\ Aside(t, b)
    BY <1>8 DEF Beheld, Aside
  <2>2. x = IF Begin(t, b) = NoPosition THEN 0 ELSE Begin(t, b) BY <2>1
  <2>3. End(t, b) + Len(data) <= Len(Pages(t, b)) * PageSize
    <3> DEFINE l == Len(Pages(t, b))
    <3>1. l \in Int /\ m <= l BY <1>6, <1>7, <1>8, SoundParts DEF Extended, Fine
    <3> HIDE DEF l
    <3>2. m * PageSize <= l * PageSize /\ m * PageSize \in Int /\ l * PageSize \in Int
      BY <1>6, <3>1, MorePages
    <3> DEFINE h == m * PageSize
               f == l * PageSize
    <3>3. h <= f /\ h \in Int /\ f \in Int /\ e < h BY <1>6, <3>2
    <3> HIDE DEF h, f
    <3>4. e <= f BY <1>4, <3>3
    <3> QED BY <1>4, <2>1, <3>4 DEF f, l
  <2> HIDE DEF x
  <2> DEFINE v == SetRange(Write(t, b, End(t, b), data), b, x, End(t, b) + Len(data))
  <2>4. Proper(v) /\ OnlyText(t, v, b, Text(t, b) \o data)
    BY <1>8, <1>10, <2>1, <2>2, <2>3, WriteBehindIs
  <2>5. w = v BY <1>5, <2>1
  <2> HIDE DEF v
  <2>6. SameTexts(v, v) /\ Text(t, b) = Text(s, b) BY <1>8 DEF SameTexts
  <2>7. OnlyText(s, v, b, Text(s, b) \o data) BY <1>8, <2>4, <2>6, OnlyBetween
  <2> QED BY <1>1, <1>10, <2>4, <2>5, <2>7
<1> QED BY <1>9, <1>10

(*** Pops. ***)

\* A part of the bytes of b fits where they are.
LEMMA PartFits ==
  ASSUME NEW s, Fine(s), NEW b \in Buffers, Begin(s, b) # NoPosition, NEW x \in Int, NEW y \in Int,
         Begin(s, b) <= x, x <= y, y <= End(s, b)
  PROVE  Fits(s, b, x, y)
<1>1. /\ Begin(s, b) \in Nat /\ End(s, b) \in Nat /\ End(s, b) <= Len(Pages(s, b)) * PageSize
      /\ \A z \in Begin(s, b)..End(s, b) - 1 : ByteAt(s, b, z) \in Nat
  BY ReadyParts DEF Fine
<1>2. Len(Pages(s, b)) * PageSize \in Nat
  <2>1. Len(Pages(s, b)) \in Nat BY SoundParts DEF Fine
  <2> QED BY <2>1, RowSize
<1> DEFINE m == Len(Pages(s, b)) * PageSize
<1>3. m \in Nat /\ End(s, b) <= m BY <1>1, <1>2
<1> HIDE DEF m
<1>4. x \in Nat /\ y \in Nat /\ y <= m BY <1>1, <1>3
<1>5. \A z \in x..y - 1 : z \in Begin(s, b)..End(s, b) - 1 BY <1>1
<1>6. \A z \in x..y - 1 : ByteAt(s, b, z) \in Nat BY <1>1, <1>5
<1> QED BY <1>4, <1>6 DEF Fits, m

\* No position fits too.
LEMMA NoneFits ==
  ASSUME NEW s, NEW b
  PROVE  Fits(s, b, NoPosition, 0)
BY DEF Fits

\* A buffer gets a range that fits, and is shrunk.
LEMMA CutIs ==
  ASSUME NEW s, Proper(s), NEW b \in Buffers, NEW x, NEW y, Fits(s, b, x, y)
  PROVE  /\ Proper(Shrink(SetRange(s, b, x, y), b))
         /\ OnlyText(s, Shrink(SetRange(s, b, x, y), b), b, Text(SetRange(s, b, x, y), b))
<1> DEFINE t == SetRange(s, b, x, y)
           u == Shrink(t, b)
<1>1. /\ Fine(t) /\ Ranged(s, t, b, x, y)
      /\ \A a \in Buffers : a # b => Text(t, a) = Text(s, a)
  BY RangeKeeps DEF Proper
<1> HIDE DEF t
<1>2. Trimmed(t, u, b) BY <1>1, ShrinkIs
<1> HIDE DEF u
<1>3. ASSUME NEW a \in Buffers PROVE Trim(u, a)
  <2>1. CASE a = b BY <1>2, <2>1 DEF Trimmed
  <2>2. CASE a # b
    <3>1. Begin(u, a) = Begin(s, a) /\ End(u, a) = End(s, a) /\ Trim(s, a)
      BY <1>1, <1>2, <2>2 DEF Trimmed, Ranged, Beheld, Proper
    <3> QED BY <3>1 DEF Trim
  <2> QED BY <2>1, <2>2
<1>4. Proper(u) BY <1>2, <1>3 DEF Proper, Trimmed
<1>5. OnlyText(s, u, b, Text(t, b)) BY <1>1, <1>2 DEF OnlyText, Trimmed, SameTexts
<1> QED BY <1>4, <1>5 DEF u, t

\* A part of the bytes of b stays.
LEMMA CutPart ==
  ASSUME NEW s, Proper(s), NEW b \in Buffers, Begin(s, b) # NoPosition,
         NEW x \in Int, NEW y \in Int, Begin(s, b) <= x, x <= y, y <= End(s, b)
  PROVE  /\ Proper(Shrink(SetRange(s, b, x, y), b))
         /\ OnlyText(s, Shrink(SetRange(s, b, x, y), b), b,
                     SubSeq(Text(s, b), (x - Begin(s, b)) + 1, y - Begin(s, b)))
<1> DEFINE t == SetRange(s, b, x, y)
           u == Shrink(t, b)
           f == Begin(s, b)
           X == Text(s, b)
           Z == Text(t, b)
           Y == SubSeq(X, (x - f) + 1, y - f)
<1>1. Fine(s) /\ Shaped(s) /\ Ready(s, b) BY DEF Proper, Fine, Sound
<1>2. Fits(s, b, x, y) BY <1>1, PartFits
<1>3. Proper(u) /\ OnlyText(s, u, b, Z) BY <1>2, CutIs
<1>4. Fine(t) /\ Ranged(s, t, b, x, y) BY <1>1, <1>2, RangeKeeps
<1> HIDE DEF t, u
<1>5. /\ Begin(t, b) = x /\ End(t, b) = y /\ Ready(t, b)
      /\ \A z : ByteAt(t, b, z) = ByteAt(s, b, z)
  BY <1>4 DEF Ranged, Fine, ByteAt, PageAt
<1>6. f \in Nat /\ End(s, b) \in Nat BY <1>1, ReadyParts
<1>7. f <= x /\ y <= End(s, b) /\ x <= y OBVIOUS
<1>8. /\ X \in Seq(Nat) /\ Len(X) = End(s, b) - f
      /\ \A i \in 1..Len(X) : X[i] = ByteAt(s, b, f + i - 1)
  BY <1>1, TextIs
<1>9. Z \in Seq(Nat) /\ Len(Z) = y - x /\ \A i \in 1..Len(Z) : Z[i] = ByteAt(t, b, x + i - 1)
  <2>1. x # NoPosition BY <1>6, <1>7 DEF NoPosition
  <2>2. Begin(t, b) = x /\ Begin(t, b) # NoPosition BY <1>5, <2>1
  <2>3. /\ Z \in Seq(Nat) /\ Len(Z) = End(t, b) - Begin(t, b)
        /\ \A i \in 1..Len(Z) : Z[i] = ByteAt(t, b, Begin(t, b) + i - 1)
    BY ONLY <1>5, <2>2, TextIs
  <2> QED BY ONLY <1>5, <2>3
<1> DEFINE i0 == (x - f) + 1
           j0 == y - f
<1>10. /\ i0 \in Nat /\ i0 > 0 /\ j0 \in Nat /\ j0 >= i0 - 1 /\ j0 <= Len(X)
       /\ (j0 - i0) + 1 = y - x /\ i0 = (x - f) + 1
  BY <1>6, <1>7, <1>8
<1>11. Y = SubSeq(X, i0, j0) OBVIOUS
<1> HIDE DEF f, X, Z, Y, i0, j0
<1>12. Y \in Seq(Nat) /\ Len(Y) = y - x /\ \A i \in 1..y - x : Y[i] = X[(i0 + i) - 1]
  <2> DEFINE l == y - x
  <2>1. l = (j0 - i0) + 1 /\ l \in Nat BY <1>7, <1>10
  <2>2. X \in Seq(Nat) /\ Len(X) \in Nat BY <1>8
  <2>3. i0 \in Nat /\ i0 > 0 /\ j0 \in Nat /\ j0 >= i0 - 1 /\ j0 <= Len(X) BY <1>10
  <2> HIDE DEF l
  <2>4. Y \in Seq(Nat) BY ONLY <1>11, <2>2, <2>3
  <2>5. Len(Y) = l BY ONLY <1>11, <2>1, <2>2, <2>3
  <2>6. \A i \in 1..l : Y[i] = X[(i0 + i) - 1] BY ONLY <1>11, <2>1, <2>2, <2>3
  <2> QED BY ONLY <2>4, <2>5, <2>6 DEF l
<1>13. ASSUME NEW i \in 1..Len(Z) PROVE Z[i] = Y[i]
  <2> DEFINE j == (i0 + i) - 1
  <2>1. i \in 1..y - x /\ j \in 1..Len(X) /\ f + j - 1 = x + i - 1
    BY <1>6, <1>7, <1>8, <1>9, <1>10
  <2>2. Y[i] = X[j] BY <1>12, <2>1
  <2> HIDE DEF j
  <2>3. X[j] = ByteAt(s, b, f + j - 1) /\ Z[i] = ByteAt(t, b, x + i - 1) BY <1>8, <1>9, <2>1
  <2> QED BY <1>5, <2>1, <2>2, <2>3
<1>14. Z = Y
  <2>1. Z \in Seq(Nat) /\ Y \in Seq(Nat) /\ Len(Z) = Len(Y) BY <1>9, <1>12
  <2>2. \A i \in 1..Len(Z) : Z[i] = Y[i] BY <1>13
  <2> QED BY ONLY <2>1, <2>2, SeqEqual
<1> QED BY <1>3, <1>14 DEF u, t, Y, X, f

\* No byte of b stays.
LEMMA CutAll ==
  ASSUME NEW s, Proper(s), NEW b \in Buffers
  PROVE  /\ Proper(Shrink(SetRange(s, b, NoPosition, 0), b))
         /\ OnlyText(s, Shrink(SetRange(s, b, NoPosition, 0), b), b, <<>>)
<1> DEFINE x == NoPosition
           y == 0
           t == SetRange(s, b, x, y)
           u == Shrink(t, b)
<1>1. Shaped(s) /\ Fits(s, b, x, y) BY NoneFits DEF Proper, Fine, Sound
<1>2. x = NoPosition OBVIOUS
<1> HIDE DEF x, y
<1>3. Proper(u) /\ OnlyText(s, u, b, Text(t, b)) BY <1>1, CutIs
<1>4. Begin(t, b) = x BY <1>1, SetRangeIs DEF Ranged
<1> HIDE DEF t, u
<1>5. Text(t, b) = <<>> BY <1>2, <1>4 DEF Text
<1>6. Proper(u) /\ OnlyText(s, u, b, <<>>) BY <1>3, <1>5
<1> QED BY <1>6 DEF u, t, x, y

\* shrink_size
LEMMA ShrinkProper ==
  ASSUME NEW s, Proper(s), NEW b \in Buffers
  PROVE  Proper(Shrink(s, b)) /\ SameTexts(s, Shrink(s, b))
<1> DEFINE u == Shrink(s, b)
<1>1. Trimmed(s, u, b) BY ShrinkIs DEF Proper
<1> HIDE DEF u
<1>2. \A a \in Buffers : Trim(u, a) BY <1>1 DEF Trimmed, Beheld, Trim, Proper
<1>3. Proper(u) /\ SameTexts(s, u) BY <1>1, <1>2 DEF Proper, Trimmed
<1> QED BY <1>3 DEF u

\* What check() leaves of a proper state.
LEMMA CheckProper ==
  ASSUME NEW s0, Proper(s0), NEW b \in Buffers
  PROVE  Proper(Check(s0, b)) /\ SameTexts(s0, Check(s0, b))
<1> DEFINE s == Check(s0, b)
<1>1. Checked(s0, s, b) BY CheckIs DEF Proper
<1> HIDE DEF s
<1>2. Proper(s) /\ SameTexts(s0, s) BY <1>1 DEF Checked, Proper, Beheld, Trim
<1> QED BY <1>2 DEF s

\* The numbers of a buffer with bytes.
LEMMA Counted ==
  ASSUME NEW s, Proper(s), NEW b \in Buffers, Begin(s, b) # NoPosition
  PROVE  /\ Begin(s, b) \in Nat /\ End(s, b) \in Nat /\ Begin(s, b) < End(s, b)
         /\ Length(s, b) = End(s, b) - Begin(s, b) /\ Fine(s)
<1>1. Ready(s, b) /\ Trim(s, b) /\ Fine(s) BY DEF Proper, Fine
<1> QED BY <1>1, ReadyParts DEF Length, Trim

\* What is left of x when all of it goes.
LEMMA NothingLeft ==
  ASSUME NEW x \in Seq(Nat), NEW n \in Nat, n >= Len(x)
  PROVE  Abstract!WithoutFront(x, n) = <<>> /\ Abstract!WithoutBack(x, n) = <<>>
<1> DEFINE l == Len(x)
           m == n + 1
           k == l - n
<1>1. l \in Nat /\ n >= l OBVIOUS
<1> HIDE DEF l
<1>2. m > l /\ m \in Nat /\ k \in Int /\ k < 1 BY <1>1
<1> HIDE DEF m, k
<1>3. SubSeq(x, m, l) = <<>> /\ SubSeq(x, 1, k) = <<>> BY <1>1, <1>2
<1> QED BY <1>3 DEF m, k, l, Abstract!WithoutFront, Abstract!WithoutBack

\* Of no bytes, none is left.
LEMMA NoneLeft ==
  ASSUME NEW n \in Nat
  PROVE  Abstract!WithoutFront(<<>>, n) = <<>> /\ Abstract!WithoutBack(<<>>, n) = <<>>
<1> DEFINE x == <<>>
<1>1. x \in Seq(Nat) /\ Len(x) = 0 OBVIOUS
<1> HIDE DEF x
<1>2. n >= Len(x) BY <1>1
<1>3. Abstract!WithoutFront(x, n) = <<>> /\ Abstract!WithoutBack(x, n) = <<>>
  BY <1>1, <1>2, NothingLeft
<1> QED BY <1>3 DEF x

\* The first n bytes of b go.
LEMMA FrontCut ==
  ASSUME NEW s, Proper(s), NEW b \in Buffers, Begin(s, b) # NoPosition, NEW n \in Nat,
         n <= Length(s, b)
  PROVE  /\ Proper(Shrink(SetRange(s, b, Begin(s, b) + n, End(s, b)), b))
         /\ OnlyText(s, Shrink(SetRange(s, b, Begin(s, b) + n, End(s, b)), b), b,
                     Abstract!WithoutFront(Text(s, b), n))
<1> DEFINE f == Begin(s, b)
           x == f + n
           y == End(s, b)
           w == Shrink(SetRange(s, b, x, y), b)
           X == Text(s, b)
<1>1. f \in Nat /\ y \in Nat /\ Length(s, b) = y - f /\ Ready(s, b)
  BY Counted DEF Proper, Fine
<1>2. Len(X) = y - f BY <1>1, LengthText
<1>3. x \in Int /\ y \in Int /\ f <= x /\ x <= y /\ (x - f) + 1 = n + 1 BY <1>1
<1>4. Begin(s, b) = f /\ End(s, b) = y /\ Text(s, b) = X OBVIOUS
<1> HIDE DEF x, y, f, X
<1>5. Proper(w) /\ OnlyText(s, w, b, SubSeq(X, (x - f) + 1, y - f))
  BY <1>3, <1>4, CutPart
<1>6. SubSeq(X, (x - f) + 1, y - f) = Abstract!WithoutFront(X, n)
  BY <1>2, <1>3 DEF Abstract!WithoutFront
<1> QED BY <1>5, <1>6 DEF x, y, f, X

\* The last n bytes of b go.
LEMMA BackCut ==
  ASSUME NEW s, Proper(s), NEW b \in Buffers, Begin(s, b) # NoPosition, NEW n \in Nat,
         n <= Length(s, b)
  PROVE  /\ Proper(Shrink(SetRange(s, b, Begin(s, b), End(s, b) - n), b))
         /\ OnlyText(s, Shrink(SetRange(s, b, Begin(s, b), End(s, b) - n), b), b,
                     Abstract!WithoutBack(Text(s, b), n))
<1> DEFINE x == Begin(s, b)
           y == End(s, b) - n
           w == Shrink(SetRange(s, b, x, y), b)
           X == Text(s, b)
<1>1. x \in Nat /\ End(s, b) \in Nat /\ Length(s, b) = End(s, b) - x /\ Ready(s, b)
  BY Counted DEF Proper, Fine
<1>2. Len(X) = End(s, b) - x BY <1>1, LengthText
<1>3. x \in Int /\ y \in Int /\ x <= x /\ x <= y /\ y <= End(s, b) /\ (x - x) + 1 = 1
      /\ y - x = Len(X) - n
  BY <1>1, <1>2
<1>4. Begin(s, b) = x /\ Text(s, b) = X OBVIOUS
<1> HIDE DEF x, y, X
<1>5. Proper(w) /\ OnlyText(s, w, b, SubSeq(X, (x - x) + 1, y - x))
  BY <1>3, <1>4, CutPart
<1>6. SubSeq(X, (x - x) + 1, y - x) = Abstract!WithoutBack(X, n)
  BY <1>3 DEF Abstract!WithoutBack
<1> QED BY <1>5, <1>6 DEF x, y, X

\* pop_front_n(size)
LEMMA DropFrontIs ==
  ASSUME NEW s0, Proper(s0), NEW b \in Buffers, NEW n \in Nat
  PROVE  /\ Proper(DropFrontN(s0, b, n))
         /\ OnlyText(s0, DropFrontN(s0, b, n), b, Abstract!WithoutFront(Text(s0, b), n))
<1> DEFINE s == Check(s0, b)
           none == Shrink(SetRange(s, b, NoPosition, 0), b)
           some == Shrink(SetRange(s, b, Begin(s, b) + n, End(s, b)), b)
           w == DropFrontN(s0, b, n)
           X == Text(s0, b)
           Z == Abstract!WithoutFront(X, n)
<1>1. w = IF Begin(s, b) = NoPosition THEN s ELSE IF n > Length(s, b) THEN none ELSE some
  BY DEF DropFrontN
<1>2. Proper(s) /\ SameTexts(s0, s) BY CheckProper
<1> HIDE DEF s, w, X
<1>3. Text(s, b) = X /\ Ready(s, b) BY <1>2 DEF SameTexts, X, Proper, Fine
<1>4. X \in Seq(Nat) /\ Length(s, b) = Len(X) /\ Length(s, b) \in Nat
  BY <1>3, TextIs, LengthText
<1>5. SameTexts(w, w) BY DEF SameTexts
<1>6. Proper(w) /\ OnlyText(s, w, b, Z)
  <2>1. CASE Begin(s, b) = NoPosition
    <3>1. X = <<>> BY <1>3, <2>1, TextIs
    <3>2. Z = X BY <3>1, NoneLeft
    <3> QED BY <1>1, <1>2, <1>3, <2>1, <3>2 DEF OnlyText
  <2>2. CASE Begin(s, b) # NoPosition /\ n > Length(s, b)
    <3>1. Proper(none) /\ OnlyText(s, none, b, <<>>) BY <1>2, CutAll
    <3>2. n >= Len(X) BY <1>4, <2>2
    <3>3. Z = <<>> BY <1>4, <3>2, NothingLeft
    <3>4. w = none BY <1>1, <2>2
    <3> HIDE DEF none, Z
    <3> QED BY <3>1, <3>3, <3>4
  <2>3. CASE Begin(s, b) # NoPosition /\ ~(n > Length(s, b))
    <3>1. n <= Length(s, b) BY <1>4, <2>3
    <3>2. Proper(some) /\ OnlyText(s, some, b, Abstract!WithoutFront(Text(s, b), n))
      BY <1>2, <2>3, <3>1, FrontCut
    <3> HIDE DEF some
    <3> QED BY <1>1, <1>3, <2>3, <3>2
  <2> QED BY <2>1, <2>2, <2>3
<1> HIDE DEF Z
<1>7. OnlyText(s0, w, b, Z) BY <1>2, <1>5, <1>6, OnlyBetween
<1> QED BY <1>6, <1>7 DEF w, Z, X

\* pop_back_n(size)
LEMMA DropBackIs ==
  ASSUME NEW s0, Proper(s0), NEW b \in Buffers, NEW n \in Nat
  PROVE  /\ Proper(DropBackN(s0, b, n))
         /\ OnlyText(s0, DropBackN(s0, b, n), b, Abstract!WithoutBack(Text(s0, b), n))
<1> DEFINE s == Check(s0, b)
           none == Shrink(SetRange(s, b, NoPosition, 0), b)
           some == Shrink(SetRange(s, b, Begin(s, b), End(s, b) - n), b)
           w == DropBackN(s0, b, n)
           X == Text(s0, b)
           Z == Abstract!WithoutBack(X, n)
<1>1. w = IF Begin(s, b) = NoPosition THEN s ELSE IF n > Length(s, b) THEN none ELSE some
  BY DEF DropBackN
<1>2. Proper(s) /\ SameTexts(s0, s) BY CheckProper
<1> HIDE DEF s, w, X
<1>3. Text(s, b) = X /\ Ready(s, b) BY <1>2 DEF SameTexts, X, Proper, Fine
<1>4. X \in Seq(Nat) /\ Length(s, b) = Len(X) /\ Length(s, b) \in Nat
  BY <1>3, TextIs, LengthText
<1>5. SameTexts(w, w) BY DEF SameTexts
<1>6. Proper(w) /\ OnlyText(s, w, b, Z)
  <2>1. CASE Begin(s, b) = NoPosition
    <3>1. X = <<>> BY <1>3, <2>1, TextIs
    <3>2. Z = X BY <3>1, NoneLeft
    <3> QED BY <1>1, <1>2, <1>3, <2>1, <3>2 DEF OnlyText
  <2>2. CASE Begin(s, b) # NoPosition /\ n > Length(s, b)
    <3>1. Proper(none) /\ OnlyText(s, none, b, <<>>) BY <1>2, CutAll
    <3>2. n >= Len(X) BY <1>4, <2>2
    <3>3. Z = <<>> BY <1>4, <3>2, NothingLeft
    <3>4. w = none BY <1>1, <2>2
    <3> HIDE DEF none, Z
    <3> QED BY <3>1, <3>3, <3>4
  <2>3. CASE Begin(s, b) # NoPosition /\ ~(n > Length(s, b))
    <3>1. n <= Length(s, b) BY <1>4, <2>3
    <3>2. Proper(some) /\ OnlyText(s, some, b, Abstract!WithoutBack(Text(s, b), n))
      BY <1>2, <2>3, <3>1, BackCut
    <3> HIDE DEF some
    <3> QED BY <1>1, <1>3, <2>3, <3>2
  <2> QED BY <2>1, <2>2, <2>3
<1> HIDE DEF Z
<1>7. OnlyText(s0, w, b, Z) BY <1>2, <1>5, <1>6, OnlyBetween
<1> QED BY <1>6, <1>7 DEF w, Z, X

\* io::direct_write
LEMMA DirectWriteIs ==
  ASSUME NEW s, Proper(s), NEW b \in Buffers, NEW n \in Nat, n <= Length(s, b)
  PROVE  /\ Proper(DirectWriteN(s, b, n))
         /\ OnlyText(s, DirectWriteN(s, b, n), b, Abstract!WithoutFront(Text(s, b), n))
<1> DEFINE none == Shrink(SetRange(s, b, NoPosition, 0), b)
           some == Shrink(SetRange(s, b, Begin(s, b) + n, End(s, b)), b)
           w == DirectWriteN(s, b, n)
           X == Text(s, b)
           Z == Abstract!WithoutFront(X, n)
<1>1. w = IF Length(s, b) = 0 THEN Shrink(s, b) ELSE IF n = Length(s, b) THEN none ELSE some
  BY DEF DirectWriteN
<1>2. Ready(s, b) BY DEF Proper, Fine
<1> HIDE DEF w
<1>3. X \in Seq(Nat) /\ Length(s, b) = Len(X) /\ Length(s, b) \in Nat
  BY <1>2, TextIs, LengthText
<1>4. CASE Length(s, b) = 0
  <2>1. Proper(Shrink(s, b)) /\ SameTexts(s, Shrink(s, b)) BY ShrinkProper
  <2>2. X = <<>>
    <3>1. X \in Seq(Nat) /\ Len(X) = 0 BY <1>3, <1>4
    <3> HIDE DEF X
    <3> QED BY <3>1
  <2>3. Z = X BY <2>2, NoneLeft
  <2> HIDE DEF X, Z
  <2>4. OnlyText(s, w, b, Z) BY <1>1, <1>4, <2>1, <2>3 DEF OnlyText, SameTexts, X
  <2> QED BY <1>1, <1>4, <2>1, <2>4 DEF w, Z, X
<1>5. CASE Length(s, b) # 0 /\ n = Length(s, b)
  <2>1. Proper(none) /\ OnlyText(s, none, b, <<>>) BY CutAll
  <2>2. n >= Len(X) BY <1>3, <1>5
  <2>3. Z = <<>> BY <1>3, <2>2, NothingLeft
  <2>4. w = none BY <1>1, <1>5
  <2> HIDE DEF none, Z
  <2>5. Proper(w) /\ OnlyText(s, w, b, Z) BY <2>1, <2>3, <2>4
  <2> QED BY <2>5 DEF w, Z
<1>6. CASE Length(s, b) # 0 /\ n # Length(s, b)
  <2>1. Begin(s, b) # NoPosition BY <1>6 DEF Length
  <2>2. Proper(some) /\ OnlyText(s, some, b, Z) BY <2>1, FrontCut
  <2>3. w = some BY <1>1, <1>6
  <2> HIDE DEF some, Z
  <2>4. Proper(w) /\ OnlyText(s, w, b, Z) BY <2>2, <2>3
  <2> QED BY <2>4 DEF w, Z
<1> QED BY <1>4, <1>5, <1>6

\* Bytes of b that are copied out were written to.
LEMMA CopiedOut ==
  ASSUME NEW s, Fine(s), NEW b \in Buffers, Begin(s, b) # NoPosition, NEW x \in Int, NEW n \in Nat,
         Begin(s, b) <= x, x + n <= End(s, b)
  PROVE  Bytes(s, b, x, n) \in Seq(Nat)
<1>1. /\ Begin(s, b) \in Nat /\ End(s, b) \in Nat
      /\ \A z \in Begin(s, b)..End(s, b) - 1 : ByteAt(s, b, z) \in Nat
  BY ReadyParts DEF Fine
<1>2. ASSUME NEW i \in 1..n PROVE ByteAt(s, b, x + i - 1) \in Nat
  <2>1. x + i - 1 \in Begin(s, b)..End(s, b) - 1 BY <1>1
  <2> QED BY <1>1, <2>1
<1>3. Bytes(s, b, x, n) = [i \in 1..n |-> ByteAt(s, b, x + i - 1)] BY DEF Bytes
<1>4. Bytes(s, b, x, n) \in [1..n -> Nat]
  <2>1. \A i \in 1..n : ByteAt(s, b, x + i - 1) \in Nat BY <1>2
  <2> HIDE DEF ByteAt
  <2> QED BY <1>3, <2>1
<1> QED BY <1>4, SeqDef

\* Bytes that are copied out are those of the text.
LEMMA CopiedPart ==
  ASSUME NEW s, Proper(s), NEW b \in Buffers, Begin(s, b) # NoPosition, NEW n \in Nat,
         n <= Length(s, b)
  PROVE  Bytes(s, b, Begin(s, b), n) = SubSeq(Text(s, b), 1, n)
<1> DEFINE f == Begin(s, b)
           X == Text(s, b)
           Y == Bytes(s, b, f, n)
<1>1. f \in Nat /\ End(s, b) \in Nat /\ Length(s, b) = End(s, b) - f /\ Ready(s, b) /\ Fine(s)
  BY Counted DEF Proper, Fine
<1>2. /\ X \in Seq(Nat) /\ Len(X) = Length(s, b)
      /\ \A i \in 1..Len(X) : X[i] = ByteAt(s, b, f + i - 1)
  <2>1. Len(X) = Length(s, b) BY <1>1, LengthText
  <2> QED BY <1>1, <2>1, TextIs
<1>3. Y \in Seq(Nat)
  <2>1. f \in Int /\ f <= f /\ f + n <= End(s, b) /\ f = Begin(s, b) BY <1>1
  <2> HIDE DEF f
  <2> QED BY <1>1, <2>1, CopiedOut
<1>4. Y = [i \in 1..n |-> ByteAt(s, b, f + i - 1)] BY DEF Bytes
<1>5. Begin(s, b) = f /\ Text(s, b) = X OBVIOUS
<1> HIDE DEF Y, X, f
<1>6. Len(Y) = n /\ \A i \in 1..n : Y[i] = ByteAt(s, b, f + i - 1)
  <2>1. DOMAIN Y = 1..n BY <1>4
  <2> QED BY <1>3, <1>4, <2>1, LenProperties
<1> DEFINE Z == SubSeq(X, 1, n)
<1>7. Z \in Seq(Nat) /\ Len(Z) = n /\ \A i \in 1..n : Z[i] = X[i]
  <2>1. X \in Seq(Nat) /\ n <= Len(X) /\ n \in Nat BY <1>2
  <2> QED BY ONLY <2>1
<1> HIDE DEF Z
<1>8. \A i \in 1..n : Y[i] = Z[i] BY <1>1, <1>2, <1>6, <1>7
<1>9. Y = Z BY ONLY <1>3, <1>6, <1>7, <1>8, SeqEqual
<1> QED BY <1>9 DEF Y, Z, X, f

\* pop_front_n(dest, size)
LEMMA TakeFrontIs ==
  ASSUME NEW s, Proper(s), NEW b \in Buffers, Begin(s, b) # NoPosition, NEW n \in Nat,
         NEW k, k = TakenFront(s, b, n)
  PROVE  /\ Bytes(s, b, Begin(s, b), k) \in Seq(Nat)
         /\ Bytes(s, b, Begin(s, b), k) = Abstract!Front(Text(s, b), n)
         /\ Proper(Shrink(SetRange(s, b, Begin(s, b) + k, End(s, b)), b))
         /\ OnlyText(s, Shrink(SetRange(s, b, Begin(s, b) + k, End(s, b)), b), b,
                     Abstract!WithoutFront(Text(s, b), n))
<1> DEFINE X == Text(s, b)
           w == Shrink(SetRange(s, b, Begin(s, b) + k, End(s, b)), b)
           Y == Bytes(s, b, Begin(s, b), k)
<1>1. /\ Begin(s, b) \in Nat /\ End(s, b) \in Nat /\ Begin(s, b) < End(s, b) /\ Ready(s, b)
      /\ Length(s, b) = End(s, b) - Begin(s, b)
  BY Counted DEF Proper, Fine
<1>2. X \in Seq(Nat) /\ Len(X) = Length(s, b) BY <1>1, TextIs, LengthText
<1>3. k = IF n < Len(X) THEN n ELSE Len(X) BY <1>1, <1>2 DEF TakenFront
<1>4. k \in Nat /\ k <= Length(s, b) BY <1>1, <1>2, <1>3
<1>5. Proper(w) /\ OnlyText(s, w, b, Abstract!WithoutFront(X, k)) BY <1>4, FrontCut
<1>6. Y = SubSeq(X, 1, k) BY <1>4, CopiedPart
<1> HIDE DEF X, w, Y
<1>7. Abstract!WithoutFront(X, k) = Abstract!WithoutFront(X, n)
  <2>1. CASE n < Len(X) BY <1>3, <2>1
  <2>2. CASE ~(n < Len(X))
    <3>1. n >= Len(X) /\ k >= Len(X) BY <1>2, <1>3, <2>2
    <3>2. Abstract!WithoutFront(X, n) = <<>> BY <1>2, <3>1, NothingLeft
    <3>3. Abstract!WithoutFront(X, k) = <<>> BY <1>2, <1>4, <3>1, NothingLeft
    <3> QED BY <3>2, <3>3
  <2> QED BY <2>1, <2>2
<1>8. Y = Abstract!Front(X, n) BY <1>3, <1>6 DEF Abstract!Front
<1>9. Y \in Seq(Nat)
  <2>1. X \in Seq(Nat) /\ k \in Nat /\ k <= Len(X) BY <1>2, <1>4
  <2>2. SubSeq(X, 1, k) \in Seq(Nat) BY ONLY <2>1
  <2> QED BY <1>6, <2>2
<1> QED BY <1>5, <1>7, <1>8, <1>9 DEF X, w, Y

\* pop_back_n(dest, size)
LEMMA TakeBackIs ==
  ASSUME NEW s, Proper(s), NEW b \in Buffers, Begin(s, b) # NoPosition, NEW n \in Nat,
         NEW k, k = TakenBack(s, b, n)
  PROVE  /\ Bytes(s, b, Begin(s, b) + CopiedFrom(s, b, n), k) \in Seq(Nat)
         /\ Len(Bytes(s, b, Begin(s, b) + CopiedFrom(s, b, n), k)) = k
         /\ k \in 0..n /\ k <= Length(s, b)
         /\ k = Length(s, b) => Bytes(s, b, Begin(s, b) + CopiedFrom(s, b, n), k) = Text(s, b)
         /\ Proper(Shrink(SetRange(s, b, Begin(s, b), End(s, b) - k), b))
         /\ OnlyText(s, Shrink(SetRange(s, b, Begin(s, b), End(s, b) - k), b), b,
                     Abstract!WithoutBack(Text(s, b), k))
<1> DEFINE f == CopiedFrom(s, b, n)
<1>1. /\ Begin(s, b) \in Nat /\ End(s, b) \in Nat /\ Begin(s, b) < End(s, b) /\ Fine(s)
      /\ Length(s, b) = End(s, b) - Begin(s, b)
  BY Counted
<1>2. f \in Nat BY <1>1 DEF CopiedFrom
<1>3. /\ k \in 0..n /\ k \in Nat /\ k <= Length(s, b) /\ (k # 0 => f + k <= Length(s, b))
      /\ k = Length(s, b) => f = 0
  <2>1. k = IF f >= Length(s, b) THEN 0
            ELSE IF f + n > Length(s, b) THEN Length(s, b) - f ELSE n
    BY DEF TakenBack
  <2> HIDE DEF f
  <2> QED BY <1>1, <1>2, <2>1
<1> HIDE DEF f
<1> DEFINE x == Begin(s, b) + f
           X == Bytes(s, b, x, k)
<1>6. k = Length(s, b) => X = Text(s, b) BY <1>1, <1>3 DEF Bytes, Text
<1>4. Bytes(s, b, x, k) \in Seq(Nat)
  <2>1. CASE k = 0
    <3>1. Bytes(s, b, x, k) = <<>> BY <2>1 DEF Bytes
    <3> HIDE DEF x
    <3> QED BY <3>1
  <2>2. CASE k # 0
    <3>1. x \in Int /\ Begin(s, b) <= x /\ x + k <= End(s, b) BY <1>1, <1>2, <1>3, <2>2
    <3> HIDE DEF x
    <3> QED BY <1>1, <1>3, <3>1, CopiedOut
  <2> QED BY <2>1, <2>2
<1> DEFINE w == Shrink(SetRange(s, b, Begin(s, b), End(s, b) - k), b)
           Z == Abstract!WithoutBack(Text(s, b), k)
<1>5. Proper(w) /\ OnlyText(s, w, b, Z) BY <1>3, BackCut
<1>7. Len(X) = k BY <1>3 DEF Bytes
<1> HIDE DEF w, Z, x, X
<1> QED BY <1>3, <1>4, <1>5, <1>6, <1>7 DEF x, X, w, Z, f

(*** Pages that are named anew. ***)

\* The store, the pool and the buffers an operation leaves: s with its pages named by their places.
Kept(s, H, Q, B) ==
  /\ \E live \in {Live(s)}, name \in {[p \in DOMAIN s.heap |-> Name(s, p)]} :
       H = [x \in {name[p] : p \in DOMAIN s.heap} |->
             LET page == CHOOSE p \in DOMAIN s.heap : name[p] = x
             IN [o \in Offsets |-> IF <<page, o>> \in live THEN s.heap[page][o] ELSE Junk]]
  /\ Q = Renamed(s, s.pool)
  /\ B = [b \in Buffers |-> [s.buf[b] EXCEPT !.pages = Renamed(s, @)]]

\* A place is a row and an index in it.
LEMMA PlacesAre ==
  ASSUME NEW s
  PROVE  /\ \A h \in Holders : \A i \in 1..Len(Rows(s)[h]) :
              <<h, i>> \in Places(s) /\ PageIn(s, <<h, i>>) = Rows(s)[h][i]
         /\ \A at \in Places(s) : \E h \in Holders : \E i \in 1..Len(Rows(s)[h]) : at = <<h, i>>
<1>1. \A h \in Holders : Rows(s)[h] = Row(s, h) BY DEF Rows
<1>2. ASSUME NEW h \in Holders, NEW i \in 1..Len(Rows(s)[h])
      PROVE  <<h, i>> \in Places(s) /\ PageIn(s, <<h, i>>) = Rows(s)[h][i]
  <2>1. h \in Buffers \cup {"pool"} /\ i \in 1..Len(Row(s, h)) BY <1>1 DEF Holders
  <2>2. <<h, i>> \in {h} \X (1..Len(Row(s, h))) BY <2>1
  <2>3. <<h, i>> \in Places(s) BY <2>1, <2>2 DEF Places
  <2> QED BY <1>1, <2>3 DEF PageIn
<1>3. ASSUME NEW at \in Places(s)
      PROVE  \E h \in Holders : \E i \in 1..Len(Rows(s)[h]) : at = <<h, i>>
  <2>1. PICK h \in Buffers \cup {"pool"} : at \in {h} \X (1..Len(Row(s, h))) BY DEF Places
  <2>2. PICK i \in 1..Len(Row(s, h)) : at = <<h, i>> BY <2>1
  <2> QED BY <1>1, <2>1, <2>2 DEF Holders
<1> QED BY <1>2, <1>3

\* A page is named after the one place that holds it.
LEMMA NameIs ==
  ASSUME NEW s, Sound(s, {}), NEW p \in DOMAIN s.heap
  PROVE  Name(s, p) \in Places(s) /\ PageIn(s, Name(s, p)) = p
<1> DEFINE held == {at \in Places(s) : PageIn(s, at) = p}
<1>1. Held(Rows(s), DOMAIN s.heap, {}) BY DEF Sound
<1>2. PICK h \in Holders : \E i \in 1..Len(Rows(s)[h]) : Rows(s)[h][i] = p BY <1>1 DEF Held
<1>3. PICK i \in 1..Len(Rows(s)[h]) : Rows(s)[h][i] = p BY <1>2
<1>4. <<h, i>> \in held BY <1>3, PlacesAre
<1>5. Name(s, p) = CHOOSE at \in held : TRUE BY <1>4 DEF Name
<1> HIDE DEF held
<1>6. Name(s, p) \in held BY <1>4, <1>5
<1> QED BY <1>6 DEF held

\* The cells of a page under its new name.
Copied(s, H) ==
  /\ DOMAIN H = {Name(s, p) : p \in DOMAIN s.heap}
  /\ \A p \in DOMAIN s.heap :
       H[Name(s, p)] =
         [o \in Offsets |-> IF <<p, o>> \in Live(s) THEN s.heap[p][o] ELSE Junk]

\* Each page has a name of its own, so that its cells are found under it.
LEMMA CopiedIs ==
  ASSUME NEW s, Sound(s, {}), NEW H, NEW Q, NEW B, Kept(s, H, Q, B)
  PROVE  Copied(s, H)
<1> DEFINE D == DOMAIN s.heap
           Cells(p) == [o \in Offsets |-> IF <<p, o>> \in Live(s) THEN s.heap[p][o] ELSE Junk]
           name == [p \in D |-> Name(s, p)]
<1>1. H = [x \in {name[p] : p \in D} |-> Cells(CHOOSE p \in D : name[p] = x)]
  <2>1. PICK live \in {Live(s)}, f \in {name} :
          H = [x \in {f[p] : p \in D} |->
                LET page == CHOOSE p \in D : f[p] = x
                IN [o \in Offsets |-> IF <<page, o>> \in live THEN s.heap[page][o] ELSE Junk]]
    BY ONLY Kept(s, H, Q, B), Zenon DEF Kept
  <2>2. live = Live(s) /\ f = name OBVIOUS
  <2> HIDE DEF name, D
  <2> QED BY ONLY <2>1, <2>2, Zenon
<1>2. \A p \in D : name[p] = Name(s, p) OBVIOUS
<1> HIDE DEF name, Cells
<1>3. {name[p] : p \in D} = {Name(s, p) : p \in D} BY <1>2
<1>4. ASSUME NEW p \in D PROVE H[Name(s, p)] = Cells(p)
  <2>1. H[name[p]] = Cells(CHOOSE q \in D : name[q] = name[p]) BY <1>1
  <2>2. (CHOOSE q \in D : name[q] = name[p]) \in D
        /\ name[CHOOSE q \in D : name[q] = name[p]] = name[p]
    OBVIOUS
  <2> DEFINE r == CHOOSE q \in D : name[q] = name[p]
  <2>3. r \in D /\ name[r] = name[p] /\ H[name[p]] = Cells(r) BY <2>1, <2>2
  <2> HIDE DEF r
  <2>4. Name(s, r) = Name(s, p) BY <1>2, <2>3
  <2>5. PageIn(s, Name(s, r)) = r /\ PageIn(s, Name(s, p)) = p BY <2>3, NameIs
  <2> QED BY <1>2, <2>3, <2>4, <2>5
<1>5. DOMAIN H = {Name(s, p) : p \in D} BY <1>1, <1>3
<1> QED BY <1>4, <1>5 DEF Copied, Cells

\* The cells are still bytes or Junk.
LEMMA CopiedHeaped ==
  ASSUME NEW s, Heaped(s.heap), NEW H, Copied(s, H),
         H = [x \in DOMAIN H |-> H[x]]
  PROVE  Heaped(H)
<1> DEFINE D == DOMAIN s.heap
           name == [p \in D |-> Name(s, p)]
<1>1. IsFiniteSet(DOMAIN H)
  <2>1. IsFiniteSet(D) BY DEF Heaped
  <2>2. DOMAIN H = {name[p] : p \in D} BY DEF Copied
  <2> HIDE DEF name
  <2> DEFINE T == {name[p] : p \in D}
  <2>3. name \in Surjection(D, T)
    <3>1. name = [p \in D |-> name[p]] BY DEF name
    <3> HIDE DEF D
    <3> QED BY <3>1 DEF Surjection
  <2> HIDE DEF T, D
  <2>4. IsFiniteSet(T) BY <2>1, <2>3, FS_Surjection
  <2> QED BY <2>2, <2>4 DEF T, D
<1>2. ASSUME NEW x \in DOMAIN H PROVE H[x] \in PageBytes
  <2>1. PICK p \in D : x = Name(s, p) BY DEF Copied
  <2>2. H[x] = [o \in Offsets |-> IF <<p, o>> \in Live(s) THEN s.heap[p][o] ELSE Junk]
    BY <2>1 DEF Copied
  <2>3. s.heap[p] \in [Offsets -> Nat \cup {Junk}] BY DEF Heaped, PageBytes
  <2>4. \A o \in Offsets : (IF <<p, o>> \in Live(s) THEN s.heap[p][o] ELSE Junk) \in Nat \cup {Junk}
    BY <2>3
  <2> QED BY <2>2, <2>4 DEF PageBytes
<1>3. H \in [DOMAIN H -> PageBytes] BY <1>2
<1> QED BY <1>1, <1>3 DEF Heaped

\* In q, the pages of the row ps, pages of D, have their names in s.
Relabelled(s, D, ps, q) ==
  /\ Len(q) = Len(ps) /\ q \in Seq({Name(s, p) : p \in D})
  /\ \A i \in 1..Len(ps) : q[i] = Name(s, ps[i])

\* A row under the new names.
LEMMA RenamedIs ==
  ASSUME NEW s, NEW D, NEW ps, ps \in Seq(D)
  PROVE  Relabelled(s, D, ps, Renamed(s, ps))
<1> DEFINE E == {Name(s, p) : p \in D}
           l == Len(ps)
           q == [i \in 1..l |-> Name(s, ps[i])]
<1>1. Renamed(s, ps) = q BY DEF Renamed
<1>2. l \in Nat /\ \A i \in 1..l : ps[i] \in D OBVIOUS
<1>3. \A i \in 1..l : Name(s, ps[i]) \in E BY <1>2
<1> HIDE DEF E
<1>4. q \in Seq(E) /\ Len(q) = l
  <2>1. q \in [1..l -> E] BY <1>3
  <2>2. DOMAIN q = 1..l OBVIOUS
  <2> HIDE DEF q
  <2>3. q \in Seq(E) BY <1>2, <2>1, SeqDef
  <2>4. Len(q) = l BY <1>2, <2>2, <2>3, LenProperties
  <2> QED BY <2>3, <2>4
<1> QED BY <1>1, <1>4 DEF E, Relabelled

\* What renaming leaves, part by part.
Anew(s, t) ==
  /\ Shaped(t) /\ Copied(s, t.heap) /\ t.heap = [x \in DOMAIN t.heap |-> t.heap[x]]
  /\ t.pool = Renamed(s, s.pool)
  /\ \A a \in Buffers : Pages(t, a) = Renamed(s, Pages(s, a)) /\ Beheld(s, t, a)

\* The parts of the new state.
LEMMA AnewIs ==
  ASSUME NEW s, Sound(s, {}), NEW H, NEW Q, NEW B, Kept(s, H, Q, B)
  PROVE  Anew(s, [heap |-> H, pool |-> Q, buf |-> B])
<1> DEFINE t == [heap |-> H, pool |-> Q, buf |-> B]
<1>1. Copied(s, H) BY CopiedIs
<1>2. H = [x \in DOMAIN H |-> H[x]]
  <2>1. PICK live \in {Live(s)}, f \in {[p \in DOMAIN s.heap |-> Name(s, p)]} :
          H = [x \in {f[p] : p \in DOMAIN s.heap} |->
                LET page == CHOOSE p \in DOMAIN s.heap : f[p] = x
                IN [o \in Offsets |-> IF <<page, o>> \in live THEN s.heap[page][o] ELSE Junk]]
    BY ONLY Kept(s, H, Q, B), Zenon DEF Kept
  <2> DEFINE E == {f[p] : p \in DOMAIN s.heap}
             V(x) == LET page == CHOOSE p \in DOMAIN s.heap : f[p] = x
                     IN [o \in Offsets |-> IF <<page, o>> \in live THEN s.heap[page][o] ELSE Junk]
  <2>2. H = [x \in E |-> V(x)] BY <2>1
  <2> HIDE DEF E, V
  <2> QED BY ONLY <2>2
<1>3. Q = Renamed(s, s.pool) /\ B = [b \in Buffers |-> [s.buf[b] EXCEPT !.pages = Renamed(s, @)]]
  BY DEF Kept
<1>4. Shaped(s) BY DEF Sound
<1>5. ASSUME NEW a \in Buffers
      PROVE  B[a] = [pages |-> Renamed(s, Pages(s, a)), begin |-> Begin(s, a), end |-> End(s, a)]
  <2>1. s.buf[a] = [pages |-> Pages(s, a), begin |-> Begin(s, a), end |-> End(s, a)]
    BY <1>4 DEF Shaped
  <2>2. B[a] = [s.buf[a] EXCEPT !.pages = Renamed(s, s.buf[a].pages)] BY <1>3
  <2>3. s.buf[a].pages = Pages(s, a) BY DEF Pages
  <2> DEFINE P == Pages(s, a)
             R == Renamed(s, P)
             x == Begin(s, a)
             y == End(s, a)
  <2>4. B[a] = [[pages |-> P, begin |-> x, end |-> y] EXCEPT !.pages = R] BY <2>1, <2>2, <2>3
  <2> HIDE DEF P, R, x, y
  <2>5. B[a] = [pages |-> R, begin |-> x, end |-> y] BY ONLY <2>4
  <2> QED BY <2>5 DEF P, R, x, y
<1>6. t.heap = H /\ t.pool = Q /\ t.buf = B OBVIOUS
<1>7. t = [heap |-> t.heap, pool |-> t.pool, buf |-> t.buf] OBVIOUS
<1>8. B = [b \in Buffers |-> B[b]] BY <1>3
<1> HIDE DEF t
<1>9. ASSUME NEW a \in Buffers PROVE Pages(t, a) = Renamed(s, Pages(s, a)) /\ Beheld(s, t, a)
  <2> DEFINE R == Renamed(s, Pages(s, a))
             x == Begin(s, a)
             y == End(s, a)
  <2>1. t.buf[a] = [pages |-> R, begin |-> x, end |-> y] BY <1>5, <1>6
  <2>2. Begin(s, a) = x /\ End(s, a) = y OBVIOUS
  <2> HIDE DEF R, x, y
  <2>3. t.buf[a].pages = R /\ t.buf[a].begin = x /\ t.buf[a].end = y BY ONLY <2>1
  <2>4. Pages(t, a) = R /\ Begin(t, a) = x /\ End(t, a) = y
    BY ONLY <2>3 DEF Pages, Begin, End
  <2>5. Beheld(s, t, a) BY <2>2, <2>4 DEF Beheld
  <2> QED BY <2>4, <2>5 DEF R
<1>10. Shaped(t)
  <2>1. ASSUME NEW a \in Buffers
        PROVE  t.buf[a] = [pages |-> Pages(t, a), begin |-> Begin(t, a), end |-> End(t, a)]
    BY <1>5, <1>6, <1>9 DEF Beheld
  <2>2. t.buf = [b \in Buffers |->
                  [pages |-> Pages(t, b), begin |-> Begin(t, b), end |-> End(t, b)]]
    BY <1>6, <1>8, <2>1
  <2> QED BY <1>7, <2>2 DEF Shaped
<1> QED BY <1>1, <1>2, <1>3, <1>6, <1>9, <1>10 DEF Anew, t

\* Under new names, the pages are where they were.
LEMMA AnewHeld ==
  ASSUME NEW s, Sound(s, {}), NEW t, Anew(s, t)
  PROVE  Held(Rows(t), DOMAIN t.heap, {})
<1> DEFINE D == DOMAIN s.heap
           R == Rows(s)
           S == Rows(t)
           E == DOMAIN t.heap
<1>1. Held(R, D, {}) BY DEF Sound
<1>2. E = {Name(s, p) : p \in D} BY DEF Anew, Copied
<1>3. ASSUME NEW h \in Holders
      PROVE  /\ R[h] \in Seq(D) /\ Len(S[h]) = Len(R[h]) /\ S[h] \in Seq(E)
             /\ \A i \in 1..Len(R[h]) : S[h][i] = Name(s, R[h][i]) /\ R[h][i] \in D
  <2>1. R[h] \in Seq(D) BY <1>1 DEF Held
  <2>2. S[h] = Renamed(s, R[h])
    <3>1. CASE h = "pool"
      <4>1. S[h] = t.pool /\ R[h] = s.pool BY <3>1, RowsAre
      <4> QED BY <4>1 DEF Anew
    <3>2. CASE h \in Buffers
      <4>1. S[h] = Pages(t, h) /\ R[h] = Pages(s, h) BY <3>2, RowsAre
      <4> QED BY <3>2, <4>1 DEF Anew
    <3> QED BY <3>1, <3>2 DEF Holders
  <2>3. \A i \in 1..Len(R[h]) : R[h][i] \in D BY <2>1
  <2> DEFINE ps == R[h]
  <2>4. ps \in Seq(D) /\ S[h] = Renamed(s, ps) BY <2>1, <2>2
  <2> HIDE DEF ps, D, S
  <2>5. /\ Len(S[h]) = Len(ps) /\ S[h] \in Seq({Name(s, p) : p \in D})
        /\ \A i \in 1..Len(ps) : S[h][i] = Name(s, ps[i])
    <3>1. Relabelled(s, D, ps, S[h]) BY <2>4, RenamedIs
    <3> QED BY <3>1 DEF Relabelled
  <2> QED BY <1>2, <2>1, <2>3, <2>5 DEF ps
<1>4. S \in [Holders -> Seq(E)]
  <2>1. S = [h \in Holders |-> S[h]] BY RowsAre
  <2> HIDE DEF S, R, D, E
  <2> QED BY <1>3, <2>1
<1>5. \A p, q \in D : Name(s, p) = Name(s, q) => p = q
  <2>1. \A p \in D : PageIn(s, Name(s, p)) = p BY NameIs
  <2> QED BY <2>1
<1> HIDE DEF R, S, D, E
<1>6. ASSUME NEW g \in Holders, NEW h \in Holders, NEW i \in 1..Len(S[g]), NEW j \in 1..Len(S[h]),
             S[g][i] = S[h][j]
      PROVE  g = h /\ i = j
  <2>1. /\ i \in 1..Len(R[g]) /\ j \in 1..Len(R[h])
        /\ S[g][i] = Name(s, R[g][i]) /\ S[h][j] = Name(s, R[h][j])
        /\ R[g][i] \in D /\ R[h][j] \in D
    BY <1>3
  <2>2. R[g][i] = R[h][j] BY <1>5, <1>6, <2>1
  <2> QED BY <1>1, <2>1, <2>2, HeldOnce
<1>7. ASSUME NEW x \in E PROVE \E h \in Holders : \E i \in 1..Len(S[h]) : S[h][i] = x
  <2>1. PICK p \in D : x = Name(s, p) BY <1>2
  <2>2. PICK h \in Holders : \E i \in 1..Len(R[h]) : R[h][i] = p BY <1>1 DEF Held
  <2>3. PICK i \in 1..Len(R[h]) : R[h][i] = p BY <2>2
  <2>4. i \in 1..Len(S[h]) /\ S[h][i] = x BY <1>3, <2>1, <2>3
  <2> QED BY <2>4
<1>8. Held(S, E, {}) BY <1>4, <1>6, <1>7 DEF Held
<1> QED BY <1>8 DEF S, E

\* A ready buffer is ready under the new names, with its text: its bytes are live and are copied.
LEMMA AnewReady ==
  ASSUME NEW s, Fine(s), NEW t, Anew(s, t), NEW a \in Buffers
  PROVE  Intact(s, t, a)
<1>1. Ready(s, a) /\ Pages(s, a) \in Seq(DOMAIN s.heap) /\ Len(Pages(s, a)) \in Nat
  BY SoundParts DEF Fine
<1>2. /\ Len(Pages(t, a)) = Len(Pages(s, a))
      /\ \A i \in 1..Len(Pages(s, a)) : Pages(t, a)[i] = Name(s, Pages(s, a)[i])
  <2> DEFINE ps == Pages(s, a)
             D == DOMAIN s.heap
  <2>1. ps \in Seq(D) /\ Pages(t, a) = Renamed(s, ps) BY <1>1 DEF Anew
  <2> HIDE DEF ps, D
  <2>2. /\ Len(Pages(t, a)) = Len(ps)
        /\ \A i \in 1..Len(ps) : Pages(t, a)[i] = Name(s, ps[i])
    <3>1. Relabelled(s, D, ps, Pages(t, a)) BY <2>1, RenamedIs
    <3> QED BY <3>1 DEF Relabelled
  <2> QED BY <2>2 DEF ps
<1>3. Begin(t, a) = Begin(s, a) /\ End(t, a) = End(s, a) BY DEF Anew, Beheld
<1>4. CASE Begin(s, a) = NoPosition BY <1>1, <1>3, <1>4 DEF Ready, Intact, Text
<1>5. CASE Begin(s, a) # NoPosition
  <2>1. /\ Begin(s, a) \in Nat /\ End(s, a) \in Nat /\ Begin(s, a) <= End(s, a)
        /\ End(s, a) <= Len(Pages(s, a)) * PageSize
        /\ \A x \in Begin(s, a)..End(s, a) - 1 : ByteAt(s, a, x) \in Nat
    BY <1>1, <1>5, ReadyParts
  <2>2. ASSUME NEW x \in Begin(s, a)..End(s, a) - 1 PROVE ByteAt(t, a, x) = ByteAt(s, a, x)
    <3> DEFINE i == (x \div PageSize) + 1
               o == x % PageSize
               p == PageAt(s, a, x)
    <3>1. i \in 1..Len(Pages(s, a)) /\ o \in Offsets BY <1>1, <1>5, LivePage
    <3>2. p = Pages(s, a)[i] /\ PageAt(t, a, x) = Pages(t, a)[i] BY DEF PageAt
    <3>3. p \in DOMAIN s.heap BY <1>1, <3>1, <3>2
    <3>4. x \in Positions(s, a)
      <4>1. Len(Pages(s, a)) * PageSize \in Nat BY <1>1, RowSize
      <4> DEFINE m == Len(Pages(s, a)) * PageSize
      <4>2. m \in Nat /\ End(s, a) <= m BY <2>1, <4>1
      <4> HIDE DEF m
      <4>3. x \in 0..m - 1 BY <2>1, <4>2
      <4> QED BY <4>3 DEF Positions, m
    <3>5. <<p, o>> \in Live(s)
      <4>1. <<p, o>> \in {<<PageAt(s, a, pos), pos % PageSize>> : pos \in Positions(s, a)}
        BY <3>4
      <4> HIDE DEF p, o
      <4> QED BY <4>1 DEF Live
    <3>6. ByteAt(s, a, x) = s.heap[p][o] /\ ByteAt(t, a, x) = t.heap[PageAt(t, a, x)][o]
      BY DEF ByteAt
    <3>7. PageAt(t, a, x) = Name(s, p) BY <1>2, <3>1, <3>2
    <3> HIDE DEF i, o, p
    <3>8. t.heap[Name(s, p)] =
            [z \in Offsets |-> IF <<p, z>> \in Live(s) THEN s.heap[p][z] ELSE Junk]
      BY <3>3 DEF Anew, Copied
    <3>9. t.heap[Name(s, p)][o] = s.heap[p][o] BY <3>1, <3>5, <3>8
    <3> QED BY <3>6, <3>7, <3>9
  <2>3. Ready(t, a)
    <3>1. \A x \in Begin(s, a)..End(s, a) - 1 : ByteAt(t, a, x) \in Nat BY <2>1, <2>2
    <3> QED BY <1>2, <1>3, <1>5, <2>1, <3>1 DEF Ready
  <2>4. Text(t, a) = Text(s, a)
    <3> DEFINE f == Begin(s, a)
               l == End(s, a) - f
    <3>1. f \in Nat /\ End(s, a) \in Nat BY <2>1
    <3>2. ASSUME NEW i \in 1..l PROVE ByteAt(t, a, f + i - 1) = ByteAt(s, a, f + i - 1)
      <4>1. f + i - 1 \in f..End(s, a) - 1 BY <3>1
      <4> QED BY <2>2, <4>1
    <3>3. Text(s, a) = [i \in 1..l |-> ByteAt(s, a, f + i - 1)] BY <1>5 DEF Text
    <3>4. Text(t, a) = [i \in 1..l |-> ByteAt(t, a, f + i - 1)] BY <1>3, <1>5 DEF Text
    <3> HIDE DEF f, l
    <3> QED BY ONLY <3>2, <3>3, <3>4
  <2> QED BY <2>3, <2>4 DEF Intact
<1> QED BY <1>4, <1>5

\* What a state becomes with its pages named anew: the texts are the same.
Renewed(s, t) == Proper(t) /\ SameTexts(s, t)

\* A proper state stays proper under the new names.
LEMMA KeptProper ==
  ASSUME NEW s, Proper(s), NEW H, NEW Q, NEW B, Kept(s, H, Q, B)
  PROVE  Renewed(s, [heap |-> H, pool |-> Q, buf |-> B])
<1> DEFINE t == [heap |-> H, pool |-> Q, buf |-> B]
<1>1. Fine(s) /\ Sound(s, {}) BY DEF Proper, Fine
<1>2. Anew(s, t) BY <1>1, AnewIs
<1> HIDE DEF t
<1>3. Held(Rows(t), DOMAIN t.heap, {}) BY <1>1, <1>2, AnewHeld
<1>4. Heaped(t.heap)
  <2> DEFINE h == t.heap
  <2>1. Heaped(s.heap) /\ Copied(s, h) /\ h = [x \in DOMAIN h |-> h[x]]
    BY <1>1, <1>2 DEF Sound, Anew
  <2> HIDE DEF h
  <2>2. Heaped(h) BY <2>1, CopiedHeaped
  <2> QED BY <2>2 DEF h
<1>5. Sound(t, {}) BY <1>2, <1>3, <1>4 DEF Sound, Anew
<1>6. \A a \in Buffers : Ready(t, a) /\ Text(t, a) = Text(s, a)
  BY <1>1, <1>2, AnewReady DEF Intact
<1>7. \A a \in Buffers : Trim(t, a) BY <1>2 DEF Anew, Beheld, Trim, Proper
<1>8. Renewed(s, t) BY <1>5, <1>6, <1>7 DEF Proper, Fine, Renewed, SameTexts
<1> QED BY <1>8 DEF t

(*** What has passed, as the sequences of ByteBuffers. ***)

\* z is the l elements of x after the first i.
Part(z, x, i, l) ==
  /\ z \in Seq(Nat) /\ Len(z) = l
  /\ \A k \in 1..l : z[k] = x[k + i]

\* A subsequence is a part.
LEMMA PartIs ==
  ASSUME NEW x \in Seq(Nat), NEW i \in Nat, NEW j \in Nat, i <= j, j <= Len(x)
  PROVE  Part(SubSeq(x, i + 1, j), x, i, j - i)
<1> DEFINE z == SubSeq(x, i + 1, j)
           l == j - i
           m == i + 1
<1>1. l \in Nat /\ m \in Nat /\ m > 0 /\ l = (j - m) + 1 /\ j <= Len(x) /\ j >= m - 1 /\ m = i + 1
  OBVIOUS
<1>2. z = SubSeq(x, m, j) OBVIOUS
<1> HIDE DEF z, l, m
<1>3. z \in Seq(Nat) BY ONLY <1>1, <1>2, x \in Seq(Nat), j \in Nat
<1>4. Len(z) = l BY ONLY <1>1, <1>2, x \in Seq(Nat), j \in Nat
<1>5. \A k \in 1..l : z[k] = x[(m + k) - 1] BY ONLY <1>1, <1>2, x \in Seq(Nat), j \in Nat
<1>6. \A k \in 1..l : z[k] = x[k + i] BY <1>1, <1>5
<1>7. Part(z, x, i, l) BY <1>3, <1>4, <1>6 DEF Part
<1> QED BY <1>7 DEF z, l

\* Two parts that are the same are equal.
LEMMA PartsEqual ==
  ASSUME NEW z, NEW y, NEW x, NEW i, NEW l, Part(z, x, i, l), Part(y, x, i, l)
  PROVE  z = y
<1>1. /\ z \in Seq(Nat) /\ y \in Seq(Nat) /\ Len(z) = l /\ Len(y) = l
      /\ \A k \in 1..l : z[k] = x[k + i] /\ y[k] = x[k + i]
  BY DEF Part
<1>2. Len(z) = Len(y) /\ \A k \in 1..Len(z) : z[k] = y[k] BY <1>1
<1> QED BY ONLY <1>1, <1>2, SeqEqual

\* The four ends of a sequence.
LEMMA EndsAre ==
  ASSUME NEW x \in Seq(Nat), NEW n \in Nat, n <= Len(x)
  PROVE  /\ Part(Abstract!WithoutFront(x, n), x, n, Len(x) - n)
         /\ Part(Abstract!Front(x, n), x, 0, n)
         /\ Part(Abstract!Back(x, n), x, Len(x) - n, n)
         /\ Part(Abstract!WithoutBack(x, n), x, 0, Len(x) - n)
<1> DEFINE l == Len(x)
           m == l - n
           z == 0
<1>1. l \in Nat /\ m \in Nat /\ n <= l /\ m <= l /\ l - m = n /\ n - z = n /\ m - z = m
      /\ z <= n /\ z <= m /\ z \in Nat /\ z + 1 = 1 /\ l <= l
  OBVIOUS
<1>2. (IF n < l THEN n ELSE l) = n /\ (IF n < l THEN l - n ELSE 0) = m OBVIOUS
<1>3. Len(x) = l /\ l - n = m /\ z = 0 OBVIOUS
<1> HIDE DEF l, m, z
<1>4. Part(SubSeq(x, n + 1, l), x, n, l - n) BY ONLY <1>1, <1>3, PartIs, x \in Seq(Nat), n \in Nat
<1>5. Part(SubSeq(x, z + 1, n), x, z, n - z) BY ONLY <1>1, <1>3, PartIs, x \in Seq(Nat), n \in Nat
<1>6. Part(SubSeq(x, m + 1, l), x, m, l - m) BY ONLY <1>1, <1>3, PartIs, x \in Seq(Nat), n \in Nat
<1>7. Part(SubSeq(x, z + 1, m), x, z, m - z) BY ONLY <1>1, <1>3, PartIs, x \in Seq(Nat), n \in Nat
<1>8. Abstract!WithoutFront(x, n) = SubSeq(x, n + 1, l) BY <1>3 DEF Abstract!WithoutFront
<1>9. Abstract!Front(x, n) = SubSeq(x, 1, n) BY <1>2, <1>3 DEF Abstract!Front
<1>10. Abstract!Back(x, n) = SubSeq(x, m + 1, l) BY <1>2, <1>3 DEF Abstract!Back
<1>11. Abstract!WithoutBack(x, n) = SubSeq(x, 1, m) BY <1>3 DEF Abstract!WithoutBack
<1> QED BY <1>1, <1>3, <1>4, <1>5, <1>6, <1>7, <1>8, <1>9, <1>10, <1>11

\* From the front of one to the back of the other.
LEMMA WentIs ==
  ASSUME NEW x \in Seq(Nat), NEW y \in Seq(Nat), NEW x1 \in Seq(Nat), NEW y1 \in Seq(Nat),
         NEW n \in Nat, n <= Len(x), Went(x, y, x1, y1, n)
  PROVE  x1 = Abstract!WithoutFront(x, n) /\ y1 = y \o Abstract!Front(x, n)
<1> DEFINE W == Abstract!WithoutFront(x, n)
           F == Abstract!Front(x, n)
<1>1. Part(W, x, n, Len(x) - n) /\ Part(F, x, 0, n) BY EndsAre
<1> HIDE DEF W, F
<1>2. Part(x1, x, n, Len(x) - n) BY DEF Went, Part
<1>3. x1 = W BY <1>1, <1>2, PartsEqual
<1>4. F \in Seq(Nat) /\ Len(F) = n /\ \A k \in 1..n : F[k] = x[k] BY <1>1 DEF Part
<1>5. /\ Len(y1) = Len(y) + Len(F) /\ \A i \in 1..Len(y) : y1[i] = y[i]
      /\ \A i \in 1..Len(F) : y1[Len(y) + i] = F[i]
  BY <1>4 DEF Went
<1>6. y1 = y \o F BY <1>4, <1>5, Joined
<1> QED BY <1>3, <1>6 DEF W, F

\* The same, seen from the other side: from the back of y1 to the front of x1.
LEMMA CameIs ==
  ASSUME NEW x \in Seq(Nat), NEW y \in Seq(Nat), NEW x1 \in Seq(Nat), NEW y1 \in Seq(Nat),
         NEW n \in Nat, n <= Len(x), Went(x, y, x1, y1, n)
  PROVE  /\ n <= Len(y1) /\ y = Abstract!WithoutBack(y1, n)
         /\ x = Abstract!Back(y1, n) \o x1
<1> DEFINE W == Abstract!WithoutBack(y1, n)
           F == Abstract!Back(y1, n)
<1>1. Len(y1) = Len(y) + n /\ Len(x) \in Nat /\ Len(y) \in Nat /\ Len(x1) = Len(x) - n BY DEF Went
<1>2. n <= Len(y1) /\ Len(y1) - n = Len(y) BY <1>1
<1>3. Part(W, y1, 0, Len(y)) /\ Part(F, y1, Len(y), n) BY <1>2, EndsAre
<1> HIDE DEF W, F
<1>4. Part(y, y1, 0, Len(y)) BY DEF Went, Part
<1>5. y = W BY <1>3, <1>4, PartsEqual
<1>6. F \in Seq(Nat) /\ Len(F) = n /\ \A k \in 1..n : F[k] = y1[k + Len(y)] BY <1>3 DEF Part
<1>7. \A i \in 1..n : y1[Len(y) + i] = x[i] BY DEF Went
<1>8. \A i \in 1..Len(F) : x[i] = F[i] BY <1>1, <1>6, <1>7
<1>9. \A i \in 1..Len(x1) : x[Len(F) + i] = x1[i]
  <2>1. \A i \in 1..Len(x) - n : x1[i] = x[i + n] BY DEF Went
  <2> QED BY <1>1, <1>6, <2>1
<1>10. Len(x) = Len(F) + Len(x1) BY <1>1, <1>6
<1>11. x = F \o x1 BY <1>6, <1>8, <1>9, <1>10, Joined
<1> QED BY <1>2, <1>5, <1>11 DEF W, F

\* From the front to the back of one.
LEMMA RotatedIs ==
  ASSUME NEW x \in Seq(Nat), NEW x1 \in Seq(Nat), NEW n \in Nat, n <= Len(x), Rotated(x, x1, n)
  PROVE  x1 = Abstract!WithoutFront(x, n) \o Abstract!Front(x, n)
<1> DEFINE W == Abstract!WithoutFront(x, n)
           F == Abstract!Front(x, n)
<1>1. Part(W, x, n, Len(x) - n) /\ Part(F, x, 0, n) BY EndsAre
<1> HIDE DEF W, F
<1>2. W \in Seq(Nat) /\ Len(W) = Len(x) - n /\ \A k \in 1..Len(x) - n : W[k] = x[k + n]
  BY <1>1 DEF Part
<1>3. F \in Seq(Nat) /\ Len(F) = n /\ \A k \in 1..n : F[k] = x[k] BY <1>1 DEF Part
<1>4. Len(x1) = Len(W) + Len(F) BY <1>2, <1>3 DEF Rotated
<1>5. \A i \in 1..Len(W) : x1[i] = W[i] BY <1>2 DEF Rotated
<1>6. \A i \in 1..Len(F) : x1[Len(W) + i] = F[i] BY <1>2, <1>3 DEF Rotated
<1>7. x1 = W \o F BY <1>2, <1>3, <1>4, <1>5, <1>6, Joined
<1> QED BY <1>7 DEF W, F

\* The same, seen from the other side: from the back of x1 to its front.
LEMMA CameRound ==
  ASSUME NEW x \in Seq(Nat), NEW x1 \in Seq(Nat), NEW n \in Nat, n <= Len(x), Rotated(x, x1, n)
  PROVE  Len(x1) = Len(x) /\ x = Abstract!Back(x1, n) \o Abstract!WithoutBack(x1, n)
<1> DEFINE W == Abstract!WithoutBack(x1, n)
           F == Abstract!Back(x1, n)
           l == Len(x) - n
<1>1. Len(x1) = Len(x) /\ Len(x) \in Nat /\ l \in Nat /\ Len(x) = n + l BY DEF Rotated
<1>2. n <= Len(x1) /\ Len(x1) - n = l BY <1>1
<1>3. Part(W, x1, 0, l) /\ Part(F, x1, l, n) BY <1>2, EndsAre
<1>4. /\ \A i \in 1..l : x1[i] = x[i + n]
      /\ \A i \in 1..n : x1[l + i] = x[i]
  BY DEF Rotated
<1> HIDE DEF W, F, l
<1>5. W \in Seq(Nat) /\ Len(W) = l /\ \A k \in 1..l : W[k] = x1[k] BY <1>1, <1>3 DEF Part
<1>6. F \in Seq(Nat) /\ Len(F) = n /\ \A k \in 1..n : F[k] = x1[k + l] BY <1>3 DEF Part
<1>7. Len(x) = Len(F) + Len(W) BY <1>1, <1>5, <1>6
<1>8. \A i \in 1..Len(F) : x[i] = F[i] BY <1>1, <1>4, <1>6
<1>9. \A i \in 1..Len(W) : x[Len(F) + i] = W[i] BY <1>1, <1>4, <1>5, <1>6
<1>10. x = F \o W BY <1>5, <1>6, <1>7, <1>8, <1>9, Joined
<1> QED BY <1>1, <1>10 DEF W, F

\* Nothing has moved when nothing is what has gone.
LEMMA RotatedByNone ==
  ASSUME NEW x \in Seq(Nat), NEW x1 \in Seq(Nat), Rotated(x, x1, 0)
  PROVE  x1 = x
<1>1. Len(x) = Len(x1) /\ \A i \in 1..Len(x) : x[i] = x1[i] BY DEF Rotated
<1> QED BY <1>1, SeqEqual

\* More than all is all.
LEMMA Capped ==
  ASSUME NEW x \in Seq(Nat), NEW n \in Nat, NEW m, m = IF n < Len(x) THEN n ELSE Len(x)
  PROVE  /\ Abstract!WithoutFront(x, n) = Abstract!WithoutFront(x, m)
         /\ Abstract!WithoutBack(x, n) = Abstract!WithoutBack(x, m)
         /\ Abstract!Front(x, n) = Abstract!Front(x, m)
         /\ Abstract!Back(x, n) = Abstract!Back(x, m)
<1>1. CASE n < Len(x)
  <2>1. m = n BY <1>1
  <2> QED BY <2>1
<1>2. CASE ~(n < Len(x))
  <2>1. m = Len(x) /\ n >= Len(x) /\ m \in Nat BY <1>2
  <2>2. Abstract!WithoutFront(x, n) = <<>> /\ Abstract!WithoutBack(x, n) = <<>>
    BY <2>1, NothingLeft
  <2>3. Abstract!WithoutFront(x, m) = <<>> /\ Abstract!WithoutBack(x, m) = <<>>
    BY <2>1, NothingLeft
  <2>4. ~(m < Len(x)) /\ ~(n < Len(x)) BY <2>1
  <2>5. Abstract!Front(x, n) = Abstract!Front(x, m) /\ Abstract!Back(x, n) = Abstract!Back(x, m)
    BY <2>4 DEF Abstract!Front, Abstract!Back
  <2> QED BY <2>2, <2>3, <2>5
<1> QED BY <1>1, <1>2

\* A proper state has a text for every buffer.
LEMMA ProperTexts ==
  ASSUME NEW s, Proper(s), NEW b \in Buffers
  PROVE  Text(s, b) \in Seq(Nat) /\ Length(s, b) = Len(Text(s, b)) /\ Len(Text(s, b)) \in Nat
<1>1. Ready(s, b) BY DEF Proper, Fine
<1> QED BY <1>1, TextIs, LengthText

\* Bytes move from the front of b to the back of c.
LEMMA BehindIs ==
  ASSUME NEW s, Proper(s), NEW t, Proper(t), NEW b \in Buffers, NEW c \in Buffers, NEW n \in Nat,
         Passed(s, t, b, c, Moves(s, b, c, n))
  PROVE  /\ \A a \in Buffers : a # b /\ a # c => Text(t, a) = Text(s, a)
         /\ b # c => /\ Text(t, b) = Abstract!WithoutFront(Text(s, b), n)
                     /\ Text(t, c) = Text(s, c) \o Abstract!Front(Text(s, b), n)
         /\ b = c /\ n < Len(Text(s, b)) =>
              Text(t, b) = Abstract!WithoutFront(Text(s, b), n) \o Abstract!Front(Text(s, b), n)
         /\ b = c /\ ~(n < Len(Text(s, b))) => Text(t, b) = Text(s, b)
<1> DEFINE X == Text(s, b)
           Y == Text(s, c)
           X1 == Text(t, b)
           Y1 == Text(t, c)
           m == Moves(s, b, c, n)
<1>1. /\ X \in Seq(Nat) /\ Y \in Seq(Nat) /\ X1 \in Seq(Nat) /\ Y1 \in Seq(Nat) /\ Len(X) \in Nat
  BY ProperTexts
<1>2. m = IF n < Len(X) THEN n ELSE IF b = c THEN 0 ELSE Len(X) BY DEF Moves
<1>3. /\ \A a \in Buffers : a # b /\ a # c => Text(t, a) = Text(s, a)
      /\ m <= Len(X) /\ IF b = c THEN Rotated(X, X1, m) ELSE Went(X, Y, X1, Y1, m)
  BY DEF Passed
<1> HIDE DEF X, Y, X1, Y1, m
<1>4. m \in Nat BY <1>1, <1>2
<1>5. CASE b # c
  <2>1. X1 = Abstract!WithoutFront(X, m) /\ Y1 = Y \o Abstract!Front(X, m)
    BY <1>1, <1>3, <1>4, <1>5, WentIs
  <2>2. m = IF n < Len(X) THEN n ELSE Len(X) BY <1>2, <1>5
  <2>3. X1 = Abstract!WithoutFront(X, n) /\ Y1 = Y \o Abstract!Front(X, n)
    BY <1>1, <2>1, <2>2, Capped
  <2> QED BY <1>3, <1>5, <2>3 DEF X, Y, X1, Y1
<1>6. CASE b = c /\ n < Len(X)
  <2>1. m = n BY <1>2, <1>6
  <2>2. X1 = Abstract!WithoutFront(X, n) \o Abstract!Front(X, n)
    BY <1>1, <1>3, <1>6, <2>1, RotatedIs
  <2> QED BY <1>3, <1>6, <2>2 DEF X, X1
<1>7. CASE b = c /\ ~(n < Len(X))
  <2>1. m = 0 BY <1>2, <1>7
  <2>2. X1 = X BY <1>1, <1>3, <1>7, <2>1, RotatedByNone
  <2> QED BY <1>3, <1>7, <2>2 DEF X, X1
<1> QED BY <1>5, <1>6, <1>7

\* Bytes move from the back of b to the front of c.
LEMMA BeforeIs ==
  ASSUME NEW s, Proper(s), NEW t, Proper(t), NEW b \in Buffers, NEW c \in Buffers, NEW n \in Nat,
         Passed(t, s, c, b, Moves(s, b, c, n))
  PROVE  /\ \A a \in Buffers : a # b /\ a # c => Text(t, a) = Text(s, a)
         /\ b # c => /\ Text(t, b) = Abstract!WithoutBack(Text(s, b), n)
                     /\ Text(t, c) = Abstract!Back(Text(s, b), n) \o Text(s, c)
         /\ b = c /\ n < Len(Text(s, b)) =>
              Text(t, b) = Abstract!Back(Text(s, b), n) \o Abstract!WithoutBack(Text(s, b), n)
         /\ b = c /\ ~(n < Len(Text(s, b))) => Text(t, b) = Text(s, b)
<1> DEFINE X == Text(s, b)
           Y == Text(s, c)
           X1 == Text(t, b)
           Y1 == Text(t, c)
           m == Moves(s, b, c, n)
<1>1. /\ X \in Seq(Nat) /\ Y \in Seq(Nat) /\ X1 \in Seq(Nat) /\ Y1 \in Seq(Nat) /\ Len(X) \in Nat
  BY ProperTexts
<1>2. m = IF n < Len(X) THEN n ELSE IF b = c THEN 0 ELSE Len(X) BY DEF Moves
<1>3. /\ \A a \in Buffers : a # b /\ a # c => Text(t, a) = Text(s, a)
      /\ m <= Len(Y1) /\ IF c = b THEN Rotated(Y1, Y, m) ELSE Went(Y1, X1, Y, X, m)
  BY DEF Passed
<1>8. b = c => X = Y /\ X1 = Y1 OBVIOUS
<1> HIDE DEF X, Y, X1, Y1, m
<1>4. m \in Nat BY <1>1, <1>2
<1>5. CASE b # c
  <2>1. X1 = Abstract!WithoutBack(X, m) /\ Y1 = Abstract!Back(X, m) \o Y
    BY <1>1, <1>3, <1>4, <1>5, CameIs
  <2>2. m = IF n < Len(X) THEN n ELSE Len(X) BY <1>2, <1>5
  <2>3. X1 = Abstract!WithoutBack(X, n) /\ Y1 = Abstract!Back(X, n) \o Y
    BY <1>1, <2>1, <2>2, Capped
  <2> QED BY <1>3, <1>5, <2>3 DEF X, Y, X1, Y1
<1>6. CASE b = c /\ n < Len(X)
  <2>1. m = n BY <1>2, <1>6
  <2>3. n <= Len(X1) /\ Rotated(X1, X, n) BY <1>3, <1>6, <1>8, <2>1
  <2>2. X1 = Abstract!Back(X, n) \o Abstract!WithoutBack(X, n)
    BY <1>1, <2>3, CameRound
  <2> QED BY <1>3, <1>6, <2>2 DEF X, X1
<1>7. CASE b = c /\ ~(n < Len(X))
  <2>1. m = 0 BY <1>2, <1>7
  <2>3. Rotated(X1, X, 0) BY <1>3, <1>7, <1>8, <2>1
  <2>2. X1 = X BY <1>1, <2>3, RotatedByNone
  <2> QED BY <1>3, <1>7, <2>2 DEF X, X1
<1> QED BY <1>5, <1>6, <1>7

(*** The steps. ***)

\* What an operation with the result r leaves: a proper state, with the texts of r.
Became(r) == Proper(St)' /\ \A a \in Buffers : Content(a)' = Text(r, a)

\* The bytes of a buffer are its text.
LEMMA ContentIs ==
  ASSUME NEW b
  PROVE  Content(b) = Text(St, b) /\ Content(b)' = Text(St', b)
<1>1. Content(b) = Text(St, b) BY DEF Content, Text, ByteAt, PageAt, Begin, End, Pages, St
<1>2. Content(b)' = Text(St', b)
  BY DEF Content, Text, ByteAt, PageAt, Begin, End, Pages, St
<1> QED BY <1>1, <1>2

\* An operation whose result is proper leaves a proper state, with the texts of that.
LEMMA BecomesProper ==
  ASSUME NEW STATE r, Proper(r), Becomes(r)
  PROVE  Became(r)
<1>1. PICK s : s = r /\ Kept(s, heap', pool', buf')
  <2>1. \E s \in {r} : Kept(s, heap', pool', buf') BY Zenon DEF Becomes, Kept
  <2> QED BY <2>1
<1>2. Proper(s) BY <1>1
<1> DEFINE H == heap'
           Q == pool'
           B == buf'
<1>3. Kept(s, H, Q, B) BY <1>1
<1> HIDE DEF H, Q, B
<1>4. Renewed(s, [heap |-> H, pool |-> Q, buf |-> B]) BY <1>2, <1>3, KeptProper
<1>5. St' = [heap |-> H, pool |-> Q, buf |-> B] BY DEF St, H, Q, B
<1>6. Proper(St') /\ \A a \in Buffers : Text(St', a) = Text(s, a)
  BY <1>4, <1>5 DEF Renewed, SameTexts
<1>7. \A a \in Buffers : Content(a)' = Text(r, a)
  <2>1. ASSUME NEW a \in Buffers PROVE Content(a)' = Text(r, a)
    <3>1. Content(a)' = Text(St', a) BY ContentIs
    <3> QED BY <1>1, <1>6, <3>1
  <2> QED BY <2>1
<1> QED BY <1>6, <1>7 DEF Became

\* The bytes of all buffers, when an operation changes those of one.
LEMMA OneChanges ==
  ASSUME NEW STATE r, NEW b \in Buffers, NEW STATE x, OnlyText(St, r, b, x), Became(r)
  PROVE  [a \in Buffers |-> Content(a)]' = [[a \in Buffers |-> Content(a)] EXCEPT ![b] = x]
<1>1. ASSUME NEW a \in Buffers PROVE Content(a)' = IF a = b THEN x ELSE Content(a)
  <2>1. Content(a) = Text(St, a) BY ContentIs
  <2>2. Content(a)' = Text(r, a) BY DEF Became
  <2> QED BY <2>1, <2>2 DEF OnlyText
<1> DEFINE old == [a \in Buffers |-> Content(a)]
           new == [a \in Buffers |-> Content(a)']
<1>2. \A a \in Buffers : new[a] = IF a = b THEN x ELSE old[a] BY <1>1
<1>3. new = [a \in Buffers |-> new[a]] /\ old = [a \in Buffers |-> old[a]] OBVIOUS
<1> HIDE DEF old, new
<1>4. new = [old EXCEPT ![b] = x] BY <1>2, <1>3
<1> QED BY <1>4 DEF new, old

\* The bytes of no buffer change.
LEMMA NoneChanges ==
  ASSUME NEW STATE r, SameTexts(St, r), Became(r)
  PROVE  [a \in Buffers |-> Content(a)]' = [a \in Buffers |-> Content(a)]
<1>1. ASSUME NEW a \in Buffers PROVE Content(a)' = Content(a)
  <2>1. Content(a) = Text(St, a) BY ContentIs
  <2>2. Content(a)' = Text(r, a) BY DEF Became
  <2> QED BY <2>1, <2>2 DEF SameTexts
<1> QED BY <1>1

\* An operation drops n bytes at the front of b.
LEMMA FrontDropped ==
  ASSUME NEW STATE r, NEW b \in Buffers, NEW n, Became(r),
         OnlyText(St, r, b, Abstract!WithoutFront(Text(St, b), n))
  PROVE  Abstract!RemoveFront(b, n)
<1> DEFINE old == [a \in Buffers |-> Content(a)]
<1>1. old[b] = Text(St, b) BY ContentIs
<1>2. old' = [old EXCEPT ![b] = Abstract!WithoutFront(Text(St, b), n)] BY OneChanges
<1> QED BY <1>1, <1>2 DEF Abstract!RemoveFront

\* An operation drops n bytes at the back of b.
LEMMA BackDropped ==
  ASSUME NEW STATE r, NEW b \in Buffers, NEW n, Became(r),
         OnlyText(St, r, b, Abstract!WithoutBack(Text(St, b), n))
  PROVE  Abstract!RemoveBack(b, n)
<1> DEFINE old == [a \in Buffers |-> Content(a)]
<1>1. old[b] = Text(St, b) BY ContentIs
<1>2. old' = [old EXCEPT ![b] = Abstract!WithoutBack(Text(St, b), n)] BY OneChanges
<1> QED BY <1>1, <1>2 DEF Abstract!RemoveBack

\* An operation puts data behind the bytes of b.
LEMMA BackPushed ==
  ASSUME NEW STATE r, NEW b \in Buffers, NEW data, Became(r), out' = <<>>,
         OnlyText(St, r, b, Text(St, b) \o data)
  PROVE  Abstract!PushBack(b, data)
<1> DEFINE old == [a \in Buffers |-> Content(a)]
<1>1. old[b] = Text(St, b) BY ContentIs
<1>2. old' = [old EXCEPT ![b] = Text(St, b) \o data] BY OneChanges
<1> QED BY <1>1, <1>2 DEF Abstract!PushBack

\* An operation puts data before the bytes of b.
LEMMA FrontPushed ==
  ASSUME NEW STATE r, NEW b \in Buffers, NEW data, Became(r), out' = <<>>,
         OnlyText(St, r, b, data \o Text(St, b))
  PROVE  Abstract!PushFront(b, data)
<1> DEFINE old == [a \in Buffers |-> Content(a)]
<1>1. old[b] = Text(St, b) BY ContentIs
<1>2. old' = [old EXCEPT ![b] = data \o Text(St, b)] BY OneChanges
<1> QED BY <1>1, <1>2 DEF Abstract!PushFront

\* To send nothing leaves the bytes.
LEMMA NothingSent ==
  ASSUME Proper(St), NEW b \in Buffers, out' = <<>>,
         [a \in Buffers |-> Content(a)]' = [a \in Buffers |-> Content(a)]
  PROVE  Abstract!Send(b)
<1> DEFINE old == [a \in Buffers |-> Content(a)]
           X == Text(St, b)
<1>1. old[b] = X BY ContentIs
<1>2. X \in Seq(Nat) /\ Len(X) \in Nat BY ProperTexts
<1>3. old = [old EXCEPT ![b] = old[b]] OBVIOUS
<1>4. Abstract!WithoutFront(X, 0) = X
  <2> HIDE DEF X
  <2>1. X \in Seq(Nat) /\ SubSeq(X, 0 + 1, Len(X)) = X BY ONLY <1>2
  <2> QED BY <2>1 DEF Abstract!WithoutFront
<1>5. Abstract!DropFront(b, 0) BY <1>1, <1>3, <1>4 DEF Abstract!DropFront, Abstract!RemoveFront
<1>6. 0 \in 0..Len(old[b]) BY <1>1, <1>2
<1> QED BY <1>5, <1>6 DEF Abstract!Send

\* The bytes of two buffers change.
LEMMA TwoChange ==
  ASSUME NEW STATE r, NEW b \in Buffers, NEW c \in Buffers, b # c, Became(r),
         \A a \in Buffers : a # b /\ a # c => Text(r, a) = Text(St, a),
         NEW STATE x, NEW STATE y, Text(r, b) = x, Text(r, c) = y
  PROVE  [a \in Buffers |-> Content(a)]'
           = [[a \in Buffers |-> Content(a)] EXCEPT ![b] = x, ![c] = y]
<1>1. ASSUME NEW a \in Buffers
      PROVE  Content(a)' = IF a = b THEN x ELSE IF a = c THEN y ELSE Content(a)
  <2>1. Content(a) = Text(St, a) BY ContentIs
  <2>2. Content(a)' = Text(r, a) BY DEF Became
  <2> QED BY <2>1, <2>2
<1> DEFINE old == [a \in Buffers |-> Content(a)]
           new == [a \in Buffers |-> Content(a)']
<1>2. \A a \in Buffers : new[a] = IF a = b THEN x ELSE IF a = c THEN y ELSE old[a] BY <1>1
<1>3. new = [a \in Buffers |-> new[a]] /\ old = [a \in Buffers |-> old[a]] OBVIOUS
<1> HIDE DEF old, new
<1>4. new = [old EXCEPT ![b] = x, ![c] = y] BY <1>2, <1>3
<1> QED BY <1>4 DEF new, old

\* Bytes have moved from the front of b to the back of c.
LEMMA MovedBehind ==
  ASSUME NEW STATE r, NEW b \in Buffers, NEW c \in Buffers, NEW n \in Nat, Proper(St), Proper(r),
         Became(r), out' = <<>>, Passed(St, r, b, c, Moves(St, b, c, n))
  PROVE  Abstract!MoveFrontToBack(b, c, n)
<1> DEFINE old == [a \in Buffers |-> Content(a)]
           X == Text(St, b)
           Y == Text(St, c)
           W == Abstract!WithoutFront(X, n)
           F == Abstract!Front(X, n)
<1>1. old[b] = X /\ old[c] = Y BY ContentIs
<1>2. /\ \A a \in Buffers : a # b /\ a # c => Text(r, a) = Text(St, a)
      /\ b # c => Text(r, b) = W /\ Text(r, c) = Y \o F
      /\ b = c /\ n < Len(X) => Text(r, b) = W \o F
      /\ b = c /\ ~(n < Len(X)) => Text(r, b) = X
  BY BehindIs
<1>3. CASE b # c
  <2>1. old' = [old EXCEPT ![b] = W, ![c] = Y \o F]
    <3> DEFINE x == W
               y == Y \o F
    <3>1. Text(r, b) = x /\ Text(r, c) = y BY <1>2, <1>3
    <3> HIDE DEF x, y
    <3>2. old' = [old EXCEPT ![b] = x, ![c] = y] BY <1>2, <1>3, <3>1, TwoChange
    <3> QED BY <3>2 DEF x, y
  <2>2. [old EXCEPT ![b] = W, ![c] = Y \o F]
          = [old EXCEPT ![b] = Abstract!WithoutFront(@, n), ![c] = @ \o Abstract!Front(old[b], n)]
    BY <1>1, <1>3
  <2> QED BY <1>3, <2>1, <2>2 DEF Abstract!MoveFrontToBack
<1>4. CASE b = c /\ n < Len(X)
  <2>1. old' = [old EXCEPT ![b] = W \o F]
    <3> DEFINE x == W \o F
    <3>1. OnlyText(St, r, b, x) BY <1>2, <1>4 DEF OnlyText
    <3> HIDE DEF x
    <3>2. old' = [old EXCEPT ![b] = x] BY <3>1, OneChanges
    <3> QED BY <3>2 DEF x
  <2> QED BY <1>1, <1>4, <2>1 DEF Abstract!MoveFrontToBack
<1>5. CASE b = c /\ ~(n < Len(X))
  <2>1. SameTexts(St, r) BY <1>2, <1>5 DEF SameTexts
  <2>2. old' = old BY <2>1, NoneChanges
  <2> QED BY <1>1, <1>5, <2>2 DEF Abstract!MoveFrontToBack
<1> QED BY <1>3, <1>4, <1>5

\* Bytes have moved from the back of b to the front of c.
LEMMA MovedBefore ==
  ASSUME NEW STATE r, NEW b \in Buffers, NEW c \in Buffers, NEW n \in Nat, Proper(St), Proper(r),
         Became(r), out' = <<>>, Passed(r, St, c, b, Moves(St, b, c, n))
  PROVE  Abstract!MoveBackToFront(b, c, n)
<1> DEFINE old == [a \in Buffers |-> Content(a)]
           X == Text(St, b)
           Y == Text(St, c)
           W == Abstract!WithoutBack(X, n)
           F == Abstract!Back(X, n)
<1>1. old[b] = X /\ old[c] = Y BY ContentIs
<1>2. /\ \A a \in Buffers : a # b /\ a # c => Text(r, a) = Text(St, a)
      /\ b # c => Text(r, b) = W /\ Text(r, c) = F \o Y
      /\ b = c /\ n < Len(X) => Text(r, b) = F \o W
      /\ b = c /\ ~(n < Len(X)) => Text(r, b) = X
  BY BeforeIs
<1>3. CASE b # c
  <2>1. old' = [old EXCEPT ![b] = W, ![c] = F \o Y]
    <3> DEFINE x == W
               y == F \o Y
    <3>1. Text(r, b) = x /\ Text(r, c) = y BY <1>2, <1>3
    <3> HIDE DEF x, y
    <3>2. old' = [old EXCEPT ![b] = x, ![c] = y] BY <1>2, <1>3, <3>1, TwoChange
    <3> QED BY <3>2 DEF x, y
  <2>2. [old EXCEPT ![b] = W, ![c] = F \o Y]
          = [old EXCEPT ![b] = Abstract!WithoutBack(@, n), ![c] = Abstract!Back(old[b], n) \o @]
    BY <1>1, <1>3
  <2> QED BY <1>3, <2>1, <2>2 DEF Abstract!MoveBackToFront
<1>4. CASE b = c /\ n < Len(X)
  <2>1. old' = [old EXCEPT ![b] = F \o W]
    <3> DEFINE x == F \o W
    <3>1. OnlyText(St, r, b, x) BY <1>2, <1>4 DEF OnlyText
    <3> HIDE DEF x
    <3>2. old' = [old EXCEPT ![b] = x] BY <3>1, OneChanges
    <3> QED BY <3>2 DEF x
  <2> QED BY <1>1, <1>4, <2>1 DEF Abstract!MoveBackToFront
<1>5. CASE b = c /\ ~(n < Len(X))
  <2>1. SameTexts(St, r) BY <1>2, <1>5 DEF SameTexts
  <2>2. old' = old BY <2>1, NoneChanges
  <2> QED BY <1>1, <1>5, <2>2 DEF Abstract!MoveBackToFront
<1> QED BY <1>3, <1>4, <1>5

\* What an operation has to do: leave a proper state, and copy only bytes out.
IInv == Proper(St) /\ out \in Seq(Nat)

\* Nothing is copied out.
LEMMA NothingOut == <<>> \in Seq(Nat)
OBVIOUS

\* push_back_n
LEMMA PushBackKeeps ==
  ASSUME IInv, NEW b \in Buffers, NEW data \in Seq(Nat), PushBack(b, data)
  PROVE  IInv' /\ Abstract!PushBack(b, data)
<1> DEFINE r == PushBackN(St, b, data)
<1>1. Proper(St) BY DEF IInv
<1>2. Proper(r) /\ OnlyText(St, r, b, Text(St, b) \o data) BY <1>1, PushBackIs
<1>3. Becomes(r) /\ out' = <<>> BY DEF PushBack
<1> HIDE DEF r
<1>4. Became(r) BY <1>2, <1>3, BecomesProper
<1>5. Abstract!PushBack(b, data) BY <1>2, <1>3, <1>4, BackPushed
<1> QED BY <1>3, <1>4, <1>5, NothingOut DEF IInv, Became

\* push_front_n
LEMMA PushFrontKeeps ==
  ASSUME IInv, NEW b \in Buffers, NEW data \in Seq(Nat), PushFront(b, data)
  PROVE  IInv' /\ Abstract!PushFront(b, data)
<1> DEFINE r == PushFrontN(St, b, data)
<1>1. Proper(St) BY DEF IInv
<1>2. Proper(r) /\ OnlyText(St, r, b, data \o Text(St, b)) BY <1>1, PushFrontIs
<1>3. Becomes(r) /\ out' = <<>> BY DEF PushFront
<1> HIDE DEF r
<1>4. Became(r) BY <1>2, <1>3, BecomesProper
<1>5. Abstract!PushFront(b, data) BY <1>2, <1>3, <1>4, FrontPushed
<1> QED BY <1>3, <1>4, <1>5, NothingOut DEF IInv, Became

\* io::direct_read: without data, all bytes stay.
LEMMA DirectReadKeeps ==
  ASSUME IInv, NEW b \in Buffers, NEW data \in Seq(Nat), DirectRead(b, data)
  PROVE  /\ IInv' /\ Abstract!PushBack(b, data)
         /\ data = <<>> => Abstract!Send(b)
<1> DEFINE r == DirectReadN(St, b, data)
<1>1. Proper(St) BY DEF IInv
<1>2. Proper(r) /\ OnlyText(St, r, b, Text(St, b) \o data) BY <1>1, DirectReadIs
<1>3. Becomes(r) /\ out' = <<>> BY DEF DirectRead
<1> HIDE DEF r
<1>4. Became(r) BY <1>2, <1>3, BecomesProper
<1>5. Abstract!PushBack(b, data) BY <1>2, <1>3, <1>4, BackPushed
<1>6. ASSUME data = <<>> PROVE Abstract!Send(b)
  <2> DEFINE X == Text(St, b)
  <2>1. X \in Seq(Nat) BY <1>1, ProperTexts
  <2>2. X \o data = X
    <3> HIDE DEF X
    <3> QED BY ONLY <1>6, <2>1
  <2>3. SameTexts(St, r) BY <1>2, <2>2 DEF OnlyText, SameTexts
  <2>4. [a \in Buffers |-> Content(a)]' = [a \in Buffers |-> Content(a)]
    BY <1>4, <2>3, NoneChanges
  <2> QED BY <1>1, <1>3, <2>4, NothingSent
<1> QED BY <1>3, <1>4, <1>5, <1>6, NothingOut DEF IInv, Became

\* pop_front_n(size)
LEMMA DropFrontKeeps ==
  ASSUME IInv, NEW b \in Buffers, NEW n \in Nat, DropFront(b, n)
  PROVE  IInv' /\ Abstract!DropFront(b, n)
<1> DEFINE r == DropFrontN(St, b, n)
<1>1. Proper(St) BY DEF IInv
<1>2. Proper(r) /\ OnlyText(St, r, b, Abstract!WithoutFront(Text(St, b), n))
  BY <1>1, DropFrontIs
<1>3. Becomes(r) /\ out' = <<>> BY DEF DropFront
<1> HIDE DEF r
<1>4. Became(r) BY <1>2, <1>3, BecomesProper
<1>5. Abstract!DropFront(b, n) BY <1>2, <1>3, <1>4, FrontDropped DEF Abstract!DropFront
<1> QED BY <1>3, <1>4, <1>5, NothingOut DEF IInv, Became

\* pop_back_n(size)
LEMMA DropBackKeeps ==
  ASSUME IInv, NEW b \in Buffers, NEW n \in Nat, DropBack(b, n)
  PROVE  IInv' /\ Abstract!DropBack(b, n)
<1> DEFINE r == DropBackN(St, b, n)
<1>1. Proper(St) BY DEF IInv
<1>2. Proper(r) /\ OnlyText(St, r, b, Abstract!WithoutBack(Text(St, b), n))
  BY <1>1, DropBackIs
<1>3. Becomes(r) /\ out' = <<>> BY DEF DropBack
<1> HIDE DEF r
<1>4. Became(r) BY <1>2, <1>3, BecomesProper
<1>5. Abstract!DropBack(b, n) BY <1>2, <1>3, <1>4, BackDropped DEF Abstract!DropBack
<1> QED BY <1>3, <1>4, <1>5, NothingOut DEF IInv, Became

\* io::direct_write
LEMMA DirectWriteKeeps ==
  ASSUME IInv, NEW b \in Buffers, NEW n \in Nat, DirectWrite(b, n)
  PROVE  IInv' /\ Abstract!Send(b)
<1> DEFINE r == DirectWriteN(St, b, n)
           old == [a \in Buffers |-> Content(a)]
<1>1. Proper(St) BY DEF IInv
<1>2. Becomes(r) /\ out' = <<>> /\ n <= Length(St, b) BY DEF DirectWrite
<1>3. Proper(r) /\ OnlyText(St, r, b, Abstract!WithoutFront(Text(St, b), n))
  BY <1>1, <1>2, DirectWriteIs
<1> HIDE DEF r
<1>4. Became(r) BY <1>2, <1>3, BecomesProper
<1>5. Abstract!DropFront(b, n) BY <1>2, <1>3, <1>4, FrontDropped DEF Abstract!DropFront
<1>6. n \in 0..Len(old[b])
  <2>1. old[b] = Text(St, b) BY ContentIs
  <2>2. Length(St, b) = Len(Text(St, b)) /\ Len(Text(St, b)) \in Nat BY <1>1, ProperTexts
  <2> HIDE DEF old
  <2> QED BY <1>2, <2>1, <2>2
<1>7. Abstract!Send(b) BY <1>5, <1>6 DEF Abstract!Send
<1> QED BY <1>2, <1>4, <1>7, NothingOut DEF IInv, Became

\* shrink_size: to its caller, nothing happens.
LEMMA ShrinkKeeps ==
  ASSUME IInv, NEW b \in Buffers, ShrinkSize(b)
  PROVE  IInv' /\ UNCHANGED Abstract!byteVars
<1> DEFINE r == Shrink(St, b)
<1>1. Proper(r) /\ SameTexts(St, r) BY ShrinkProper DEF IInv
<1>2. Becomes(r) /\ out' = out BY DEF ShrinkSize
<1> HIDE DEF r
<1>3. Became(r) BY <1>1, <1>2, BecomesProper
<1>4. [a \in Buffers |-> Content(a)]' = [a \in Buffers |-> Content(a)] BY <1>1, <1>3, NoneChanges
<1>5. UNCHANGED Abstract!byteVars BY <1>2, <1>4 DEF Abstract!byteVars
<1> QED BY <1>2, <1>3, <1>5 DEF IInv, Became

\* An operation leaves the buffers alone.
LEMMA AloneKeeps ==
  ASSUME IInv, UNCHANGED <<heap, pool, buf>>, out' \in Seq(Nat)
  PROVE  IInv' /\ [a \in Buffers |-> Content(a)]' = [a \in Buffers |-> Content(a)]
<1>1. St' = St BY DEF St
<1>2. \A a \in Buffers : Content(a)' = Content(a) BY DEF Content
<1> QED BY <1>1, <1>2 DEF IInv

\* pop_front_n(dest, size)
LEMMA TakeFrontKeeps ==
  ASSUME IInv, NEW b \in Buffers, NEW n \in Nat, TakeFront(b, n)
  PROVE  IInv' /\ Abstract!TakeFront(b, n)
<1> DEFINE k == TakenFront(St, b, n)
           r == Shrink(SetRange(St, b, Begin(St, b) + k, End(St, b)), b)
           old == [a \in Buffers |-> Content(a)]
<1>1. Proper(St) BY DEF IInv
<1>2. old[b] = Text(St, b) BY ContentIs
<1>3. CASE Begin(St, b) = NoPosition
  <2>1. UNCHANGED <<heap, pool, buf>> /\ out' = <<>> BY <1>3 DEF TakeFront
  <2>2. IInv' /\ old' = old BY <2>1, NothingOut, AloneKeeps
  <2>3. old[b] = <<>> BY <1>2, <1>3 DEF Text
  <2>4. Abstract!WithoutFront(old[b], n) = old[b] BY <2>3, NoneLeft
  <2>5. Abstract!Front(old[b], n) = <<>> BY <2>3 DEF Abstract!Front
  <2>6. old = [old EXCEPT ![b] = old[b]] OBVIOUS
  <2>7. Abstract!RemoveFront(b, n) BY <2>2, <2>4, <2>6 DEF Abstract!RemoveFront
  <2> QED BY <2>1, <2>2, <2>5, <2>7 DEF Abstract!TakeFront
<1>4. CASE Begin(St, b) # NoPosition
  <2>1. out' = Bytes(St, b, Begin(St, b), k) /\ Becomes(r) BY <1>4 DEF TakeFront
  <2>2. /\ Bytes(St, b, Begin(St, b), k) \in Seq(Nat)
        /\ Bytes(St, b, Begin(St, b), k) = Abstract!Front(Text(St, b), n)
        /\ Proper(r) /\ OnlyText(St, r, b, Abstract!WithoutFront(Text(St, b), n))
    <3>1. k = TakenFront(St, b, n) OBVIOUS
    <3> HIDE DEF k
    <3> QED BY <1>1, <1>4, <3>1, TakeFrontIs
  <2> HIDE DEF k, r
  <2>3. Became(r) BY <2>1, <2>2, BecomesProper
  <2>4. Abstract!RemoveFront(b, n) BY <2>2, <2>3, FrontDropped
  <2>5. out' = Abstract!Front(old[b], n) BY <1>2, <2>1, <2>2
  <2>6. Abstract!TakeFront(b, n) BY <2>4, <2>5 DEF Abstract!TakeFront
  <2> QED BY <2>1, <2>2, <2>3, <2>6 DEF IInv, Became
<1> QED BY <1>3, <1>4

\* pop_back_n(dest, size)
LEMMA TakeBackKeeps ==
  ASSUME IInv, NEW b \in Buffers, NEW n \in Nat, TakeBack(b, n)
  PROVE  IInv' /\ Abstract!TakeBack(b, n)
<1> DEFINE k == TakenBack(St, b, n)
           r == Shrink(SetRange(St, b, Begin(St, b), End(St, b) - k), b)
           z == Begin(St, b) + CopiedFrom(St, b, n)
           old == [a \in Buffers |-> Content(a)]
<1>1. Proper(St) BY DEF IInv
<1>2. CASE Begin(St, b) = NoPosition \/ k = 0
  <2>1. UNCHANGED <<heap, pool, buf>> /\ out' = <<>> BY <1>2 DEF TakeBack
  <2>2. IInv' /\ old' = old BY <2>1, NothingOut, AloneKeeps
  <2> DEFINE X == Text(St, b)
  <2>3. old[b] = X BY ContentIs
  <2>4. X \in Seq(Nat) /\ Len(X) \in Nat BY <1>1, ProperTexts
  <2>5. Abstract!WithoutBack(X, 0) = X
    <3> HIDE DEF X
    <3>1. Len(X) - 0 = Len(X) /\ SubSeq(X, 1, Len(X)) = X BY ONLY <2>4
    <3> QED BY <3>1 DEF Abstract!WithoutBack
  <2>6. old = [old EXCEPT ![b] = old[b]] OBVIOUS
  <2>7. Abstract!RemoveBack(b, 0) BY <2>2, <2>3, <2>5, <2>6 DEF Abstract!RemoveBack
  <2>8. 0 <= n /\ 0 \in 0..Len(X) /\ Len(out') = 0 /\ (0 = Len(X) => out' = X) BY <2>1, <2>4
  <2>9. Abstract!TakeBack(b, n) BY <2>3, <2>7, <2>8 DEF Abstract!TakeBack
  <2> QED BY <2>2, <2>9
<1>3. CASE Begin(St, b) # NoPosition /\ k # 0
  <2>1. out' = Bytes(St, b, z, k) /\ Becomes(r) BY <1>3 DEF TakeBack
  <2>2. /\ Bytes(St, b, z, k) \in Seq(Nat) /\ Len(Bytes(St, b, z, k)) = k
        /\ k \in 0..n /\ k <= Length(St, b)
        /\ k = Length(St, b) => Bytes(St, b, z, k) = Text(St, b)
        /\ Proper(r) /\ OnlyText(St, r, b, Abstract!WithoutBack(Text(St, b), k))
    <3>1. k = TakenBack(St, b, n) OBVIOUS
    <3> HIDE DEF k
    <3> QED BY <1>1, <1>3, <3>1, TakeBackIs
  <2> HIDE DEF k, r, z
  <2>3. Became(r) BY <2>1, <2>2, BecomesProper
  <2>4. Abstract!RemoveBack(b, k) BY <2>2, <2>3, BackDropped
  <2>5. old[b] = Text(St, b) /\ Length(St, b) = Len(Text(St, b)) BY <1>1, ContentIs, ProperTexts
  <2> HIDE DEF old
  <2>6. k \in 0..Len(old[b]) /\ k <= n /\ Len(out') = k /\ (k = Len(old[b]) => out' = old[b])
    BY <2>1, <2>2, <2>5
  <2>7. Abstract!TakeBack(b, n) BY <2>4, <2>6 DEF Abstract!TakeBack, old
  <2> QED BY <2>1, <2>2, <2>3, <2>7 DEF IInv, Became
<1> QED BY <1>2, <1>3

\* pop_front_to_other_back_n
LEMMA MoveBehindKeeps ==
  ASSUME IInv, NEW b \in Buffers, NEW c \in Buffers, NEW n \in Nat, MoveFrontToBack(b, c, n)
  PROVE  IInv' /\ Abstract!MoveFrontToBack(b, c, n)
<1> DEFINE r == MoveBehind(St, b, c, n)
<1>1. Proper(St) BY DEF IInv
<1>2. Proper(r) /\ Passed(St, r, b, c, Moves(St, b, c, n)) BY <1>1, MoveBehindIs
<1>3. Becomes(r) /\ out' = <<>> BY DEF MoveFrontToBack
<1> HIDE DEF r
<1>4. Became(r) BY <1>2, <1>3, BecomesProper
<1>5. Abstract!MoveFrontToBack(b, c, n) BY <1>1, <1>2, <1>3, <1>4, MovedBehind
<1> QED BY <1>3, <1>4, <1>5, NothingOut DEF IInv, Became

\* pop_back_to_other_front_n
LEMMA MoveBeforeKeeps ==
  ASSUME IInv, NEW b \in Buffers, NEW c \in Buffers, NEW n \in Nat, MoveBackToFront(b, c, n)
  PROVE  IInv' /\ Abstract!MoveBackToFront(b, c, n)
<1> DEFINE r == MoveBefore(St, b, c, n)
<1>1. Proper(St) BY DEF IInv
<1>2. Proper(r) /\ Passed(r, St, c, b, Moves(St, b, c, n)) BY <1>1, MoveBeforeIs
<1>3. Becomes(r) /\ out' = <<>> BY DEF MoveBackToFront
<1> HIDE DEF r
<1>4. Became(r) BY <1>2, <1>3, BecomesProper
<1>5. Abstract!MoveBackToFront(b, c, n) BY <1>1, <1>2, <1>3, <1>4, MovedBefore
<1> QED BY <1>3, <1>4, <1>5, NothingOut DEF IInv, Became

\* Every step keeps the invariant, and is one of ByteBuffers or changes no bytes.
LEMMA NextKeeps ==
  ASSUME IInv, [Next]_vars
  PROVE  IInv' /\ [Abstract!ByteNext]_(Abstract!byteVars)
<1> DEFINE Promised == IInv' /\ [Abstract!ByteNext]_(Abstract!byteVars)
<1>0. Inputs \subseteq Seq(Nat) /\ Sizes \subseteq Nat BY IoBufferAssumption
<1>1. CASE Next
  <2>1. PICK b \in Buffers :
          \/ ShrinkSize(b)
          \/ \E data \in Inputs : PushBack(b, data) \/ PushFront(b, data)
          \/ \E n \in Sizes : DropFront(b, n) \/ DropBack(b, n) \/ TakeFront(b, n) \/ TakeBack(b, n)
          \/ \E data \in Inputs \cup {<<>>} : DirectRead(b, data)
          \/ \E n \in Sizes \cup {0, Length(St, b)} : DirectWrite(b, n)
          \/ \E c \in Buffers, n \in Sizes : MoveFrontToBack(b, c, n) \/ MoveBackToFront(b, c, n)
    BY <1>1, Zenon DEF Next
  <2> USE DEF Abstract!ByteNext
  <2>2. CASE ShrinkSize(b) BY <2>2, ShrinkKeeps
  <2>3. ASSUME NEW data \in Inputs, PushBack(b, data) \/ PushFront(b, data) PROVE Promised
    <3>1. data \in Seq(Nat) BY <1>0
    <3>2. IInv' /\ (Abstract!PushBack(b, data) \/ Abstract!PushFront(b, data))
      BY <2>3, <3>1, PushBackKeeps, PushFrontKeeps
    <3> QED BY <3>2
  <2>4. ASSUME NEW n \in Sizes,
               DropFront(b, n) \/ DropBack(b, n) \/ TakeFront(b, n) \/ TakeBack(b, n)
        PROVE  Promised
    <3>1. n \in Nat BY <1>0
    <3>2. /\ IInv'
          /\ \/ Abstract!DropFront(b, n) \/ Abstract!DropBack(b, n)
             \/ Abstract!TakeFront(b, n) \/ Abstract!TakeBack(b, n)
      BY <2>4, <3>1, DropFrontKeeps, DropBackKeeps, TakeFrontKeeps, TakeBackKeeps
    <3> QED BY <3>2
  <2>5. ASSUME NEW data \in Inputs \cup {<<>>}, DirectRead(b, data) PROVE Promised
    <3>1. data \in Seq(Nat) BY <1>0, NothingOut
    <3>2. IInv' /\ Abstract!PushBack(b, data) /\ (data = <<>> => Abstract!Send(b))
      BY <2>5, <3>1, DirectReadKeeps
    <3>3. CASE data \in Inputs BY <3>2, <3>3
    <3>4. CASE data = <<>> BY <3>2, <3>4
    <3> QED BY <3>3, <3>4
  <2>6. ASSUME NEW n \in Sizes \cup {0, Length(St, b)}, DirectWrite(b, n) PROVE Promised
    <3>1. Length(St, b) \in Nat BY ProperTexts DEF IInv
    <3>2. n \in Nat BY <1>0, <3>1
    <3>3. IInv' /\ Abstract!Send(b) BY <2>6, <3>2, DirectWriteKeeps
    <3> QED BY <3>3
  <2>7. ASSUME NEW c \in Buffers, NEW n \in Sizes,
               MoveFrontToBack(b, c, n) \/ MoveBackToFront(b, c, n)
        PROVE  Promised
    <3>1. n \in Nat BY <1>0
    <3>2. IInv' /\ (Abstract!MoveFrontToBack(b, c, n) \/ Abstract!MoveBackToFront(b, c, n))
      BY <2>7, <3>1, MoveBehindKeeps, MoveBeforeKeeps
    <3> QED BY <3>2
  <2> HIDE DEF Promised
  <2> QED BY <2>1, <2>2, <2>3, <2>4, <2>5, <2>6, <2>7 DEF Promised
<1>2. CASE UNCHANGED vars
  <2>1. UNCHANGED <<heap, pool, buf>> /\ out' = out BY <1>2 DEF vars
  <2>2. out' \in Seq(Nat) BY <2>1 DEF IInv
  <2>3. IInv' /\ [a \in Buffers |-> Content(a)]' = [a \in Buffers |-> Content(a)]
    BY <2>1, <2>2, AloneKeeps
  <2>4. UNCHANGED Abstract!byteVars BY <2>1, <2>3 DEF Abstract!byteVars
  <2> QED BY <2>3, <2>4
<1> QED BY <1>1, <1>2

\* At first there are no pages, and no bytes.
LEMMA EmptyProper ==
  ASSUME NEW s, s = [heap |-> <<>>, pool |-> <<>>,
                     buf |-> [b \in Buffers |-> [pages |-> <<>>, begin |-> NoPosition, end |-> 0]]]
  PROVE  Proper(s)
<1>1. s.heap = <<>> /\ s.pool = <<>> /\ DOMAIN s.heap = {} OBVIOUS
<1>2. ASSUME NEW a \in Buffers
      PROVE  /\ s.buf[a] = [pages |-> <<>>, begin |-> NoPosition, end |-> 0]
             /\ Pages(s, a) = <<>> /\ Begin(s, a) = NoPosition /\ End(s, a) = 0
  BY DEF Pages, Begin, End
<1>3. Shaped(s)
  <2>1. s = [heap |-> s.heap, pool |-> s.pool, buf |-> s.buf] OBVIOUS
  <2>2. s.buf = [b \in Buffers |->
                   [pages |-> Pages(s, b), begin |-> Begin(s, b), end |-> End(s, b)]]
    BY <1>2
  <2> QED BY <2>1, <2>2 DEF Shaped
<1>4. Heaped(s.heap)
  <2>1. IsFiniteSet({}) BY FS_EmptySet
  <2>2. s.heap \in [{} -> PageBytes] BY <1>1
  <2> QED BY <1>1, <2>1, <2>2 DEF Heaped
<1>5. \A h \in Holders : Rows(s)[h] = <<>>
  <2>1. ASSUME NEW h \in Holders PROVE Rows(s)[h] = <<>>
    <3>1. CASE h = "pool" BY <1>1, <3>1, RowsAre
    <3>2. CASE h \in Buffers BY <1>2, <3>2, RowsAre
    <3> QED BY <3>1, <3>2 DEF Holders
  <2> QED BY <2>1
<1>6. Held(Rows(s), DOMAIN s.heap, {})
  <2>1. Rows(s) \in [Holders -> Seq({})]
    <3>1. Rows(s) = [h \in Holders |-> Rows(s)[h]] BY RowsAre
    <3>2. <<>> \in Seq({}) OBVIOUS
    <3> QED BY <1>5, <3>1, <3>2
  <2>2. \A h \in Holders : Len(Rows(s)[h]) = 0 BY <1>5
  <2>3. \A h \in Holders : 1..Len(Rows(s)[h]) = {} BY <2>2
  <2> QED BY <1>1, <2>1, <2>3 DEF Held
<1>7. \A a \in Buffers : Ready(s, a) /\ Trim(s, a) BY <1>2 DEF Ready, Trim
<1> QED BY <1>3, <1>4, <1>6, <1>7 DEF Proper, Fine, Sound

\* The invariant holds at first.
LEMMA InitIs ==
  ASSUME Init
  PROVE  IInv
<1>1. St = [heap |-> <<>>, pool |-> <<>>,
            buf |-> [b \in Buffers |-> [pages |-> <<>>, begin |-> NoPosition, end |-> 0]]]
  BY DEF Init, St
<1>2. Proper(St) BY <1>1, EmptyProper
<1> QED BY <1>2, NothingOut DEF IInv, Init

(*** What the invariant shows. ***)

\* A proper state has the types.
LEMMA ProperTypes ==
  ASSUME NEW s, Proper(s)
  PROVE  /\ IsFiniteSet(DOMAIN s.heap)
         /\ \A p \in DOMAIN s.heap : s.heap[p] \in [Offsets -> Nat \cup {Junk}]
         /\ s.pool \in Seq(DOMAIN s.heap)
         /\ s.buf \in [Buffers -> [pages : Seq(DOMAIN s.heap), begin : Nat \cup {NoPosition},
                                   end : Nat]]
<1>1. Fine(s) /\ Sound(s, {}) BY DEF Proper, Fine
<1>2. IsFiniteSet(DOMAIN s.heap) BY <1>1 DEF Sound, Heaped
<1>3. \A p \in DOMAIN s.heap : s.heap[p] \in [Offsets -> Nat \cup {Junk}]
  BY <1>1 DEF Sound, Heaped, PageBytes
<1>4. s.pool \in Seq(DOMAIN s.heap) BY <1>1, SoundParts
<1>5. ASSUME NEW a \in Buffers
      PROVE  [pages |-> Pages(s, a), begin |-> Begin(s, a), end |-> End(s, a)]
               \in [pages : Seq(DOMAIN s.heap), begin : Nat \cup {NoPosition}, end : Nat]
  <2>1. Ready(s, a) /\ Pages(s, a) \in Seq(DOMAIN s.heap) BY <1>1, SoundParts DEF Fine
  <2>2. Begin(s, a) \in Nat \cup {NoPosition} /\ End(s, a) \in Nat BY <2>1, ReadyParts
  <2> QED BY <2>1, <2>2
<1>6. s.buf = [b \in Buffers |-> [pages |-> Pages(s, b), begin |-> Begin(s, b), end |-> End(s, b)]]
  BY <1>1 DEF Sound, Shaped
<1>7. s.buf \in [Buffers -> [pages : Seq(DOMAIN s.heap), begin : Nat \cup {NoPosition}, end : Nat]]
  BY <1>5, <1>6
<1> QED BY <1>2, <1>3, <1>4, <1>7

\* In a sound state each page is in exactly one place.
LEMMA SoundOwned ==
  ASSUME NEW s, Sound(s, {})
  PROVE  /\ \A at \in Places(s) : PageIn(s, at) \in DOMAIN s.heap
         /\ \A p \in DOMAIN s.heap :
              \E at \in Places(s) : {other \in Places(s) : PageIn(s, other) = p} = {at}
<1> DEFINE R == Rows(s)
           D == DOMAIN s.heap
<1>1. Held(R, D, {}) BY DEF Sound
<1>2. /\ \A h \in Holders : \A i \in 1..Len(R[h]) :
           <<h, i>> \in Places(s) /\ PageIn(s, <<h, i>>) = R[h][i]
      /\ \A at \in Places(s) : \E h \in Holders : \E i \in 1..Len(R[h]) : at = <<h, i>>
  BY PlacesAre
<1> HIDE DEF R, D
<1>3. ASSUME NEW at \in Places(s) PROVE PageIn(s, at) \in D
  <2>1. PICK h \in Holders : \E i \in 1..Len(R[h]) : at = <<h, i>> BY <1>2
  <2>2. PICK i \in 1..Len(R[h]) : at = <<h, i>> BY <2>1
  <2>3. R[h] \in Seq(D) BY <1>1 DEF Held
  <2>4. R[h][i] \in D BY <2>3
  <2> QED BY <1>2, <2>2, <2>4
<1>4. ASSUME NEW p \in D
      PROVE  \E at \in Places(s) : {other \in Places(s) : PageIn(s, other) = p} = {at}
  <2>1. PICK h \in Holders : \E i \in 1..Len(R[h]) : R[h][i] = p BY <1>1 DEF Held
  <2>2. PICK i \in 1..Len(R[h]) : R[h][i] = p BY <2>1
  <2>3. <<h, i>> \in Places(s) /\ PageIn(s, <<h, i>>) = p BY <1>2, <2>2
  <2>4. ASSUME NEW other \in Places(s), PageIn(s, other) = p PROVE other = <<h, i>>
    <3>1. PICK g \in Holders : \E j \in 1..Len(R[g]) : other = <<g, j>> BY <1>2
    <3>2. PICK j \in 1..Len(R[g]) : other = <<g, j>> BY <3>1
    <3>3. R[g][j] = R[h][i] BY <1>2, <2>2, <2>4, <3>2
    <3>4. g = h /\ j = i BY <1>1, <3>3, HeldOnce
    <3> QED BY <3>2, <3>4
  <2>5. {other \in Places(s) : PageIn(s, other) = p} = {<<h, i>>} BY <2>3, <2>4
  <2> QED BY <2>3, <2>5
<1> QED BY <1>3, <1>4 DEF D

\* In a proper state the bytes of a buffer are within its pages.
LEMMA ProperWithin ==
  ASSUME NEW s, Proper(s), NEW b \in Buffers
  PROVE  \/ Begin(s, b) = NoPosition /\ End(s, b) = 0
         \/ /\ 0 <= Begin(s, b) /\ Begin(s, b) < End(s, b)
            /\ End(s, b) <= Len(Pages(s, b)) * PageSize
<1>1. Ready(s, b) /\ Trim(s, b) BY DEF Proper, Fine
<1>2. CASE Begin(s, b) = NoPosition BY <1>1, <1>2 DEF Ready
<1>3. CASE Begin(s, b) # NoPosition BY <1>1, <1>3 DEF Ready, Trim
<1> QED BY <1>2, <1>3

\* The invariant contains what it is for.
LEMMA InvariantShows ==
  ASSUME IInv
  PROVE  TypeOK /\ PagesOwnedOnce /\ WithinPages
<1>1. Proper(St) /\ out \in Seq(Nat) BY DEF IInv
<1>2. St.heap = heap /\ St.pool = pool /\ St.buf = buf BY DEF St
<1>3. TypeOK
  <2>1. /\ IsFiniteSet(DOMAIN St.heap)
        /\ \A p \in DOMAIN St.heap : St.heap[p] \in [Offsets -> Nat \cup {Junk}]
        /\ St.pool \in Seq(DOMAIN St.heap)
        /\ St.buf \in [Buffers -> [pages : Seq(DOMAIN St.heap), begin : Nat \cup {NoPosition},
                                   end : Nat]]
    BY <1>1, ProperTypes
  <2> QED BY <1>1, <1>2, <2>1 DEF TypeOK
<1>4. PagesOwnedOnce
  <2>1. Sound(St, {}) BY <1>1 DEF Proper, Fine
  <2>2. /\ \A at \in Places(St) : PageIn(St, at) \in DOMAIN St.heap
        /\ \A p \in DOMAIN St.heap :
             \E at \in Places(St) : {other \in Places(St) : PageIn(St, other) = p} = {at}
    BY <2>1, SoundOwned
  <2> QED BY <1>2, <2>2 DEF PagesOwnedOnce
<1>5. WithinPages
  <2>1. ASSUME NEW b \in Buffers
        PROVE  \/ buf[b].begin = NoPosition /\ buf[b].end = 0
               \/ /\ 0 <= buf[b].begin /\ buf[b].begin < buf[b].end
                  /\ buf[b].end <= Len(buf[b].pages) * PageSize
    <3>1. \/ Begin(St, b) = NoPosition /\ End(St, b) = 0
          \/ /\ 0 <= Begin(St, b) /\ Begin(St, b) < End(St, b)
             /\ End(St, b) <= Len(Pages(St, b)) * PageSize
      BY <1>1, ProperWithin
    <3> QED BY <1>2, <3>1 DEF Begin, End, Pages
  <2> QED BY <1>3, <2>1 DEF WithinPages
<1> QED BY <1>3, <1>4, <1>5

\* Whatever buffers, pages, inputs and sizes there are, the invariant holds: every operation of
\* io_buffer.cpp, and the loops and swaps of its moves, come back to a state that it describes.
THEOREM Invariance == Spec => []IInv
<1>1. Init => IInv BY InitIs
<1>2. IInv /\ [Next]_vars => IInv' BY NextKeeps
<1> QED BY <1>1, <1>2, PTL DEF Spec

\* What a pop copies out was written before: a dest never gets what new char[] left in a page.
THEOREM PopsCopyBytes == Spec => []TypeOK
<1>1. IInv => TypeOK BY InvariantShows
<1> QED BY <1>1, Invariance, PTL

\* Each allocated page is in one place, a buffer or the pool: none is leaked by a swap, a hand-over
\* or mem_container::push, and none is deleted or written to by two owners.
THEOREM PagesAreOwnedOnce == Spec => []PagesOwnedOnce
<1>1. IInv => PagesOwnedOnce BY InvariantShows
<1> QED BY <1>1, Invariance, PTL

\* begin and end stay within the pages of their buffer, so that the loops never read or write
\* beside a page, and check() never throws "io_buffer overflow!".
THEOREM PositionsStayWithin == Spec => []WithinPages
<1>1. IInv => WithinPages BY InvariantShows
<1> QED BY <1>1, Invariance, PTL

\* At first no buffer has bytes.
LEMMA NoBytes ==
  ASSUME Init
  PROVE  Abstract!ByteInit
<1>1. \A b \in Buffers : Content(b) = <<>> BY DEF Init, Content
<1>2. [b \in Buffers |-> Content(b)] = [b \in Buffers |-> <<>>] BY <1>1
<1> QED BY <1>2 DEF Init, Abstract!ByteInit

\* Whatever pages the bytes are on, io_buffer is the sequences of bytes of ByteBuffers: a push, a
\* pop or a move, page by page with swaps and hand-overs, and what goes over the socket, leaves
\* every buffer with the bytes, in the order, that ByteBuffers says.
THEOREM BuffersHoldTheirBytes == Spec => IsByteBuffers
<1>1. Init => Abstract!ByteInit BY NoBytes
<1>2. IInv /\ [Next]_vars => [Abstract!ByteNext]_(Abstract!byteVars) BY NextKeeps
<1> QED BY <1>1, <1>2, Invariance, PTL DEF Spec, IsByteBuffers, Abstract!ByteSpec
===============================================================================
