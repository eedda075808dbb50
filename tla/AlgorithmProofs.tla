-------------------------- MODULE AlgorithmProofs --------------------------
(***************************************************************************)
(* The replication state machine on any stream and the retry delays, for   *)
(* every value of the limits and of the width of a duration: a batch holds *)
(* the protected messages of one transaction in their order, a stream is   *)
(* refused exactly when it breaks the protocol or a limit, and a stored    *)
(* delay is the capped maximum.                                            *)
(***************************************************************************)
EXTENDS Stream, Backoff, FiniteSetTheorems, TLAPS
-----------------------------------------------------------------------------
(* Induction and recursion on the natural numbers.                         *)

\* A set of natural numbers that is not empty has a least element.
LEMMA LeastNatural ==
  ASSUME NEW T \in SUBSET Nat, T # {}
  PROVE  \E n \in T : \A m \in T : n <= m
<1> DEFINE R == OpToRel(<, Nat)
<1>1. IsWellFoundedOn(R, Nat)
  BY Zenon, NatLessThanWellFounded
<1>2. \A m, n \in Nat : m < n => <<m, n>> \in R
  BY Zenon DEF OpToRel
<1> HIDE DEF R
<1>3. PICK n \in T : \A m \in T : ~(<<m, n>> \in R)
  BY Zenon, <1>1, WFMin
<1>4. ASSUME NEW m \in T PROVE n <= m
  <2>1. m \in Nat /\ n \in Nat /\ ~(m < n)
    BY Zenon, <1>2, <1>3
  <2> QED
    BY <2>1
<1> QED
  BY Zenon, <1>4

\* Induction over the natural numbers, with the property as a set: the loop of
\* retryDelay and the bytes of Consume are followed step by step with it.
LEMMA Induction ==
  ASSUME NEW P, 0 \in P, \A n \in Nat : n \in P => n + 1 \in P
  PROVE  \A n \in Nat : n \in P
<1> SUFFICES ASSUME Nat \ P # {} PROVE FALSE
  BY Zenon
<1>1. PICK n \in Nat \ P : \A m \in Nat \ P : n <= m
  BY Zenon, LeastNatural
<1>2. n \in Nat /\ n # 0
  BY Zenon, <1>1
<1>3. n - 1 \in Nat /\ ~(n <= n - 1) /\ n = (n - 1) + 1
  BY <1>2
<1> QED
  BY Zenon, <1>1, <1>3

\* g holds the first n steps of the computation from s by the steps "step".
Partial(g, n, S, s, step) ==
  /\ g \in [0..n -> S] /\ g[0] = s
  /\ \A i \in Nat : i + 1 \in 0..n => g[i + 1] = step[i][g[i]]

\* A computation of n steps can be continued by one.
LEMMA PartialExtends ==
  ASSUME NEW S, NEW s \in S, NEW step \in [Nat -> [S -> S]], NEW n \in Nat,
         NEW g, Partial(g, n, S, s, step)
  PROVE  \E h : Partial(h, n + 1, S, s, step)
<1> DEFINE h == [i \in 0..n + 1 |-> IF i = n + 1 THEN step[n][g[n]] ELSE g[i]]
<1>1. n \in 0..n /\ n + 1 \in 0..n + 1 /\ 0 \in 0..n + 1 /\ 0 # n + 1
      /\ \A i \in 0..n + 1 : i = n + 1 \/ i \in 0..n
  OBVIOUS
<1>2. g[n] \in S /\ step[n][g[n]] \in S /\ g[0] = s /\ \A i \in 0..n : g[i] \in S
  BY Zenon, <1>1 DEF Partial
<1>3. /\ h \in [0..n + 1 -> S] /\ h[0] = s /\ h[n + 1] = step[n][g[n]]
      /\ \A i \in 0..n : h[i] = g[i]
  BY <1>1, <1>2
<1> HIDE DEF h
<1>4. ASSUME NEW i \in Nat, i + 1 \in 0..n + 1 PROVE h[i + 1] = step[i][h[i]]
  <2>1. CASE i = n
    BY Zenon, <1>1, <1>3, <2>1
  <2>2. CASE i # n
    <3>1. i + 1 \in 0..n /\ i \in 0..n
      BY <1>4, <2>2
    <3> QED
      BY Zenon, <1>3, <3>1 DEF Partial
  <2> QED
    BY Zenon, <2>1, <2>2
<1> QED
  BY Zenon, <1>3, <1>4 DEF Partial

\* Two computations agree as far as both go.
LEMMA PartialsAgree ==
  ASSUME NEW S, NEW s \in S, NEW step \in [Nat -> [S -> S]],
         NEW n \in Nat, NEW g, Partial(g, n, S, s, step),
         NEW m \in Nat, NEW h, Partial(h, m, S, s, step),
         NEW i \in Nat, i <= n, i <= m
  PROVE  g[i] = h[i]
<1> DEFINE P == {j \in Nat : j <= n /\ j <= m => g[j] = h[j]}
<1>1. 0 \in P
  BY Zenon DEF Partial
<1>2. ASSUME NEW j \in Nat, j \in P PROVE j + 1 \in P
  <2> SUFFICES ASSUME j + 1 <= n, j + 1 <= m PROVE g[j + 1] = h[j + 1]
    BY <1>2
  <2>1. j <= n /\ j <= m /\ j + 1 \in 0..n /\ j + 1 \in 0..m
    OBVIOUS
  <2>2. g[j] = h[j]
    BY Zenon, <1>2, <2>1
  <2>3. g[j + 1] = step[j][g[j]]
    BY Zenon, <2>1 DEF Partial
  <2>4. h[j + 1] = step[j][h[j]]
    BY Zenon, <2>1 DEF Partial
  <2> QED
    BY Zenon, <2>2, <2>3, <2>4
<1> HIDE DEF P
<1>3. \A j \in Nat : j \in P
  BY Zenon, <1>1, <1>2, Induction
<1> QED
  BY Zenon, <1>3 DEF P

\* A function is defined by its first value and by its steps.
LEMMA Recursion ==
  ASSUME NEW S, NEW s \in S, NEW step \in [Nat -> [S -> S]]
  PROVE  \E F \in [Nat -> S] : F[0] = s /\ \A n \in Nat : F[n + 1] = step[n][F[n]]
<1> DEFINE P == {n \in Nat : \E g : Partial(g, n, S, s, step)}
           G(n) == CHOOSE g : Partial(g, n, S, s, step)
           F == [n \in Nat |-> G(n)[n]]
<1>1. 0 \in P
  <2> DEFINE g == [i \in 0..0 |-> s]
  <2>1. g \in [0..0 -> S] /\ g[0] = s /\ \A i \in Nat : i + 1 \notin 0..0
    OBVIOUS
  <2> HIDE DEF g
  <2>2. Partial(g, 0, S, s, step)
    BY Zenon, <2>1 DEF Partial
  <2> QED
    BY Zenon, <2>2
<1>2. \A n \in Nat : n \in P => n + 1 \in P
  <2> SUFFICES ASSUME NEW n \in Nat, n \in P PROVE n + 1 \in P
    BY Zenon
  <2>1. n + 1 \in Nat
    OBVIOUS
  <2> QED
    BY Zenon, <2>1, PartialExtends
<1> HIDE DEF P
<1>3. \A n \in Nat : n \in P
  BY Zenon, <1>1, <1>2, Induction
<1>4. \A n \in Nat : Partial(G(n), n, S, s, step)
  BY Zenon, <1>3 DEF P
<1> HIDE DEF G
<1>5. F \in [Nat -> S] /\ \A n \in Nat : F[n] = G(n)[n]
  <2>1. \A n \in Nat : n \in 0..n
    OBVIOUS
  <2>2. \A n \in Nat : G(n)[n] \in S
    BY Zenon, <1>4, <2>1 DEF Partial
  <2> QED
    BY Zenon, <2>2
<1> HIDE DEF F
<1>6. F[0] = s
  BY Zenon, <1>4, <1>5 DEF Partial
<1>7. ASSUME NEW n \in Nat PROVE F[n + 1] = step[n][F[n]]
  <2>1. n + 1 \in Nat /\ n <= n /\ n <= n + 1 /\ n + 1 \in 0..n + 1
    OBVIOUS
  <2>2. Partial(G(n), n, S, s, step) /\ Partial(G(n + 1), n + 1, S, s, step)
    BY Zenon, <1>4, <2>1
  <2>3. G(n + 1)[n] = G(n)[n]
    <3>1. ASSUME NEW g, Partial(g, n, S, s, step), NEW h, Partial(h, n + 1, S, s, step)
          PROVE  h[n] = g[n]
      <4>1. g[n] = h[n]
        BY <2>1, <3>1, PartialsAgree
      <4> QED
        BY Zenon, <4>1
    <3> QED
      BY Zenon, <2>2, <3>1
  <2>4. G(n + 1)[n + 1] = step[n][G(n + 1)[n]]
    BY Zenon, <2>1, <2>2 DEF Partial
  <2> QED
    BY Zenon, <1>5, <2>1, <2>3, <2>4
<1> QED
  BY Zenon, <1>5, <1>6, <1>7
-----------------------------------------------------------------------------
(* The retry delays.                                                       *)

\* The powers of two double.
LEMMA Pow2Rec == Pow2[0] = 1 /\ \A n \in Nat : Pow2[n] \in Nat /\ Pow2[n] >= 1 /\ Pow2[n+1] = 2 * Pow2[n]
<1> DEFINE S == Nat \ {0}
           step == [n \in Nat |-> [x \in S |-> 2 * x]]
<1>1. step \in [Nat -> [S -> S]] /\ 1 \in S /\ \A n \in Nat, x \in S : step[n][x] = 2 * x
  OBVIOUS
<1> HIDE DEF step, S
<1>2. PICK F \in [Nat -> S] : F[0] = 1 /\ \A n \in Nat : F[n + 1] = step[n][F[n]]
  BY <1>1, Recursion
<1>3. \A n \in Nat : F[n + 1] = 2 * F[n]
  BY Zenon, <1>1, <1>2
<1>4. F = [n \in Nat |-> IF n = 0 THEN 1 ELSE 2 * F[n - 1]]
  <2> SUFFICES ASSUME NEW n \in Nat PROVE F[n] = IF n = 0 THEN 1 ELSE 2 * F[n - 1]
    BY Zenon, <1>2
  <2>1. CASE n = 0
    BY Zenon, <1>2, <2>1
  <2>2. CASE n # 0
    <3>1. n - 1 \in Nat /\ n = (n - 1) + 1
      BY <2>2
    <3> QED
      BY Zenon, <1>3, <2>2, <3>1
  <2> QED
    BY Zenon, <2>1, <2>2
<1>5. Pow2 = [n \in Nat |-> IF n = 0 THEN 1 ELSE 2 * Pow2[n - 1]]
  BY Zenon, <1>4 DEF Pow2
<1>6. Pow2[0] = 1 /\ \A n \in Nat : n # 0 => Pow2[n] = 2 * Pow2[n - 1]
  BY Zenon, <1>5
<1>7. ASSUME NEW n \in Nat PROVE Pow2[n + 1] = 2 * Pow2[n]
  <2>1. n + 1 \in Nat /\ n + 1 # 0 /\ (n + 1) - 1 = n
    OBVIOUS
  <2> QED
    BY Zenon, <1>6, <2>1
<1> DEFINE P == {n \in Nat : Pow2[n] \in Nat /\ Pow2[n] >= 1}
<1>8. 0 \in P
  BY <1>6
<1>9. \A n \in Nat : n \in P => n + 1 \in P
  BY <1>7
<1> HIDE DEF P
<1>10. \A n \in Nat : n \in P
  BY Zenon, <1>8, <1>9, Induction
<1> QED
  BY Zenon, <1>6, <1>7, <1>10 DEF P

\* A duration that fits time.Duration is not changed by the width, and
\* time.Second fits.
LEMMA WidthFacts ==
  /\ MaxDuration \in Nat /\ MaxDuration >= 1
  /\ Second \in Nat /\ Second >= 1
  /\ \A n \in 0..MaxDuration : Wrap(n) = n
<1>1. Width \in Nat /\ Width # 0 /\ Width - 1 \in Nat /\ (Width - 1) + 1 = Width
  BY DelayAssumption
<1> DEFINE H == Pow2[Width - 1]
<1>2. H \in Nat /\ H >= 1 /\ Pow2[Width] = 2 * H
  BY Zenon, <1>1, Pow2Rec
<1> HIDE DEF H
<1>3. MaxDuration = H - 1
  BY Zenon DEF MaxDuration, H
<1>4. Second \in 1..MaxDuration
  BY Zenon, DelayAssumption
<1>5. ASSUME NEW n \in 0..MaxDuration PROVE Wrap(n) = n
  <2>1. Wrap(n) = ((n + H) % (2 * H)) - H
    BY Zenon, <1>2 DEF Wrap, H
  <2>2. n + H \in Nat /\ n + H < 2 * H /\ 2 * H \in Nat
    BY <1>2, <1>3
  <2>3. (n + H) % (2 * H) = n + H
    BY <2>2
  <2> QED
    BY <1>2, <1>3, <2>1, <2>3
<1> QED
  BY <1>2, <1>3, <1>4, <1>5

\* One turn of the loop of retryDelay doubles the delay or stops at max_delay,
\* and never multiplies what would not fit.
LEMMA DoubledValue ==
  ASSUME NEW top \in 1..MaxDuration, NEW x \in Nat, NEW d,
         d = IF x > top THEN top ELSE x
  PROVE  Doubled(d, top) = IF 2 * x > top THEN top ELSE 2 * x
<1>1. MaxDuration \in Nat /\ \A n \in 0..MaxDuration : Wrap(n) = n
  BY Zenon, WidthFacts
<1>2. CASE d >= top
  BY <1>1, <1>2 DEF Doubled
<1>3. CASE d < top /\ d > top \div 2
  BY <1>1, <1>3 DEF Doubled
<1>4. CASE d < top /\ d <= top \div 2
  <2>1. x = d /\ 2 * d \in 0..MaxDuration /\ 2 * d <= top /\ ~(d >= top) /\ ~(d > top \div 2)
    BY <1>1, <1>4
  <2>2. Doubled(d, top) = Wrap(d * 2) /\ d * 2 = 2 * d
    BY <2>1 DEF Doubled
  <2> QED
    BY <1>1, <2>1, <2>2
<1> QED
  BY <1>1, <1>2, <1>3, <1>4

\* retryDelay in closed form: the initial delay times a power of two, capped.
LEMMA RetryDelayValue ==
  ASSUME NEW first \in 1..MaxDuration, NEW top \in 1..MaxDuration, first <= top,
         NEW n \in Nat
  PROVE  RetryDelay(first, top, n) = IF first * Pow2[n] > top THEN top ELSE first * Pow2[n]
<1> DEFINE V(i) == IF first * Pow2[i] > top THEN top ELSE first * Pow2[i]
           Eq(g) == g = [i \in 0..n |-> IF i = 0 THEN first ELSE Doubled(g[i - 1], top)]
           A == CHOOSE g : Eq(g)
<1>0. MaxDuration \in Nat /\ first \in Nat /\ top \in Nat
  BY WidthFacts
<1>1. V(0) = first
  BY <1>0, Pow2Rec
<1>2. ASSUME NEW i \in Nat PROVE Doubled(V(i), top) = V(i + 1)
  <2> DEFINE x == first * Pow2[i]
  <2>1. x \in Nat /\ first * Pow2[i + 1] = 2 * x
    <3>1. Pow2[i] \in Nat /\ Pow2[i + 1] = 2 * Pow2[i]
      BY Zenon, Pow2Rec
    <3> QED
      BY <1>0, <3>1
  <2> HIDE DEF x
  <2>2. Doubled(IF x > top THEN top ELSE x, top) = IF 2 * x > top THEN top ELSE 2 * x
    BY Zenon, <2>1, DoubledValue
  <2> QED
    BY Zenon, <2>1, <2>2 DEF x
<1>9. \A i \in Nat : V(i) \in Nat /\ V(i) <= top
  <2> SUFFICES ASSUME NEW i \in Nat PROVE V(i) \in Nat /\ V(i) <= top
    BY Zenon
  <2>1. Pow2[i] \in Nat
    BY Zenon, Pow2Rec
  <2>2. first * Pow2[i] \in Nat
    BY <1>0, <2>1
  <2> QED
    BY <1>0, <2>2
<1> HIDE DEF V
<1>3. Eq([i \in 0..n |-> V(i)])
  <2> DEFINE h == [i \in 0..n |-> V(i)]
  <2> SUFFICES ASSUME NEW i \in 0..n PROVE h[i] = IF i = 0 THEN first ELSE Doubled(h[i - 1], top)
    BY Zenon
  <2>1. CASE i = 0
    BY Zenon, <1>1, <2>1
  <2>2. CASE i # 0
    <3>1. i - 1 \in Nat /\ i - 1 \in 0..n /\ (i - 1) + 1 = i
      BY <2>2
    <3> QED
      BY Zenon, <1>2, <2>2, <3>1
  <2> QED
    BY Zenon, <2>1, <2>2
<1>4. Eq(A)
  BY Zenon, <1>3
<1> HIDE DEF A
<1> DEFINE P == {i \in Nat : i <= n => A[i] = V(i)}
<1>5. 0 \in P
  <2>1. 0 \in 0..n
    OBVIOUS
  <2> QED
    BY Zenon, <1>1, <1>4, <2>1
<1>6. \A i \in Nat : i \in P => i + 1 \in P
  <2> SUFFICES ASSUME NEW i \in Nat, i \in P, i + 1 <= n PROVE A[i + 1] = V(i + 1)
    OBVIOUS
  <2>1. i <= n /\ i + 1 \in 0..n /\ i + 1 # 0 /\ (i + 1) - 1 = i
    OBVIOUS
  <2>2. A[i + 1] = Doubled(A[i], top)
    BY Zenon, <1>4, <2>1
  <2> QED
    BY Zenon, <1>2, <2>1, <2>2
<1> HIDE DEF P
<1>7. \A i \in Nat : i \in P
  BY Zenon, <1>5, <1>6, Induction
<1>8. A[n] = V(n)
  <2>1. n <= n
    OBVIOUS
  <2> QED
    BY Zenon, <1>7, <2>1 DEF P
<1>10. RetryDelay(first, top, n) = IF A[n] > top THEN top ELSE A[n]
  BY Zenon DEF RetryDelay, A
<1>11. RetryDelay(first, top, n) = V(n)
  BY <1>0, <1>8, <1>9, <1>10
<1> QED
  BY Zenon, <1>11 DEF V

\* The bound that parseRetryAfter checks before it multiplies is the largest
\* number of seconds that fits.
LEMMA SecondsFit ==
  ASSUME NEW v \in Nat
  PROVE  /\ v <= MaxDuration \div Second => v * Second \in 0..MaxDuration
         /\ v > MaxDuration \div Second => v * Second > MaxDuration
<1> DEFINE M == MaxDuration
           D == M \div Second
<1>1. M \in Nat /\ Second \in Nat /\ Second >= 1
  BY Zenon, WidthFacts
<1> HIDE DEF M
<1>2. D \in Nat /\ D * Second <= M /\ M < (D + 1) * Second
  BY <1>1
<1> HIDE DEF D
<1>3. ASSUME v <= D PROVE v * Second \in 0..M
  BY <1>1, <1>2, <1>3
<1>4. ASSUME v > D PROVE v * Second > M
  BY <1>1, <1>2, <1>4
<1> QED
  BY Zenon, <1>3, <1>4 DEF D, M

\* The wait a header asks for, in units of a duration and without width.
Asked(h) == CASE h.kind = "none" -> 0
             [] h.kind = "seconds" -> h.value * Second
             [] h.kind = "date" -> h.value

\* parseRetryAfter returns what the header asks for, or at least max_delay when
\* it asks for more than that.
LEMMA ParsedHeader ==
  ASSUME NEW h \in Header, NEW top \in 1..MaxDuration, NEW r, r = ParseRetryAfter(h),
         NEW a, a = Asked(h)
  PROVE  /\ a \in Int /\ r \in Int
         /\ a <= 0 => r = 0
         /\ a > 0 /\ a <= top => r = a
         /\ a > top => r > top \/ r = top
<1>0. MaxDuration \in Nat /\ Second \in Nat /\ Second >= 1
  BY Zenon, WidthFacts
<1>1. CASE h = NoHeader
  BY <1>0, <1>1 DEF NoHeader, ParseRetryAfter, Asked
<1>2. CASE h.kind = "date" /\ h.value \in Int /\ h.value <= MaxDuration
  BY <1>0, <1>2 DEF ParseRetryAfter, Asked
<1>3. CASE h.kind = "seconds" /\ h.value \in Int
  <2> DEFINE v == h.value
  <2>1. /\ a = v * Second
        /\ r = IF v <= 0 THEN 0
               ELSE IF v > MaxDuration \div Second THEN MaxDuration
               ELSE Wrap(v * Second)
    BY Zenon, <1>3 DEF ParseRetryAfter, Asked
  <2> HIDE DEF v
  <2>2. v \in Int
    BY Zenon, <1>3 DEF v
  <2>3. CASE v <= 0
    <3>1. v * Second <= 0 /\ v * Second \in Int
      BY <1>0, <2>2, <2>3
    <3> QED
      BY <2>1, <2>3, <3>1
  <2>4. CASE v > 0 /\ v > MaxDuration \div Second
    <3>1. v \in Nat /\ ~(v <= 0)
      BY <2>2, <2>4
    <3>2. v * Second > MaxDuration /\ v * Second \in Int
      BY <1>0, <2>4, <3>1, SecondsFit
    <3>3. r = MaxDuration
      BY Zenon, <2>1, <2>4, <3>1
    <3> QED
      BY <1>0, <2>1, <3>2, <3>3
  <2>5. CASE v > 0 /\ v <= MaxDuration \div Second
    <3>0. MaxDuration \div Second \in Nat
      BY <1>0
    <3>1. v \in Nat /\ ~(v <= 0) /\ ~(v > MaxDuration \div Second)
      BY <2>2, <2>5, <3>0
    <3>2. v * Second \in 0..MaxDuration
      BY Zenon, <2>5, <3>1, SecondsFit
    <3>3. r = v * Second
      BY Zenon, <2>1, <3>1, <3>2, WidthFacts
    <3> HIDE DEF v
    <3> QED
      BY <1>0, <2>1, <3>2, <3>3
  <2> QED
    <3>1. MaxDuration \div Second \in Nat
      BY <1>0
    <3> QED
      BY <2>2, <2>3, <2>4, <2>5, <3>1
<1> QED
  <2>1. \/ h = NoHeader
        \/ h.kind \in {"seconds", "date"} /\ h.value \in Int /\ h.value <= MaxDuration
    BY <1>0 DEF Header
  <2> QED
    BY Zenon, <1>1, <1>2, <1>3, <2>1

\* The delay that ProcessOne stores for a failure.
LEMMA FailKeepsInv ==
  ASSUME DelayInv, NEW h \in Headers, Fail(h)
  PROVE  DelayInv'
<1> DEFINE x == initial * Pow2[attempts]
           e == IF x > max THEN max ELSE x
           r == ParseRetryAfter(h)
           a == Asked(h)
<1>1. /\ initial \in 1..MaxDuration /\ max \in 1..MaxDuration /\ initial <= max
      /\ attempts \in Nat /\ h \in Header
      /\ initial' = initial /\ max' = max /\ attempts' = attempts + 1 /\ header' = h
  BY Zenon, DelayAssumption DEF DelayInv, Fail
<1>2. RetryDelay(initial, max, attempts) = e
  BY Zenon, <1>1, RetryDelayValue
<1>3. wait' = IF r > e THEN IF r > max THEN max ELSE r ELSE e
  BY Zenon, <1>2 DEF Fail, NextDelay
<1>4. max \in Nat /\ x \in Nat
  <2>1. Pow2[attempts] \in Nat
    BY Zenon, <1>1, Pow2Rec
  <2> QED
    BY <1>1, <2>1, WidthFacts
<1>5. Requested' = a /\ (attempts' - 1) = attempts
  BY <1>1 DEF Requested, Asked
<1> HIDE DEF x, r, a
<1>6. /\ a \in Int /\ r \in Int
      /\ a <= 0 => r = 0
      /\ a > 0 /\ a <= max => r = a
      /\ a > max => r > max \/ r = max
  BY Zenon, <1>1, ParsedHeader DEF r, a
<1>7. wait' = IF (IF a > max THEN max ELSE a) > e THEN IF a > max THEN max ELSE a ELSE e
  BY <1>3, <1>4, <1>6
<1>8. DelayIsCappedMaximum'
  BY Zenon, <1>1, <1>5, <1>7 DEF DelayIsCappedMaximum, Capped, x
<1> QED
  BY <1>1, <1>8 DEF DelayInv

\* Every stored delay is the larger of the exponential delay and of what
\* Retry-After asks for, both capped at max_delay, at any width of a duration and
\* for any number of failures (retryDelay, parseRetryAfter, ProcessOne).
THEOREM DelaysAreCapped == BackoffSpec => []DelayIsCappedMaximum
<1>1. BackoffInit => DelayInv
  BY DEF BackoffInit, DelayInv, DelayIsCappedMaximum
<1>2. DelayInv /\ [BackoffNext]_backoffVars => DelayInv'
  <2> SUFFICES ASSUME DelayInv, [BackoffNext]_backoffVars PROVE DelayInv'
    BY Zenon
  <2>1. CASE Restart
    BY <2>1 DEF Restart, DelayInv, DelayIsCappedMaximum
  <2>2. ASSUME NEW h \in Headers, Fail(h) PROVE DelayInv'
    BY Zenon, <2>2, FailKeepsInv
  <2>3. CASE UNCHANGED backoffVars
    BY Zenon, <2>3 DEF backoffVars, DelayInv, DelayIsCappedMaximum, Capped, Requested
  <2> QED
    BY Zenon, <2>1, <2>2, <2>3 DEF BackoffNext
<1>3. DelayInv => DelayIsCappedMaximum
  BY Zenon DEF DelayInv
<1> QED
  BY <1>1, <1>2, <1>3, PTL DEF BackoffSpec
-----------------------------------------------------------------------------
(* The state machine: the batch of a transaction.                          *)

\* n numbers in increasing order are n numbers.
LEMMA IncreasingCount ==
  ASSUME NEW n \in Nat, NEW f \in [1..n -> Nat], \A j, k \in 1..n : j < k => f[j] < f[k],
         NEW S, \A i : i \in S <=> \E k \in 1..n : f[k] = i
  PROVE  Cardinality(S) = n
<1>1. f \in [1..n -> S] /\ \A i \in S : \E k \in 1..n : f[k] = i
  BY Zenon
<1>2. \A j, k \in 1..n : f[j] = f[k] => j = k
  <2> SUFFICES ASSUME NEW j \in 1..n, NEW k \in 1..n, f[j] = f[k] PROVE j = k
    BY Zenon
  <2>1. f[j] \in Nat /\ f[k] \in Nat /\ ~(f[j] < f[k]) /\ ~(f[k] < f[j])
    OBVIOUS
  <2>2. ~(j < k) /\ ~(k < j)
    BY Zenon, <2>1
  <2> QED
    BY <2>2
<1>3. f \in Bijection(1..n, S)
  BY Zenon, <1>1, <1>2 DEF Bijection, Injection, Surjection, IsInjective
<1>4. ExistsBijection(1..n, S)
  BY Zenon, <1>3 DEF ExistsBijection
<1> QED
  BY Zenon, <1>4, FS_CountingElements

\* The buffer is the enumeration of its positions.
LEMMA BuffersEnumerates ==
  ASSUME NEW events \in Seq(BufferedEvent), NEW q, NEW T, Buffers(events, q, T)
  PROVE  events = InOrder(q, T)
<1> DEFINE n == Len(events)
           f == [k \in 1..n |-> events[k].at]
<1>1. n \in Nat /\ DOMAIN events = 1..n /\ \A k \in 1..n : events[k] \in BufferedEvent
  OBVIOUS
<1>2. /\ f \in [1..n -> Nat]
      /\ \A k \in 1..n : f[k] = events[k].at
  BY Zenon, <1>1 DEF BufferedEvent
<1> HIDE DEF n, f
<1>3. /\ \A k \in 1..n : f[k] \in T
      /\ \A k \in 1..n : events[k] = [id |-> q[f[k]].id, digest |-> q[f[k]].digest, at |-> f[k]]
      /\ \A i \in T : \E k \in 1..n : f[k] = i
      /\ \A j, k \in 1..n : j < k => f[j] < f[k]
  <2>1. ASSUME NEW k \in 1..n
        PROVE  f[k] \in T /\ events[k] = [id |-> q[f[k]].id, digest |-> q[f[k]].digest, at |-> f[k]]
    <3>1. k \in DOMAIN events /\ f[k] = events[k].at
      BY Zenon, <1>1, <1>2
    <3>2. /\ events[k].at \in T
          /\ events[k] = [id |-> q[events[k].at].id, digest |-> q[events[k].at].digest,
                          at |-> events[k].at]
      BY Zenon, <3>1 DEF Buffers
    <3> QED
      BY Zenon, <3>1, <3>2
  <2>2. \A i \in T : \E k \in 1..n : f[k] = i
    BY Zenon, <1>1, <1>2 DEF Buffers
  <2>3. ASSUME NEW j \in 1..n, NEW k \in 1..n, j < k PROVE f[j] < f[k]
    <3>1. j \in DOMAIN events /\ k \in DOMAIN events /\ f[j] = events[j].at /\ f[k] = events[k].at
      BY Zenon, <1>1, <1>2
    <3>2. events[j].at < events[k].at
      BY Zenon, <2>3, <3>1 DEF Buffers
    <3> QED
      BY Zenon, <3>1, <3>2
  <2> QED
    BY Zenon, <2>1, <2>2, <2>3
<1>4. Cardinality(T) = n
  <2>0. \A j, k \in 1..n : j < k => f[j] < f[k]
    BY Zenon, <1>3
  <2>1. \A i : i \in T <=> \E k \in 1..n : f[k] = i
    BY Zenon, <1>3
  <2> QED
    BY Zenon, <1>1, <1>2, <2>0, <2>1, IncreasingCount
<1>5. ASSUME NEW k \in 1..n PROVE Cardinality({h \in T : h <= f[k]}) = k
  <2> DEFINE g == [j \in 1..k |-> f[j]]
             S == {h \in T : h <= f[k]}
  <2>1. k \in Nat /\ 1..k \subseteq 1..n
    BY <1>1
  <2>2. g \in [1..k -> Nat] /\ \A j \in 1..k : g[j] = f[j]
    BY Zenon, <1>2, <2>1
  <2>3. \A j, m \in 1..k : j < m => g[j] < g[m]
    BY Zenon, <1>3, <2>1, <2>2
  <2>4. ASSUME NEW i PROVE i \in S <=> \E j \in 1..k : f[j] = i
    <3>1. ASSUME i \in S PROVE \E j \in 1..k : f[j] = i
      <4>1. PICK j \in 1..n : f[j] = i
        BY Zenon, <1>3, <3>1
      <4>2. f[j] \in Nat /\ f[k] \in Nat /\ f[j] <= f[k]
        BY Zenon, <1>2, <3>1, <4>1
      <4>3. ~(k < j)
        BY <1>3, <4>2
      <4> QED
        BY <1>1, <4>1, <4>3
    <3>2. ASSUME NEW j \in 1..k, f[j] = i PROVE i \in S
      <4>1. j \in 1..n /\ (j < k \/ j = k)
        BY <1>1
      <4>2. f[j] \in Nat /\ f[k] \in Nat /\ (f[j] < f[k] \/ f[j] = f[k])
        BY Zenon, <1>2, <1>3, <4>1
      <4>3. f[j] <= f[k]
        BY <4>2
      <4> QED
        BY Zenon, <1>3, <3>2, <4>1, <4>3
    <3> QED
      BY Zenon, <3>1, <3>2
  <2>5. \A i : i \in S <=> \E j \in 1..k : g[j] = i
    BY Zenon, <2>2, <2>4
  <2> HIDE DEF g, S
  <2>6. Cardinality(S) = k
    BY Zenon, <2>1, <2>2, <2>3, <2>5, IncreasingCount
  <2> QED
    BY Zenon, <2>6 DEF S
<1>6. ASSUME NEW k \in 1..n
      PROVE  (CHOOSE j \in T : Cardinality({h \in T : h <= j}) = k) = f[k]
  <2>1. f[k] \in T /\ Cardinality({h \in T : h <= f[k]}) = k
    BY Zenon, <1>3, <1>5
  <2>2. ASSUME NEW j \in T, Cardinality({h \in T : h <= j}) = k PROVE j = f[k]
    <3>1. PICK m \in 1..n : f[m] = j
      BY Zenon, <1>3
    <3>2. Cardinality({h \in T : h <= f[m]}) = m
      BY Zenon, <1>5
    <3> QED
      BY Zenon, <2>2, <3>1, <3>2
  <2> QED
    BY Zenon, <2>1, <2>2
<1>7. events = [k \in 1..n |-> [id |-> q[f[k]].id, digest |-> q[f[k]].digest, at |-> f[k]]]
  <2>1. events = [k \in 1..n |-> events[k]]
    BY <1>1
  <2> QED
    BY Zenon, <1>3, <2>1
<1> QED
  BY Zenon, <1>4, <1>6, <1>7 DEF InOrder

\* What lies before a position does not depend on what follows.
LEMMA TransactionPrefix ==
  ASSUME NEW q \in Seq(DecodedMessage), NEW m \in DecodedMessage, NEW n, n = Len(q)
  PROVE  /\ TransactionOf(Append(q, m), n + 1) = TransactionOf(q, n + 1)
         /\ m.type = "begin" => TransactionOf(Append(q, m), n + 2) = {}
         /\ m.type # "begin" /\ ~IsProtected(m) =>
              TransactionOf(Append(q, m), n + 2) = TransactionOf(q, n + 1)
         /\ m.type # "begin" /\ IsProtected(m) =>
              TransactionOf(Append(q, m), n + 2) = TransactionOf(q, n + 1) \cup {n + 1}
<1> DEFINE r == Append(q, m)
<1>1. /\ n \in Nat /\ DOMAIN q = 1..n /\ DOMAIN r = 1..n + 1
      /\ \A i \in 1..n : r[i] = q[i]
      /\ r[n + 1] = m
  OBVIOUS
<1> HIDE DEF r
<1>2. /\ Begins(q) = {i \in 1..n : q[i].type = "begin"}
      /\ Begins(r) = {i \in 1..n + 1 : r[i].type = "begin"}
  BY Zenon, <1>1 DEF Begins
<1>3. Begins(r) = Begins(q) \cup (IF m.type = "begin" THEN {n + 1} ELSE {})
  <2>1. ASSUME NEW i \in 1..n PROVE i \in Begins(r) <=> i \in Begins(q)
    <3>1. i \in 1..n + 1 /\ r[i] = q[i]
      BY <1>1
    <3> QED
      BY Zenon, <1>2, <3>1
  <2>2. n + 1 \in Begins(r) <=> m.type = "begin"
    <3>1. n + 1 \in 1..n + 1
      BY <1>1
    <3> QED
      BY Zenon, <1>1, <1>2, <3>1
  <2>3. \A i : i \in 1..n + 1 <=> i \in 1..n \/ i = n + 1
    BY <1>1
  <2>4. Begins(q) \subseteq 1..n /\ Begins(r) \subseteq 1..n + 1
    BY Zenon, <1>2
  <2> QED
    BY Zenon, <2>1, <2>2, <2>3, <2>4
<1>4. Begins(q) \subseteq 1..n
  BY Zenon, <1>2
<1>6. ASSUME NEW i
      PROVE  i \in TransactionOf(q, n + 1) <=>
               /\ i \in 1..n /\ IsProtected(q[i])
               /\ ~\E b \in Begins(q) : i < b
  <2>1. 1..(n + 1) - 1 = 1..n /\ \A b \in Begins(q) : b < n + 1
    BY <1>1, <1>4
  <2>2. i \in TransactionOf(q, n + 1) <=>
               /\ i \in 1..(n + 1) - 1 /\ IsProtected(q[i])
               /\ ~\E b \in Begins(q) : i < b /\ b < n + 1
    BY Zenon DEF TransactionOf
  <2>3. (\E b \in Begins(q) : i < b /\ b < n + 1) <=> \E b \in Begins(q) : i < b
    BY Zenon, <2>1
  <2>4. i \in 1..(n + 1) - 1 <=> i \in 1..n
    BY Zenon, <2>1
  <2> QED
    BY Zenon, <2>2, <2>3, <2>4
<1>7. TransactionOf(r, n + 1) = TransactionOf(q, n + 1)
  <2> SUFFICES ASSUME NEW i PROVE i \in TransactionOf(r, n + 1) <=> i \in TransactionOf(q, n + 1)
    BY Zenon
  <2>1. 1..(n + 1) - 1 = 1..n /\ ~(n + 1 < n + 1) /\ \A b \in Begins(q) : b < n + 1
    BY <1>1, <1>4
  <2>2. (\E b \in Begins(r) : i < b /\ b < n + 1) <=> (\E b \in Begins(q) : i < b)
    BY Zenon, <1>3, <2>1
  <2>3. i \in TransactionOf(r, n + 1) <=>
               /\ i \in 1..n /\ IsProtected(r[i])
               /\ ~\E b \in Begins(r) : i < b /\ b < n + 1
    <3>1. i \in TransactionOf(r, n + 1) <=>
               /\ i \in 1..(n + 1) - 1 /\ IsProtected(r[i])
               /\ ~\E b \in Begins(r) : i < b /\ b < n + 1
      BY Zenon DEF TransactionOf
    <3>2. i \in 1..(n + 1) - 1 <=> i \in 1..n
      BY Zenon, <2>1
    <3> QED
      BY Zenon, <3>1, <3>2
  <2> QED
    BY Zenon, <1>1, <1>6, <2>2, <2>3
<1>8. \A i : i \in TransactionOf(r, n + 2) <=>
               /\ i \in 1..n + 1 /\ IsProtected(r[i])
               /\ ~\E b \in Begins(r) : i < b
  <2>1. 1..(n + 2) - 1 = 1..n + 1 /\ \A b \in Begins(r) : b < n + 2
    BY <1>1, <1>3, <1>4
  <2> SUFFICES ASSUME NEW i
               PROVE  i \in TransactionOf(r, n + 2) <=>
                        /\ i \in 1..n + 1 /\ IsProtected(r[i])
                        /\ ~\E b \in Begins(r) : i < b
    BY Zenon
  <2>2. i \in TransactionOf(r, n + 2) <=>
               /\ i \in 1..(n + 2) - 1 /\ IsProtected(r[i])
               /\ ~\E b \in Begins(r) : i < b /\ b < n + 2
    BY Zenon DEF TransactionOf
  <2>3. (\E b \in Begins(r) : i < b /\ b < n + 2) <=> \E b \in Begins(r) : i < b
    BY Zenon, <2>1
  <2>4. i \in 1..(n + 2) - 1 <=> i \in 1..n + 1
    BY Zenon, <2>1
  <2> QED
    BY Zenon, <2>2, <2>3, <2>4
<1>9. ASSUME m.type = "begin" PROVE TransactionOf(r, n + 2) = {}
  <2>1. n + 1 \in Begins(r) /\ ~IsProtected(r[n + 1])
    <3>1. "begin" # "message"
      BY Zenon
    <3> QED
      BY Zenon, <1>1, <1>3, <1>9, <3>1 DEF IsProtected
  <2>2. \A i \in 1..n + 1 : i = n + 1 \/ i < n + 1
    BY <1>1
  <2> QED
    BY Zenon, <1>8, <2>1, <2>2
<1>10. ASSUME m.type # "begin"
       PROVE  /\ ~IsProtected(m) => TransactionOf(r, n + 2) = TransactionOf(q, n + 1)
              /\ IsProtected(m) =>
                   TransactionOf(r, n + 2) = TransactionOf(q, n + 1) \cup {n + 1}
  <2>1. Begins(r) = Begins(q)
    BY Zenon, <1>3, <1>10
  <2>2. \A i : i \in 1..n + 1 <=> i \in 1..n \/ i = n + 1
    BY <1>1
  <2>3. n + 1 \notin 1..n /\ \A b \in Begins(q) : ~(n + 1 < b)
    BY <1>1, <1>4
  <2>4. ASSUME NEW i \in 1..n
        PROVE  i \in TransactionOf(r, n + 2) <=> i \in TransactionOf(q, n + 1)
    BY Zenon, <1>1, <1>6, <1>8, <2>1, <2>2
  <2>5. n + 1 \in TransactionOf(r, n + 2) <=> IsProtected(m)
    BY Zenon, <1>1, <1>8, <2>1, <2>2, <2>3
  <2>6. TransactionOf(q, n + 1) \subseteq 1..n /\ TransactionOf(r, n + 2) \subseteq 1..n + 1
    BY Zenon, <1>6, <1>8
  <2>7. CASE IsProtected(m)
    BY Zenon, <2>2, <2>4, <2>5, <2>6, <2>7
  <2>8. CASE ~IsProtected(m)
    BY Zenon, <2>2, <2>4, <2>5, <2>6, <2>8
  <2> QED
    BY Zenon, <2>7, <2>8
<1> QED
  BY Zenon, <1>7, <1>9, <1>10 DEF r

\* A message added to the buffer.
LEMMA BufferGrows ==
  ASSUME NEW q \in Seq(DecodedMessage), NEW m \in DecodedMessage, IsProtected(m),
         NEW n, n = Len(q), m.at = n + 1,
         NEW events \in Seq(BufferedEvent), NEW T, T \subseteq 1..n, Buffers(events, q, T)
  PROVE  Buffers(Append(events, [id |-> m.id, digest |-> m.digest, at |-> m.at]),
                 Append(q, m), T \cup {n + 1})
<1> DEFINE c == Len(events)
           r == Append(q, m)
           e == [id |-> m.id, digest |-> m.digest, at |-> m.at]
           more == Append(events, e)
<1>1. /\ n \in Nat /\ \A i \in 1..n : r[i] = q[i]
      /\ r[n + 1] = m
  OBVIOUS
<1>2. /\ c \in Nat /\ DOMAIN events = 1..c /\ DOMAIN more = 1..c + 1
      /\ \A k \in 1..c : more[k] = events[k]
      /\ more[c + 1] = e
  OBVIOUS
<1>3. e.at = n + 1 /\ e = [id |-> r[n + 1].id, digest |-> r[n + 1].digest, at |-> n + 1]
  BY Zenon, <1>1
<1> HIDE DEF c, r, e, more
<1>4. \A k : k \in 1..c + 1 <=> k \in 1..c \/ k = c + 1
  BY <1>2
<1>5. ASSUME NEW k \in DOMAIN more
      PROVE  /\ more[k].at \in T \cup {n + 1}
             /\ more[k] = [id |-> r[more[k].at].id, digest |-> r[more[k].at].digest,
                           at |-> more[k].at]
  <2>1. CASE k \in 1..c
    <3> DEFINE i == events[k].at
    <3>1. i \in T /\ events[k] = [id |-> q[i].id, digest |-> q[i].digest, at |-> i]
      BY Zenon, <1>2, <2>1 DEF Buffers
    <3> HIDE DEF i
    <3>2. r[i] = q[i]
      BY Zenon, <1>1, <3>1
    <3>3. more[k] = [id |-> r[i].id, digest |-> r[i].digest, at |-> i]
      BY Zenon, <1>2, <2>1, <3>1, <3>2
    <3>4. more[k].at = i
      BY <3>3
    <3> QED
      BY Zenon, <3>1, <3>3, <3>4
  <2>2. CASE k = c + 1
    BY Zenon, <1>2, <1>3, <2>2
  <2> QED
    BY Zenon, <1>2, <1>4, <2>1, <2>2
<1>6. ASSUME NEW i \in T \cup {n + 1} PROVE \E k \in DOMAIN more : more[k].at = i
  <2>1. CASE i \in T
    <3>1. PICK k \in 1..c : events[k].at = i
      BY Zenon, <1>2, <2>1 DEF Buffers
    <3> QED
      BY Zenon, <1>2, <1>4, <3>1
  <2>2. CASE i = n + 1
    BY Zenon, <1>2, <1>3, <1>4, <2>2
  <2> QED
    BY Zenon, <2>1, <2>2
<1>7. ASSUME NEW j \in DOMAIN more, NEW k \in DOMAIN more, j < k PROVE more[j].at < more[k].at
  <2>1. j \in 1..c /\ (k \in 1..c \/ k = c + 1)
    BY <1>2, <1>7
  <2>2. CASE k \in 1..c
    <3>1. events[j].at < events[k].at
      BY Zenon, <1>2, <1>7, <2>1, <2>2 DEF Buffers
    <3> QED
      BY Zenon, <1>2, <2>1, <2>2, <3>1
  <2>3. CASE k = c + 1
    <3>1. events[j].at \in 1..n
      BY Zenon, <1>2, <2>1 DEF Buffers
    <3>2. events[j].at < n + 1
      BY <1>1, <3>1
    <3> QED
      BY Zenon, <1>2, <1>3, <2>1, <2>3, <3>2
  <2> QED
    BY Zenon, <2>1, <2>2, <2>3
<1> QED
  <2>1. Buffers(more, r, T \cup {n + 1})
    BY Zenon, <1>5, <1>6, <1>7 DEF Buffers
  <2> QED
    BY Zenon, <2>1 DEF more, r, e

\* A buffer stays one of a longer stream.
LEMMA BufferFrame ==
  ASSUME NEW q, NEW r, NEW n, \A i \in 1..n : r[i] = q[i], NEW T, T \subseteq 1..n,
         NEW events, Buffers(events, q, T)
  PROVE  Buffers(events, r, T)
<1>1. \A i \in T : r[i] = q[i]
  BY Zenon
<1> QED
  BY Zenon, <1>1 DEF Buffers

\* A message keeps its fields when the machine numbers it.
LEMMA NumberedMessage ==
  ASSUME NEW message \in StreamMessages, NEW p \in Nat, NEW m,
         message.type = "message" => m = [message EXCEPT !.at = p],
         message.type # "message" => m = message
  PROVE  /\ m \in DecodedMessage
         /\ m.type \in {"begin", "commit", "message"}
         /\ m.type = "message" =>
              m.id \in Identities /\ m.digest \in Digests /\ m.protected \in BOOLEAN /\ m.at = p
<1>1. message \in DecodedMessage
  BY Zenon, StreamAssumption
<1>2. CASE message \in [type : {"begin", "commit"}]
  BY Zenon, <1>2 DEF DecodedMessage
<1>3. CASE message \in [type : {"message"}, transactional : BOOLEAN, protected : BOOLEAN,
                        valid : BOOLEAN, id : Identities, digest : Digests, at : Nat]
  <2>1. m = [message EXCEPT !.at = p]
    BY Zenon, <1>3
  <2>2. m \in [type : {"message"}, transactional : BOOLEAN, protected : BOOLEAN,
               valid : BOOLEAN, id : Identities, digest : Digests, at : Nat]
    BY Zenon, <1>3, <2>1
  <2>3. m.at = p
    BY Zenon, <1>3, <2>1
  <2> QED
    BY Zenon, <2>2, <2>3 DEF DecodedMessage
<1> QED
  BY Zenon, <1>1, <1>2, <1>3 DEF DecodedMessage

\* What the machine is after a message it accepts, and after one it refuses.
LEMMA ConsumeCases ==
  ASSUME NEW s \in MachineState, NEW m, m.type \in {"begin", "commit", "message"},
         m.type = "message" =>
           m.id \in Identities /\ m.digest \in Digests /\ m.protected \in BOOLEAN /\ m.at \in Nat,
         ConsumeError(s, m) = "none"
  PROVE  /\ Consume(s, m) \in MachineState
         /\ m.type = "begin" => Consume(s, m).events = << >>
         /\ m.type = "commit" => s.inTx /\ ~Consume(s, m).inTx
         /\ m.type = "message" =>
              /\ Consume(s, m).inTx = s.inTx
              /\ m.protected =>
                   Consume(s, m).events =
                     Append(s.events, [id |-> m.id, digest |-> m.digest, at |-> m.at])
              /\ ~m.protected => Consume(s, m).events = s.events
<1>1. CASE m.type = "begin"
  <2>1. Consume(s, m) = [NewStateMachine EXCEPT !.inTx = TRUE]
    BY Zenon, <1>1 DEF Consume
  <2>2. Consume(s, m) = [inTx |-> TRUE, events |-> << >>, buffered |-> 0]
    BY Zenon, <2>1 DEF NewStateMachine
  <2> QED
    BY <1>1, <2>2 DEF MachineState
<1>2. CASE m.type = "commit"
  <2>1. Consume(s, m) = NewStateMachine
    BY Zenon, <1>2 DEF Consume
  <2>2. s.inTx
    BY Zenon, <1>2 DEF ConsumeError
  <2> QED
    BY <1>2, <2>1, <2>2 DEF MachineState, NewStateMachine
<1>3. CASE m.type = "message"
  <2> DEFINE e == [id |-> m.id, digest |-> m.digest, at |-> m.at]
  <2>1. e \in BufferedEvent /\ PayloadSize[m.digest] \in Nat
    BY Zenon, <1>3, PayloadSizeAssumption DEF BufferedEvent
  <2>2. CASE m.protected
    <3>1. Consume(s, m) = [s EXCEPT !.events = Append(@, e),
                                    !.buffered = @ + PayloadSize[m.digest]]
      BY Zenon, <1>3, <2>2 DEF Consume
    <3> HIDE DEF e
    <3>2. Append(s.events, e) \in Seq(BufferedEvent) /\ s.buffered + PayloadSize[m.digest] \in Nat
      BY <2>1 DEF MachineState
    <3>3. /\ Consume(s, m) \in MachineState
          /\ Consume(s, m).events = Append(s.events, e) /\ Consume(s, m).inTx = s.inTx
      BY Zenon, <3>1, <3>2 DEF MachineState
    <3> QED
      BY Zenon, <1>3, <2>2, <3>3 DEF e
  <2>3. CASE ~m.protected
    <3>1. Consume(s, m) = s
      BY Zenon, <1>3, <2>3 DEF Consume
    <3> QED
      BY Zenon, <1>3, <2>3, <3>1
  <2> QED
    BY Zenon, <2>2, <2>3
<1> QED
  BY Zenon, <1>1, <1>2, <1>3

\* runOnce hands the machine a message.
LEMMA ConsumeKeepsInv ==
  ASSUME MachineInv, NEW message \in StreamMessages, ConsumeNext(message)
  PROVE  MachineInv'
<1> DEFINE n == Len(sent)
           m == IF message.type = "message" THEN [message EXCEPT !.at = n + 1] ELSE message
           T == TransactionOf(sent, n + 1)
<1>0. /\ n = Len(sent)
      /\ message.type = "message" => m = [message EXCEPT !.at = n + 1]
      /\ message.type # "message" => m = message
  BY Zenon
<1>1. sent \in Seq(DecodedMessage) /\ state \in MachineState /\ n \in Nat /\ n + 1 \in Nat
  BY DEF MachineInv
<1>2. /\ error = "none" /\ sent' = Append(sent, m) /\ error' = ConsumeError(state, m)
      /\ state' = IF error' = "none" THEN Consume(state, m) ELSE state
      /\ batch' = IF CompletesBatch(state, m) THEN state.events ELSE batch
  BY Zenon DEF ConsumeNext
<1> HIDE DEF n, m
<1>3. /\ m \in DecodedMessage /\ m.type \in {"begin", "commit", "message"}
      /\ m.type = "message" =>
           m.id \in Identities /\ m.digest \in Digests /\ m.protected \in BOOLEAN /\ m.at = n + 1
  BY <1>0, <1>1, NumberedMessage
<1>4. /\ sent' \in Seq(DecodedMessage) /\ sent' # << >> /\ Len(sent') = n + 1
      /\ sent'[Len(sent')] = m /\ Len(sent') + 1 = n + 2
      /\ \A i \in 1..n : sent'[i] = sent[i]
  BY <1>0, <1>1, <1>2, <1>3
<1>5. T \subseteq 1..n
  <2>1. 1..(n + 1) - 1 = 1..n
    BY <1>1
  <2>2. T \subseteq 1..(n + 1) - 1
    BY Zenon DEF TransactionOf
  <2> QED
    BY Zenon, <2>1, <2>2
<1>6. /\ TransactionOf(sent', n + 1) = T
      /\ m.type = "begin" => TransactionOf(sent', n + 2) = {}
      /\ m.type # "begin" /\ ~IsProtected(m) => TransactionOf(sent', n + 2) = T
      /\ m.type # "begin" /\ IsProtected(m) => TransactionOf(sent', n + 2) = T \cup {n + 1}
  <2> DEFINE r == Append(sent, m)
  <2>1. /\ TransactionOf(r, n + 1) = T
        /\ m.type = "begin" => TransactionOf(r, n + 2) = {}
        /\ m.type # "begin" /\ ~IsProtected(m) => TransactionOf(r, n + 2) = T
        /\ m.type # "begin" /\ IsProtected(m) => TransactionOf(r, n + 2) = T \cup {n + 1}
    BY Zenon, <1>0, <1>1, <1>3, TransactionPrefix
  <2> HIDE DEF r
  <2>2. sent' = r
    BY Zenon, <1>2 DEF r
  <2> QED
    BY Zenon, <2>1, <2>2
<1>7. error = "none" /\ state.inTx => Buffers(state.events, sent, T)
  BY Zenon, <1>0 DEF MachineInv
<1>8. state.events \in Seq(BufferedEvent)
  BY Zenon, <1>1 DEF MachineState
<1> HIDE DEF T
<1>9. CASE error' # "none"
  <2>1. ~(error' = "none") /\ state' = state
    BY Zenon, <1>2, <1>9
  <2> QED
    BY Zenon, <1>1, <1>4, <2>1 DEF MachineInv, BatchIsTransaction
<1>10. CASE error' = "none"
  <2> DEFINE s == Consume(state, m)
  <2>1. state' = s /\ ConsumeError(state, m) = "none"
    BY Zenon, <1>2, <1>10
  <2>2. /\ s \in MachineState
        /\ m.type = "begin" => s.events = << >>
        /\ m.type = "commit" => state.inTx /\ ~s.inTx
        /\ m.type = "message" =>
             /\ s.inTx = state.inTx
             /\ m.protected =>
                  s.events = Append(state.events, [id |-> m.id, digest |-> m.digest, at |-> m.at])
             /\ ~m.protected => s.events = state.events
    <3>1. m.type = "message" =>
            m.id \in Identities /\ m.digest \in Digests /\ m.protected \in BOOLEAN /\ m.at \in Nat
      BY Zenon, <1>1, <1>3
    <3> QED
      BY <1>1, <1>3, <2>1, <3>1, ConsumeCases
  <2> HIDE DEF s
  <2>3. ASSUME s.inTx PROVE Buffers(s.events, sent', TransactionOf(sent', n + 2))
    <3>1. CASE m.type = "begin"
      <4>1. DOMAIN s.events = {}
        BY <2>2, <3>1
      <4> QED
        BY Zenon, <1>6, <3>1, <4>1 DEF Buffers
    <3>2. CASE m.type = "message" /\ m.protected
      <4>1. IsProtected(m) /\ m.type # "begin"
        BY Zenon, <3>2 DEF IsProtected
      <4>2. TransactionOf(sent', n + 2) = T \cup {n + 1}
        BY Zenon, <1>6, <4>1
      <4>3. Buffers(state.events, sent, T)
        BY Zenon, <1>2, <1>7, <2>2, <2>3, <3>2
      <4>4. s.events = Append(state.events, [id |-> m.id, digest |-> m.digest, at |-> m.at])
        BY Zenon, <2>2, <3>2
      <4>5. m.at = n + 1
        BY Zenon, <1>3, <3>2
      <4>6. Buffers(s.events, sent', T \cup {n + 1})
        <5>1. Buffers(Append(state.events, [id |-> m.id, digest |-> m.digest, at |-> m.at]),
                      Append(sent, m), T \cup {n + 1})
          BY Zenon, <1>0, <1>1, <1>3, <1>5, <1>8, <4>1, <4>3, <4>5, BufferGrows
        <5> QED
          BY Zenon, <1>2, <4>4, <5>1
      <4> QED
        BY Zenon, <4>2, <4>6
    <3>3. CASE m.type = "message" /\ ~m.protected
      <4>1. ~IsProtected(m) /\ m.type # "begin"
        BY Zenon, <3>3 DEF IsProtected
      <4>2. TransactionOf(sent', n + 2) = T
        BY Zenon, <1>6, <4>1
      <4>3. Buffers(state.events, sent, T)
        BY Zenon, <1>2, <1>7, <2>2, <2>3, <3>3
      <4>4. Buffers(state.events, sent', T)
        BY Zenon, <1>4, <1>5, <4>3, BufferFrame
      <4> QED
        BY Zenon, <2>2, <3>3, <4>2, <4>4
    <3> QED
      BY Zenon, <1>3, <2>2, <2>3, <3>1, <3>2, <3>3
  <2>4. ASSUME sent'[Len(sent')].type = "commit"
        PROVE  batch' = state.events /\ Buffers(batch', sent', TransactionOf(sent', Len(sent')))
    <3>1. m.type = "commit" /\ state.inTx
      BY Zenon, <1>4, <2>2, <2>4
    <3>2. batch' = state.events
      BY Zenon, <1>2, <3>1 DEF CompletesBatch
    <3>3. Buffers(state.events, sent', T)
      BY Zenon, <1>2, <1>4, <1>5, <1>7, <3>1, BufferFrame
    <3> QED
      BY Zenon, <1>4, <1>6, <3>2, <3>3
  <2>5. BatchIsTransaction'
    <3> SUFFICES ASSUME sent'[Len(sent')].type = "commit" PROVE BatchIsTransaction'
      BY Zenon DEF BatchIsTransaction
    <3> DEFINE U == TransactionOf(sent', Len(sent'))
    <3>1. batch' \in Seq(BufferedEvent) /\ Buffers(batch', sent', U)
      BY Zenon, <1>8, <2>4
    <3> HIDE DEF U
    <3>2. batch' = InOrder(sent', U)
      BY Zenon, <3>1, BuffersEnumerates
    <3> QED
      BY Zenon, <3>2 DEF BatchIsTransaction, U
  <2> QED
    BY Zenon, <1>4, <2>1, <2>2, <2>3, <2>5 DEF MachineInv
<1> QED
  BY Zenon, <1>9, <1>10

\* A new machine has buffered nothing (NewStateMachine).
LEMMA NewMachineInv ==
  ASSUME state = NewStateMachine, sent = << >>
  PROVE  MachineInv
<1>1. ~state.inTx /\ state \in MachineState /\ sent \in Seq(DecodedMessage)
  BY DEF NewStateMachine, MachineState
<1> QED
  BY Zenon, <1>1 DEF MachineInv, BatchIsTransaction

\* The invariant of the state machine, on any stream of messages.
THEOREM MachineInvariance == StreamSpec => []MachineInv
<1>1. StreamInit => MachineInv
  BY Zenon, NewMachineInv DEF StreamInit
<1>2. MachineInv /\ [StreamNext]_streamVars => MachineInv'
  <2> SUFFICES ASSUME MachineInv, [StreamNext]_streamVars PROVE MachineInv'
    BY Zenon
  <2>1. CASE NewConnection
    <3>1. state' = NewStateMachine /\ sent' = << >>
      BY Zenon, <2>1 DEF NewConnection
    <3>2. ~state'.inTx /\ state' \in MachineState /\ sent' \in Seq(DecodedMessage)
      BY <3>1 DEF NewStateMachine, MachineState
    <3> QED
      BY Zenon, <3>1, <3>2 DEF MachineInv, BatchIsTransaction
  <2>2. ASSUME NEW m \in StreamMessages, ConsumeNext(m) PROVE MachineInv'
    BY Zenon, <2>2, ConsumeKeepsInv
  <2>3. CASE UNCHANGED streamVars
    BY Zenon, <2>3 DEF streamVars, MachineInv, BatchIsTransaction
  <2> QED
    BY Zenon, <2>1, <2>2, <2>3 DEF StreamNext
<1> QED
  BY <1>1, <1>2, PTL DEF StreamSpec

\* The batch that a Commit returns holds exactly the protected messages since
\* the transaction's Begin, in their order, whatever has come before on the
\* connection (Consume, consumeLogicalMessage, reset).
THEOREM BatchesAreTransactions == StreamSpec => []BatchIsTransaction
<1>1. MachineInv => BatchIsTransaction
  BY Zenon DEF MachineInv
<1> QED
  BY <1>1, MachineInvariance, PTL
-----------------------------------------------------------------------------
(* The bytes of a set of messages.                                         *)

\* The measure of the subsets of S that gives each x of S the weight w[x].
Measure(g, w, S) ==
  /\ g \in [SUBSET S -> Nat] /\ g[{}] = 0
  /\ \A s \in SUBSET S : \A x \in s : g[s] = w[x] + g[s \ {x}]

\* A measure of a set with one element less gives one of the set.
LEMMA MeasureExtends ==
  ASSUME NEW S, NEW w \in [S -> Nat], NEW x \in S, NEW f, Measure(f, w, S \ {x})
  PROVE  \E g : Measure(g, w, S)
<1> DEFINE g == [s \in SUBSET S |-> IF x \in s THEN w[x] + f[s \ {x}] ELSE f[s]]
<1>1. ASSUME NEW s \in SUBSET S
      PROVE  /\ s \ {x} \in SUBSET (S \ {x}) /\ (x \notin s => s \ {x} = s)
             /\ f[s \ {x}] \in Nat /\ w[x] \in Nat
  <2>1. s \ {x} \in SUBSET (S \ {x}) /\ (x \notin s => s \ {x} = s)
    BY Zenon
  <2> HIDE DEF g
  <2>2. f[s \ {x}] \in Nat /\ w[x] \in Nat
    BY Zenon, <2>1 DEF Measure
  <2> QED
    BY Zenon, <2>1, <2>2
<1>2. /\ g \in [SUBSET S -> Nat]
      /\ \A s \in SUBSET S : x \in s => g[s] = w[x] + f[s \ {x}]
      /\ \A s \in SUBSET S : x \notin s => g[s] = f[s]
  <2>1. ASSUME NEW s \in SUBSET S
        PROVE  (IF x \in s THEN w[x] + f[s \ {x}] ELSE f[s]) \in Nat
    <3>1. w[x] + f[s \ {x}] \in Nat
      BY <1>1
    <3>2. x \notin s => f[s] \in Nat
      BY Zenon, <1>1
    <3> QED
      BY Zenon, <3>1, <3>2
  <2> QED
    BY Zenon, <2>1
<1> HIDE DEF g
<1>3. g[{}] = 0
  BY Zenon, <1>2 DEF Measure
<1>4. ASSUME NEW s \in SUBSET S, NEW y \in s PROVE g[s] = w[y] + g[s \ {y}]
  <2>0. s \ {y} \in SUBSET S
    BY Zenon
  <2>1. CASE y = x
    <3>1. g[s] = w[x] + f[s \ {x}] /\ g[s \ {x}] = f[s \ {x}]
      BY Zenon, <1>2, <2>0, <2>1
    <3> QED
      BY Zenon, <2>1, <3>1
  <2>2. CASE y # x /\ x \notin s
    <3>1. s \in SUBSET (S \ {x})
      BY Zenon, <2>2
    <3>2. f[s] = w[y] + f[s \ {y}]
      BY Zenon, <3>1 DEF Measure
    <3>3. g[s] = f[s] /\ g[s \ {y}] = f[s \ {y}]
      BY Zenon, <1>2, <2>0, <2>2
    <3> QED
      BY Zenon, <3>2, <3>3
  <2>3. CASE y # x /\ x \in s
    <3> DEFINE t == s \ {x}
               u == t \ {y}
    <3>1. t \in SUBSET (S \ {x}) /\ y \in t /\ u \in SUBSET (S \ {x}) /\ (s \ {y}) \ {x} = u
          /\ x \in s \ {y}
      BY Zenon, <2>3
    <3>2. g[s] = w[x] + f[t] /\ g[s \ {y}] = w[x] + f[(s \ {y}) \ {x}]
      BY Zenon, <1>2, <2>0, <2>3, <3>1
    <3>3. f[t] = w[y] + f[u]
      BY Zenon, <3>1 DEF Measure
    <3>4. g[s \ {y}] = w[x] + f[u]
      BY Zenon, <3>1, <3>2
    <3> HIDE DEF t, u
    <3>5. f[u] \in Nat /\ w[x] \in Nat /\ w[y] \in Nat
      BY Zenon, <3>1 DEF Measure
    <3>6. \A a, b, c \in Nat : a + (b + c) = b + (a + c)
      OBVIOUS
    <3>7. w[x] + (w[y] + f[u]) = w[y] + (w[x] + f[u])
      BY Zenon, <3>5, <3>6
    <3>8. g[s] = w[x] + (w[y] + f[u])
      BY Zenon, <3>2, <3>3
    <3> QED
      BY Zenon, <3>4, <3>7, <3>8
  <2> QED
    BY Zenon, <2>1, <2>2, <2>3
<1> QED
  BY Zenon, <1>2, <1>3, <1>4 DEF Measure

\* Weights on a finite set add up.
LEMMA MeasureExists ==
  ASSUME NEW S, IsFiniteSet(S), NEW w \in [S -> Nat]
  PROVE  \E g : Measure(g, w, S)
<1> DEFINE Measured(T) == \E g : Measure(g, w, T)
           P == {n \in Nat : \A T \in SUBSET S : Cardinality(T) = n => Measured(T)}
<1>0. \A T \in SUBSET S : IsFiniteSet(T) /\ Cardinality(T) \in Nat /\ Cardinality(S) \in Nat
  BY Zenon, FS_Subset, FS_CardinalityType
<1>1. 0 \in P
  <2> SUFFICES ASSUME NEW T \in SUBSET S, Cardinality(T) = 0 PROVE Measured(T)
    BY Zenon
  <2>1. T = {}
    BY Zenon, <1>0, FS_EmptySet
  <2> DEFINE g == [s \in SUBSET T |-> 0]
  <2>2. g \in [SUBSET T -> Nat] /\ g[{}] = 0
    BY Zenon
  <2> HIDE DEF g
  <2>3. Measure(g, w, T)
    BY Zenon, <2>1, <2>2 DEF Measure
  <2> QED
    BY Zenon, <2>3
<1>2. \A n \in Nat : n \in P => n + 1 \in P
  <2> SUFFICES ASSUME NEW n \in Nat, n \in P, NEW T \in SUBSET S, Cardinality(T) = n + 1
               PROVE  Measured(T)
    <3>1. \A n \in Nat : n + 1 \in Nat
      OBVIOUS
    <3> QED
      BY Zenon, <3>1
  <2>1. T # {}
    <3>1. n + 1 # 0
      OBVIOUS
    <3> QED
      BY Zenon, <1>0, <3>1, FS_EmptySet
  <2>2. PICK x \in T : TRUE
    BY Zenon, <2>1
  <2> DEFINE U == T \ {x}
  <2>3. U \in SUBSET S /\ Cardinality(U) = n
    <3>0. IsFiniteSet(T) /\ x \in T
      BY Zenon, <1>0, <2>2
    <3>1. Cardinality(U) = Cardinality(T) - 1
      BY Zenon, <3>0, FS_RemoveElement
    <3>2. (n + 1) - 1 = n
      OBVIOUS
    <3> QED
      BY Zenon, <3>1, <3>2
  <2>4. PICK f : Measure(f, w, U)
    BY Zenon, <2>3
  <2>5. PICK g : Measure(g, [y \in T |-> w[y]], T)
    <3> DEFINE v == [y \in T |-> w[y]]
    <3>1. v \in [T -> Nat] /\ \A y \in T : v[y] = w[y]
      BY Zenon, <2>2
    <3> HIDE DEF v
    <3>2. Measure(f, v, T \ {x})
      <4>1. \A s \in SUBSET U : \A y \in s : v[y] = w[y]
        BY Zenon, <3>1
      <4> HIDE DEF U, P
      <4>2. Measure(f, v, U)
        BY Zenon, <2>4, <4>1 DEF Measure
      <4> QED
        BY Zenon, <4>2 DEF U
    <3>3. \E g : Measure(g, v, T)
      BY Zenon, <2>2, <3>1, <3>2, MeasureExtends
    <3> QED
      BY Zenon, <3>3 DEF v
  <2>6. Measure(g, w, T)
    BY Zenon, <2>5 DEF Measure
  <2> QED
    BY Zenon, <2>6
<1> HIDE DEF P
<1>3. \A n \in Nat : n \in P
  BY Zenon, <1>1, <1>2, Induction
<1>4. S \in SUBSET S
  BY Zenon
<1> QED
  BY Zenon, <1>0, <1>3, <1>4 DEF P

\* The size of the payload at each position.
Weights(q, T) == [j \in T |-> PayloadSize[q[j].digest]]

\* The payload bytes of a finite set of positions are their measure.
LEMMA BytesIsMeasure ==
  ASSUME NEW q, NEW T, IsFiniteSet(T), NEW g, Measure(g, Weights(q, T), T)
  PROVE  Bytes(q, T) = g[T]
<1> DEFINE First(s) == CHOOSE x \in s : TRUE
           Eq(h) == h = [s \in SUBSET T |->
                           IF s = {} THEN 0
                           ELSE PayloadSize[q[First(s)].digest] + h[s \ {First(s)}]]
           A == CHOOSE h : Eq(h)
<1>1. \A s \in SUBSET T : s # {} =>
        /\ First(s) \in s
        /\ g[s] = PayloadSize[q[First(s)].digest] + g[s \ {First(s)}]
  <2> SUFFICES ASSUME NEW s \in SUBSET T, s # {}
               PROVE  /\ First(s) \in s
                      /\ g[s] = PayloadSize[q[First(s)].digest] + g[s \ {First(s)}]
    BY Zenon
  <2>1. First(s) \in s
    BY Zenon
  <2> HIDE DEF First
  <2>2. g[s] = Weights(q, T)[First(s)] + g[s \ {First(s)}]
    BY Zenon, <2>1 DEF Measure
  <2>3. Weights(q, T)[First(s)] = PayloadSize[q[First(s)].digest]
    BY Zenon, <2>1 DEF Weights
  <2> QED
    BY Zenon, <2>1, <2>2, <2>3
<1>2. Bytes(q, T) = A[T]
  BY Zenon DEF Bytes, MapThenSumSet, MapThenFoldSet
<1> HIDE DEF First
<1>3. Eq(g)
  <2>1. g = [s \in SUBSET T |-> g[s]] /\ g[{}] = 0
    BY Zenon DEF Measure
  <2> QED
    BY Zenon, <1>1, <2>1
<1>4. Eq(A)
  BY Zenon, <1>3
<1> HIDE DEF A
<1> DEFINE P == {n \in Nat : \A s \in SUBSET T : Cardinality(s) = n => A[s] = g[s]}
<1>0. \A s \in SUBSET T : IsFiniteSet(s) /\ Cardinality(s) \in Nat
  BY Zenon, FS_Subset, FS_CardinalityType
<1>5. 0 \in P
  <2> SUFFICES ASSUME NEW s \in SUBSET T, Cardinality(s) = 0 PROVE A[s] = g[s]
    BY Zenon
  <2>1. s = {}
    BY Zenon, <1>0, FS_EmptySet
  <2> QED
    BY Zenon, <1>4, <2>1 DEF Measure
<1>6. \A n \in Nat : n \in P => n + 1 \in P
  <2> SUFFICES ASSUME NEW n \in Nat, n \in P, NEW s \in SUBSET T, Cardinality(s) = n + 1
               PROVE  A[s] = g[s]
    <3>1. \A n \in Nat : n + 1 \in Nat
      OBVIOUS
    <3> QED
      BY Zenon, <3>1
  <2>1. s # {}
    <3>1. n + 1 # 0
      OBVIOUS
    <3> QED
      BY Zenon, <1>0, <3>1, FS_EmptySet
  <2> DEFINE x == First(s)
             u == s \ {x}
  <2>2. x \in s /\ g[s] = PayloadSize[q[x].digest] + g[u]
    BY Zenon, <1>1, <2>1
  <2>3. A[s] = PayloadSize[q[x].digest] + A[u]
    BY Zenon, <1>4, <2>1
  <2> HIDE DEF x
  <2>4. u \in SUBSET T /\ Cardinality(u) = n
    <3>1. Cardinality(u) = Cardinality(s) - 1
      BY Zenon, <1>0, <2>2, FS_RemoveElement
    <3>2. (n + 1) - 1 = n
      OBVIOUS
    <3> QED
      BY Zenon, <3>1, <3>2
  <2>5. A[u] = g[u]
    BY Zenon, <2>4
  <2> HIDE DEF u
  <2> QED
    BY Zenon, <2>2, <2>3, <2>5
<1> HIDE DEF P
<1>7. \A n \in Nat : n \in P
  BY Zenon, <1>5, <1>6, Induction
<1>8. T \in SUBSET T
  BY Zenon
<1> QED
  BY Zenon, <1>0, <1>2, <1>7, <1>8 DEF P

\* One more message adds the size of its payload, as Consume adds it to the
\* bytes buffered.
LEMMA BytesInsert ==
  ASSUME NEW q, NEW T, IsFiniteSet(T), NEW i, i \notin T,
         \A j \in T \cup {i} : PayloadSize[q[j].digest] \in Nat
  PROVE  /\ Bytes(q, T) \in Nat
         /\ Bytes(q, T \cup {i}) = Bytes(q, T) + PayloadSize[q[i].digest]
<1> DEFINE U == T \cup {i}
           w == Weights(q, U)
<1>1. w \in [U -> Nat] /\ \A j \in U : w[j] = PayloadSize[q[j].digest]
  BY Zenon DEF Weights
<1>2. IsFiniteSet(U) /\ U \ {i} = T
  BY Zenon, FS_AddElement
<1> HIDE DEF w
<1>3. PICK g : Measure(g, w, U)
  BY Zenon, <1>1, <1>2, MeasureExists
<1>4. Bytes(q, U) = g[U]
  BY Zenon, <1>2, <1>3, BytesIsMeasure DEF w
<1>5. Bytes(q, T) = g[T] /\ g[T] \in Nat
  <2> DEFINE h == [s \in SUBSET T |-> g[s]]
  <2>1. \A s \in SUBSET T : s \in SUBSET U /\ g[s] \in Nat
    <3>1. \A s \in SUBSET T : s \in SUBSET U
      BY Zenon
    <3> HIDE DEF U
    <3> QED
      BY Zenon, <1>3, <3>1 DEF Measure
  <2>2. /\ h \in [SUBSET T -> Nat] /\ \A s \in SUBSET T : h[s] = g[s]
    BY Zenon, <2>1
  <2> HIDE DEF h
  <2>3. \A j \in T : Weights(q, T)[j] = w[j]
    BY Zenon, <1>1 DEF Weights
  <2>4. h[{}] = 0
    BY Zenon, <1>3, <2>2 DEF Measure
  <2>5. ASSUME NEW s \in SUBSET T, NEW x \in s PROVE h[s] = Weights(q, T)[x] + h[s \ {x}]
    <3>1. s \in SUBSET U /\ s \ {x} \in SUBSET T /\ x \in T
      BY Zenon
    <3> HIDE DEF U
    <3>2. g[s] = w[x] + g[s \ {x}]
      BY Zenon, <1>3, <3>1 DEF Measure
    <3> QED
      BY Zenon, <2>2, <2>3, <3>1, <3>2
  <2>6. Measure(h, Weights(q, T), T)
    BY Zenon, <2>2, <2>4, <2>5 DEF Measure
  <2>7. T \in SUBSET T
    BY Zenon
  <2>8. Bytes(q, T) = h[T]
    BY Zenon, <2>6, BytesIsMeasure
  <2> QED
    BY Zenon, <2>1, <2>2, <2>7, <2>8
<1>6. g[U] = w[i] + g[T]
  <2>1. U \in SUBSET U /\ i \in U
    BY Zenon
  <2>2. g[U] = w[i] + g[U \ {i}]
    BY Zenon, <1>3, <2>1 DEF Measure
  <2> QED
    BY Zenon, <1>2, <2>2
<1>7. w[i] = PayloadSize[q[i].digest] /\ w[i] \in Nat
  BY Zenon, <1>1
<1>8. g[U] = g[T] + w[i]
  BY <1>5, <1>6, <1>7
<1> QED
  BY Zenon, <1>4, <1>5, <1>7, <1>8

\* The bytes depend only on the messages at the positions.
LEMMA BytesFrame ==
  ASSUME NEW q, NEW r, NEW T, IsFiniteSet(T), \A j \in T : r[j] = q[j],
         \A j \in T : PayloadSize[q[j].digest] \in Nat
  PROVE  Bytes(r, T) = Bytes(q, T)
<1>1. Weights(q, T) \in [T -> Nat] /\ Weights(r, T) = Weights(q, T)
  BY Zenon DEF Weights
<1>2. PICK g : Measure(g, Weights(q, T), T)
  BY Zenon, <1>1, MeasureExists
<1>3. \A p : Measure(g, Weights(p, T), T) => Bytes(p, T) = g[T]
  BY Zenon, BytesIsMeasure
<1>4. Measure(g, Weights(r, T), T)
  BY Zenon, <1>1, <1>2
<1> QED
  BY Zenon, <1>2, <1>3, <1>4

\* No messages, no bytes: what Begin resets the machine to.
LEMMA NoBytes ==
  ASSUME NEW q
  PROVE  Bytes(q, {}) = 0
<1>1. IsFiniteSet({}) /\ Weights(q, {}) \in [{} -> Nat]
  BY Zenon, FS_EmptySet DEF Weights
<1>2. PICK g : Measure(g, Weights(q, {}), {})
  BY Zenon, <1>1, MeasureExists
<1>3. Bytes(q, {}) = g[{}]
  BY Zenon, <1>1, <1>2, BytesIsMeasure
<1> QED
  BY Zenon, <1>2, <1>3 DEF Measure
-----------------------------------------------------------------------------
(* The state machine: what it refuses.                                     *)

\* What lies before a position does not depend on what follows.
LEMMA BeforePosition ==
  ASSUME NEW q \in Seq(DecodedMessage), NEW m, NEW i \in 1..Len(q) + 1
  PROVE  /\ TransactionOf(Append(q, m), i) = TransactionOf(q, i)
         /\ InTransaction(Append(q, m), i) <=> InTransaction(q, i)
         /\ TransactionOf(q, i) \subseteq 1..Len(q) /\ i \notin TransactionOf(q, i)
<1> DEFINE n == Len(q)
           r == Append(q, m)
<1>1. /\ n \in Nat /\ DOMAIN q = 1..n /\ DOMAIN r = 1..n + 1
      /\ \A j \in 1..n : r[j] = q[j]
  OBVIOUS
<1> HIDE DEF n, r
<1>2. \A j \in 1..n + 1 : j < i => j \in 1..n
  BY <1>1 DEF n
<1>3. 1..n \subseteq 1..n + 1 /\ 1..i - 1 \subseteq 1..n /\ i \notin 1..i - 1
      /\ \A j \in 1..i - 1 : r[j] = q[j]
  BY <1>1 DEF n
<1>4. \A b : b < i => (b \in Begins(r) <=> b \in Begins(q))
  BY Zenon, <1>1, <1>2, <1>3 DEF Begins
<1>5. \A c : c < i => (c \in Commits(r) <=> c \in Commits(q))
  BY Zenon, <1>1, <1>2, <1>3 DEF Commits
<1>6. TransactionOf(r, i) = TransactionOf(q, i)
  <2>1. ASSUME NEW j \in 1..i - 1
        PROVE  j \in TransactionOf(r, i) <=> j \in TransactionOf(q, i)
    BY Zenon, <1>3, <1>4 DEF TransactionOf
  <2>2. TransactionOf(r, i) \subseteq 1..i - 1 /\ TransactionOf(q, i) \subseteq 1..i - 1
    BY Zenon DEF TransactionOf
  <2> QED
    BY Zenon, <2>1, <2>2
<1>7. InTransaction(r, i) <=> InTransaction(q, i)
  BY Zenon, <1>4, <1>5 DEF InTransaction
<1>8. TransactionOf(q, i) \subseteq 1..i - 1
  BY Zenon DEF TransactionOf
<1>9. TransactionOf(q, i) \subseteq 1..n /\ i \notin TransactionOf(q, i)
  BY Zenon, <1>3, <1>8
<1> QED
  BY Zenon, <1>6, <1>7, <1>9 DEF n, r

\* Begin opens a transaction, Commit closes it, and a logical message does
\* neither.
LEMMA TransactionOpens ==
  ASSUME NEW q \in Seq(DecodedMessage), NEW m, m.type \in {"begin", "commit", "message"}
  PROVE  /\ m.type = "begin" => InTransaction(Append(q, m), Len(q) + 2)
         /\ m.type = "commit" => ~InTransaction(Append(q, m), Len(q) + 2)
         /\ m.type = "message" =>
              (InTransaction(Append(q, m), Len(q) + 2) <=> InTransaction(q, Len(q) + 1))
<1> DEFINE n == Len(q)
           r == Append(q, m)
<1>1. /\ n \in Nat /\ DOMAIN q = 1..n /\ DOMAIN r = 1..n + 1
      /\ \A j \in 1..n : r[j] = q[j]
      /\ r[n + 1] = m
  OBVIOUS
<1> HIDE DEF n, r
<1>2. /\ \A j : j \in 1..n + 1 <=> j \in 1..n \/ j = n + 1
      /\ \A j \in 1..n : j < n + 1 /\ j < n + 2 /\ ~(n + 1 < j)
      /\ n + 1 < n + 2 /\ ~(n + 1 < n + 1)
  BY <1>1
<1>3. /\ Begins(q) \subseteq 1..n /\ Commits(q) \subseteq 1..n
      /\ \A b : b \in Begins(r) <=> b \in Begins(q) \/ (b = n + 1 /\ m.type = "begin")
      /\ \A c : c \in Commits(r) <=> c \in Commits(q) \/ (c = n + 1 /\ m.type = "commit")
  <2>1. n + 1 \notin 1..n
    BY <1>1
  <2> QED
    BY Zenon, <1>1, <1>2, <2>1 DEF Begins, Commits
<1>4. CASE m.type = "begin"
  <2>1. n + 1 \in Begins(r) /\ ~\E c \in Commits(r) : n + 1 < c /\ c < n + 2
    <3>1. "begin" # "commit"
      BY Zenon
    <3> QED
      BY Zenon, <1>2, <1>3, <1>4, <3>1
  <2>2. InTransaction(r, n + 2)
    BY Zenon, <1>2, <2>1 DEF InTransaction
  <2>3. m.type # "commit" /\ m.type # "message"
    BY Zenon, <1>4
  <2> QED
    BY Zenon, <2>2, <2>3 DEF n, r
<1>5. CASE m.type = "commit"
  <2>1. m.type # "begin" /\ m.type # "message"
    BY Zenon, <1>5
  <2>2. \A b \in Begins(r) : b < n + 1
    BY Zenon, <1>2, <1>3, <2>1
  <2>3. n + 1 \in Commits(r)
    BY Zenon, <1>3, <1>5
  <2>4. ~InTransaction(r, n + 2)
    BY Zenon, <1>2, <2>2, <2>3 DEF InTransaction
  <2> QED
    BY Zenon, <2>1, <2>4 DEF n, r
<1>6. CASE m.type = "message"
  <2>1. m.type # "begin" /\ m.type # "commit"
    BY Zenon, <1>6
  <2>2. Begins(r) = Begins(q) /\ Commits(r) = Commits(q)
    BY Zenon, <1>3, <2>1
  <2>3. \A j \in Begins(q) \cup Commits(q) : j < n + 1 /\ j < n + 2
    BY Zenon, <1>2, <1>3
  <2>4. InTransaction(r, n + 2) <=> InTransaction(q, n + 1)
    BY Zenon, <2>2, <2>3 DEF InTransaction
  <2> QED
    BY Zenon, <2>1, <2>4 DEF n, r
<1> QED
  BY Zenon, <1>4, <1>5, <1>6

\* The positions of a transaction are finitely many protected messages.
LEMMA TransactionFinite ==
  ASSUME NEW q \in Seq(DecodedMessage), NEW i \in 1..Len(q) + 1
  PROVE  /\ IsFiniteSet(TransactionOf(q, i))
         /\ \A j \in TransactionOf(q, i) : PayloadSize[q[j].digest] \in Nat
<1>1. Len(q) \in Nat /\ TransactionOf(q, i) \subseteq 1..Len(q)
  BY BeforePosition
<1>2. IsFiniteSet(1..Len(q))
  <2>1. 1 \in Int /\ Len(q) \in Int
    BY <1>1
  <2> QED
    BY Zenon, <2>1, FS_Interval
<1>3. ASSUME NEW j \in TransactionOf(q, i) PROVE PayloadSize[q[j].digest] \in Nat
  <2>1. q[j] \in DecodedMessage
    BY <1>1
  <2>2. q[j].type = "message"
    BY Zenon DEF TransactionOf, IsProtected
  <2>3. q[j].digest \in Digests
    BY Zenon, <2>1, <2>2 DEF DecodedMessage
  <2> QED
    BY Zenon, <2>3, PayloadSizeAssumption
<1> QED
  BY Zenon, <1>1, <1>2, <1>3, FS_Subset

\* A message does not change the verdict on those before it.
LEMMA EarlierVerdicts ==
  ASSUME NEW q \in Seq(DecodedMessage), NEW m, NEW i \in DOMAIN q
  PROVE  WellFormedAt(Append(q, m), i) <=> WellFormedAt(q, i)
<1> DEFINE r == Append(q, m)
           T == TransactionOf(q, i)
<1>1. /\ i \in 1..Len(q) + 1 /\ Len(q) \in Nat /\ i \in 1..Len(q) /\ r[i] = q[i]
      /\ \A j \in 1..Len(q) : r[j] = q[j]
  OBVIOUS
<1> HIDE DEF r
<1>2. /\ TransactionOf(r, i) = T /\ (InTransaction(r, i) <=> InTransaction(q, i))
      /\ T \subseteq 1..Len(q)
  BY Zenon, <1>1, BeforePosition DEF r
<1>3. IsFiniteSet(T) /\ \A j \in T : PayloadSize[q[j].digest] \in Nat
  BY Zenon, <1>1, TransactionFinite
<1> HIDE DEF T
<1>4. ASSUME IsProtected(q[i]) PROVE Bytes(r, T \cup {i}) = Bytes(q, T \cup {i})
  <2>1. q[i] \in DecodedMessage /\ q[i].type = "message"
    BY <1>4 DEF IsProtected
  <2>2. PayloadSize[q[i].digest] \in Nat
    BY Zenon, <2>1, PayloadSizeAssumption DEF DecodedMessage
  <2> DEFINE U == T \cup {i}
  <2>3. IsFiniteSet(U)
    BY Zenon, <1>3, FS_AddElement
  <2>4. \A j \in U : r[j] = q[j]
    BY Zenon, <1>1, <1>2
  <2>5. \A j \in U : PayloadSize[q[j].digest] \in Nat
    BY Zenon, <1>3, <2>2
  <2> HIDE DEF U
  <2>6. Bytes(r, U) = Bytes(q, U)
    BY Zenon, <2>3, <2>4, <2>5, BytesFrame
  <2> QED
    BY Zenon, <2>6 DEF U
<1>5. WellFormedAt(r, i) <=> WellFormedAt(q, i)
  <2>1. WellFormedAt(q, i) <=>
          /\ q[i].type = "begin" => ~InTransaction(q, i)
          /\ q[i].type = "commit" => InTransaction(q, i)
          /\ IsProtected(q[i]) =>
               /\ InTransaction(q, i) /\ q[i].transactional /\ q[i].valid
               /\ Cardinality(T) + 1 <= MaxTransactionEvents
               /\ Bytes(q, T \cup {i}) <= MaxTransactionBytes
    BY Zenon DEF WellFormedAt, T
  <2>2. WellFormedAt(r, i) <=>
          /\ q[i].type = "begin" => ~InTransaction(r, i)
          /\ q[i].type = "commit" => InTransaction(r, i)
          /\ IsProtected(q[i]) =>
               /\ InTransaction(r, i) /\ q[i].transactional /\ q[i].valid
               /\ Cardinality(T) + 1 <= MaxTransactionEvents
               /\ Bytes(r, T \cup {i}) <= MaxTransactionBytes
    <3>1. r[i] = q[i] /\ TransactionOf(r, i) = T
      BY Zenon, <1>1, <1>2
    <3>2. WellFormedAt(r, i) <=>
          /\ r[i].type = "begin" => ~InTransaction(r, i)
          /\ r[i].type = "commit" => InTransaction(r, i)
          /\ IsProtected(r[i]) =>
               /\ InTransaction(r, i) /\ r[i].transactional /\ r[i].valid
               /\ Cardinality(TransactionOf(r, i)) + 1 <= MaxTransactionEvents
               /\ Bytes(r, TransactionOf(r, i) \cup {i}) <= MaxTransactionBytes
      BY Zenon DEF WellFormedAt
    <3> QED
      BY <3>1, <3>2
  <2>3. CASE IsProtected(q[i])
    BY Zenon, <1>2, <1>4, <2>1, <2>2, <2>3
  <2>4. CASE ~IsProtected(q[i])
    BY Zenon, <1>2, <2>1, <2>2, <2>4
  <2> QED
    BY Zenon, <2>3, <2>4
<1> QED
  BY Zenon, <1>5 DEF r

\* The verdict of Consume on the next message is what the limits and the
\* protocol say of it.
LEMMA VerdictOnNext ==
  ASSUME NEW s \in MachineState, NEW q \in Seq(DecodedMessage), NEW m \in DecodedMessage,
         m.type \in {"begin", "commit", "message"},
         s.inTx <=> InTransaction(q, Len(q) + 1),
         s.inTx => /\ Len(s.events) = Cardinality(TransactionOf(q, Len(q) + 1))
                   /\ s.buffered = Bytes(q, TransactionOf(q, Len(q) + 1))
  PROVE  /\ ConsumeError(s, m) = "none" <=> WellFormedAt(Append(q, m), Len(q) + 1)
         /\ IsProtected(m) =>
              /\ PayloadSize[m.digest] \in Nat
              /\ Bytes(Append(q, m), TransactionOf(q, Len(q) + 1) \cup {Len(q) + 1})
                   = Bytes(q, TransactionOf(q, Len(q) + 1)) + PayloadSize[m.digest]
<1> DEFINE n == Len(q)
           r == Append(q, m)
           T == TransactionOf(q, n + 1)
<1>1. /\ n \in Nat /\ n + 1 \in 1..n + 1 /\ r[n + 1] = m
      /\ \A j \in 1..n : r[j] = q[j]
  OBVIOUS
<1>2. /\ TransactionOf(r, n + 1) = T /\ (InTransaction(r, n + 1) <=> InTransaction(q, n + 1))
      /\ T \subseteq 1..n /\ n + 1 \notin T
  BY Zenon, <1>1, BeforePosition
<1>3. IsFiniteSet(T) /\ \A j \in T : PayloadSize[q[j].digest] \in Nat
  BY Zenon, <1>1, TransactionFinite
<1>4. ASSUME IsProtected(m)
      PROVE  /\ PayloadSize[m.digest] \in Nat
             /\ Bytes(r, T \cup {n + 1}) = Bytes(q, T) + PayloadSize[m.digest]
  <2>1. m.type = "message"
    BY Zenon, <1>4 DEF IsProtected
  <2>2. PayloadSize[m.digest] \in Nat
    BY Zenon, <2>1, PayloadSizeAssumption DEF DecodedMessage
  <2> HIDE DEF T, r, n
  <2>3. \A j \in T : r[j] = q[j]
    BY Zenon, <1>1, <1>2
  <2>4. \A j \in T \cup {n + 1} : PayloadSize[r[j].digest] \in Nat
    BY Zenon, <1>1, <1>3, <2>2, <2>3
  <2>5. Bytes(r, T \cup {n + 1}) = Bytes(r, T) + PayloadSize[r[n + 1].digest]
    <3>1. IsFiniteSet(T) /\ n + 1 \notin T
      BY Zenon, <1>2, <1>3
    <3> QED
      BY Zenon, <2>4, <3>1, BytesInsert
  <2>6. Bytes(r, T) = Bytes(q, T)
    BY Zenon, <1>3, <2>3, BytesFrame
  <2> QED
    BY Zenon, <1>1, <2>2, <2>5, <2>6
<1>5. WellFormedAt(r, n + 1) <=>
        /\ m.type = "begin" => ~s.inTx
        /\ m.type = "commit" => s.inTx
        /\ IsProtected(m) =>
             /\ s.inTx /\ m.transactional /\ m.valid
             /\ Cardinality(T) + 1 <= MaxTransactionEvents
             /\ Bytes(r, T \cup {n + 1}) <= MaxTransactionBytes
  <2> HIDE DEF T, r
  <2>1. InTransaction(r, n + 1) <=> s.inTx
    BY Zenon, <1>2
  <2>2. WellFormedAt(r, n + 1) <=>
        /\ m.type = "begin" => ~InTransaction(r, n + 1)
        /\ m.type = "commit" => InTransaction(r, n + 1)
        /\ IsProtected(m) =>
             /\ InTransaction(r, n + 1) /\ m.transactional /\ m.valid
             /\ Cardinality(T) + 1 <= MaxTransactionEvents
             /\ Bytes(r, T \cup {n + 1}) <= MaxTransactionBytes
    BY Zenon, <1>1, <1>2 DEF WellFormedAt
  <2> QED
    BY Zenon, <2>1, <2>2
<1>6. s.inTx \in BOOLEAN /\ s.buffered \in Nat /\ Len(s.events) \in Nat
  BY DEF MachineState
<1> DEFINE B == Bytes(r, T \cup {n + 1})
           C == Cardinality(T)
<1>7. s.inTx => Len(s.events) = C /\ s.buffered = Bytes(q, T)
  BY Zenon
<1> HIDE DEF B, C, T, r, n
<1>8. CASE m.type = "begin"
  <2>1. ~IsProtected(m) /\ m.type # "commit"
    BY Zenon, <1>8 DEF IsProtected
  <2>2. ConsumeError(s, m) = "none" <=> ~s.inTx
    BY Zenon, <1>6, <1>8 DEF ConsumeError
  <2> QED
    BY Zenon, <1>5, <1>8, <2>1, <2>2 DEF n, r, T
<1>9. CASE m.type = "commit"
  <2>1. ~IsProtected(m) /\ m.type # "begin"
    BY Zenon, <1>9 DEF IsProtected
  <2>2. ConsumeError(s, m) = "none" <=> s.inTx
    BY Zenon, <1>6, <1>9 DEF ConsumeError
  <2> QED
    BY Zenon, <1>5, <1>9, <2>1, <2>2 DEF n, r, T
<1>10. CASE m.type = "message" /\ ~m.protected
  <2>1. ~IsProtected(m) /\ m.type # "begin" /\ m.type # "commit"
    BY Zenon, <1>10 DEF IsProtected
  <2>2. ConsumeError(s, m) = "none"
    BY Zenon, <1>10 DEF ConsumeError
  <2> QED
    BY Zenon, <1>5, <2>1, <2>2 DEF n, r, T
<1>11. CASE m.type = "message" /\ m.protected
  <2>1. IsProtected(m) /\ m.type # "begin" /\ m.type # "commit"
    BY Zenon, <1>11 DEF IsProtected
  <2>2. m.transactional \in BOOLEAN /\ m.valid \in BOOLEAN
    BY Zenon, <1>11 DEF DecodedMessage
  <2>3. ConsumeError(s, m) = LogicalMessageError(s, m)
    BY Zenon, <1>11 DEF ConsumeError
  <2>4. LogicalMessageError(s, m) = "none" <=>
          /\ m.transactional /\ s.inTx /\ m.valid
          /\ ~(Len(s.events) >= MaxTransactionEvents)
          /\ ~(PayloadSize[m.digest] > MaxTransactionBytes - s.buffered)
    BY Zenon, <1>6, <2>2 DEF LogicalMessageError
  <2>5. s.inTx => /\ ~(Len(s.events) >= MaxTransactionEvents) <=> C + 1 <= MaxTransactionEvents
                  /\ ~(PayloadSize[m.digest] > MaxTransactionBytes - s.buffered)
                       <=> B <= MaxTransactionBytes
    <3> SUFFICES ASSUME s.inTx
                 PROVE  /\ ~(Len(s.events) >= MaxTransactionEvents)
                             <=> C + 1 <= MaxTransactionEvents
                        /\ ~(PayloadSize[m.digest] > MaxTransactionBytes - s.buffered)
                             <=> B <= MaxTransactionBytes
      BY Zenon
    <3>1. /\ C \in Nat /\ Len(s.events) = C
          /\ B = s.buffered + PayloadSize[m.digest] /\ PayloadSize[m.digest] \in Nat
      BY Zenon, <1>4, <1>6, <1>7, <2>1 DEF B
    <3> QED
      BY SMTT(30), <1>6, <3>1, LimitAssumption
  <2>6. WellFormedAt(r, n + 1) <=>
          /\ s.inTx /\ m.transactional /\ m.valid
          /\ C + 1 <= MaxTransactionEvents /\ B <= MaxTransactionBytes
    BY Zenon, <1>5, <2>1 DEF B, C
  <2>7. ConsumeError(s, m) = "none" <=> WellFormedAt(r, n + 1)
    BY Zenon, <2>3, <2>4, <2>5, <2>6
  <2> QED
    BY Zenon, <1>4, <2>7 DEF n, r, T
<1> QED
  <2>1. m.type = "message" => m.protected \in BOOLEAN
    BY Zenon DEF DecodedMessage
  <2> QED
    BY Zenon, <1>8, <1>9, <1>10, <1>11, <2>1

\* runOnce hands the machine a message: the verdict on it is the reference's.
LEMMA ConsumeKeepsVerdicts ==
  ASSUME MachineInv, VerdictInv, NEW message \in StreamMessages, ConsumeNext(message)
  PROVE  VerdictInv'
<1> DEFINE n == Len(sent)
           m == IF message.type = "message" THEN [message EXCEPT !.at = n + 1] ELSE message
           T == TransactionOf(sent, n + 1)
<1>0. /\ n = Len(sent)
      /\ message.type = "message" => m = [message EXCEPT !.at = n + 1]
      /\ message.type # "message" => m = message
  BY Zenon
<1>1. sent \in Seq(DecodedMessage) /\ state \in MachineState /\ n \in Nat /\ n + 1 \in Nat
  BY DEF MachineInv
<1>2. /\ error = "none" /\ sent' = Append(sent, m) /\ error' = ConsumeError(state, m)
      /\ state' = IF error' = "none" THEN Consume(state, m) ELSE state
  BY Zenon DEF ConsumeNext
<1> HIDE DEF n, m
<1>3. /\ m \in DecodedMessage /\ m.type \in {"begin", "commit", "message"}
      /\ m.type = "message" =>
           m.id \in Identities /\ m.digest \in Digests /\ m.protected \in BOOLEAN /\ m.at = n + 1
  BY <1>0, <1>1, NumberedMessage
<1>4. /\ DOMAIN sent = 1..n /\ DOMAIN sent' = 1..n + 1
      /\ \A i : i \in 1..n + 1 <=> i \in 1..n \/ i = n + 1
      /\ Len(sent') = n + 1 /\ (n + 1) + 1 = n + 2
  BY <1>1, <1>2 DEF n
<1>5. /\ state.inTx <=> InTransaction(sent, n + 1)
      /\ state.inTx => state.buffered = Bytes(sent, T)
      /\ \A i \in DOMAIN sent : WellFormedAt(sent, i)
  BY Zenon, <1>2 DEF VerdictInv, RefusedIsIllFormed, n
<1> HIDE DEF T
<1>6. state.inTx => Len(state.events) = Cardinality(T)
  <2> SUFFICES ASSUME state.inTx PROVE Len(state.events) = Cardinality(T)
    BY Zenon
  <2>1. Buffers(state.events, sent, T) /\ state.events \in Seq(BufferedEvent)
    BY Zenon, <1>1, <1>2 DEF MachineInv, MachineState, T, n
  <2>2. state.events = InOrder(sent, T)
    BY Zenon, <2>1, BuffersEnumerates
  <2>3. DOMAIN state.events = 1..Cardinality(T)
    BY Zenon, <2>2 DEF InOrder
  <2>4. IsFiniteSet(T)
    <3>1. n + 1 \in 1..Len(sent) + 1
      BY <1>1 DEF n
    <3> QED
      BY Zenon, <1>1, <3>1, TransactionFinite DEF T
  <2>5. Cardinality(T) \in Nat
    BY Zenon, <2>4, FS_CardinalityType
  <2> QED
    BY <2>1, <2>3, <2>5
<1>7. /\ error' = "none" <=> WellFormedAt(sent', n + 1)
      /\ IsProtected(m) =>
           /\ PayloadSize[m.digest] \in Nat
           /\ Bytes(sent', T \cup {n + 1}) = Bytes(sent, T) + PayloadSize[m.digest]
  <2>1. /\ ConsumeError(state, m) = "none" <=> WellFormedAt(Append(sent, m), Len(sent) + 1)
        /\ IsProtected(m) =>
             /\ PayloadSize[m.digest] \in Nat
             /\ Bytes(Append(sent, m), TransactionOf(sent, Len(sent) + 1) \cup {Len(sent) + 1})
                  = Bytes(sent, TransactionOf(sent, Len(sent) + 1)) + PayloadSize[m.digest]
    <3>1. /\ state.inTx <=> InTransaction(sent, Len(sent) + 1)
          /\ state.inTx => /\ Len(state.events) = Cardinality(TransactionOf(sent, Len(sent) + 1))
                           /\ state.buffered = Bytes(sent, TransactionOf(sent, Len(sent) + 1))
      BY Zenon, <1>5, <1>6 DEF n, T
    <3> QED
      BY Zenon, <1>1, <1>3, <3>1, VerdictOnNext
  <2> QED
    BY Zenon, <1>2, <2>1 DEF n, T
<1>8. RefusedIsIllFormed'
  <2>1. \A i \in 1..n : WellFormedAt(sent', i)
    BY Zenon, <1>1, <1>2, <1>4, <1>5, EarlierVerdicts
  <2> QED
    BY Zenon, <1>4, <1>7, <2>1 DEF RefusedIsIllFormed
<1>9. ASSUME error' = "none"
      PROVE  /\ state'.inTx <=> InTransaction(sent', Len(sent') + 1)
             /\ state'.inTx =>
                  state'.buffered = Bytes(sent', TransactionOf(sent', Len(sent') + 1))
  <2>1. state' = Consume(state, m) /\ ConsumeError(state, m) = "none"
    BY Zenon, <1>2, <1>9
  <2>2. /\ m.type = "begin" => TransactionOf(sent', n + 2) = {}
        /\ m.type # "begin" /\ ~IsProtected(m) => TransactionOf(sent', n + 2) = T
        /\ m.type # "begin" /\ IsProtected(m) => TransactionOf(sent', n + 2) = T \cup {n + 1}
    BY Zenon, <1>1, <1>2, <1>3, TransactionPrefix DEF n, T
  <2>3. /\ m.type = "begin" => InTransaction(sent', n + 2)
        /\ m.type = "commit" => ~InTransaction(sent', n + 2)
        /\ m.type = "message" => (InTransaction(sent', n + 2) <=> InTransaction(sent, n + 1))
    <3>1. /\ m.type = "begin" => InTransaction(Append(sent, m), n + 2)
          /\ m.type = "commit" => ~InTransaction(Append(sent, m), n + 2)
          /\ m.type = "message" =>
               (InTransaction(Append(sent, m), n + 2) <=> InTransaction(sent, n + 1))
      BY <1>1, <1>3, TransactionOpens DEF n
    <3> QED
      BY Zenon, <1>2, <3>1
  <2>4. CASE m.type = "begin"
    <3>1. state'.inTx /\ state'.buffered = 0
      BY Zenon, <2>1, <2>4 DEF Consume, NewStateMachine
    <3>2. Bytes(sent', {}) = 0
      BY Zenon, NoBytes
    <3> QED
      BY Zenon, <1>4, <2>2, <2>3, <2>4, <3>1, <3>2
  <2>5. CASE m.type = "commit"
    <3>1. ~state'.inTx
      BY Zenon, <2>1, <2>5 DEF Consume, NewStateMachine
    <3> QED
      BY Zenon, <1>4, <2>3, <2>5, <3>1
  <2>6. CASE m.type = "message" /\ ~m.protected
    <3>1. state' = state
      BY Zenon, <2>1, <2>6 DEF Consume
    <3>2. m.type # "begin" /\ ~IsProtected(m)
      BY Zenon, <2>6 DEF IsProtected
    <3>3. TransactionOf(sent', n + 2) = T /\ (InTransaction(sent', n + 2) <=> state.inTx)
      BY Zenon, <1>5, <2>2, <2>3, <2>6, <3>2
    <3>4. Bytes(sent', T) = Bytes(sent, T)
      <4>1. n + 1 \in 1..Len(sent) + 1 /\ \A j \in 1..n : sent'[j] = sent[j]
        BY <1>1, <1>2 DEF n
      <4>2. IsFiniteSet(T) /\ T \subseteq 1..n /\ \A j \in T : PayloadSize[sent[j].digest] \in Nat
        BY Zenon, <1>1, <4>1, TransactionFinite, BeforePosition DEF T, n
      <4>3. \A j \in T : sent'[j] = sent[j]
        BY Zenon, <4>1, <4>2
      <4> QED
        BY Zenon, <4>2, <4>3, BytesFrame
    <3> QED
      BY Zenon, <1>4, <1>5, <3>1, <3>3, <3>4
  <2>7. CASE m.type = "message" /\ m.protected
    <3>1. state'.inTx = state.inTx /\ state'.buffered = state.buffered + PayloadSize[m.digest]
      <4>1. state' = [state EXCEPT !.events = Append(@, [id |-> m.id, digest |-> m.digest,
                                                        at |-> m.at]),
                                   !.buffered = @ + PayloadSize[m.digest]]
        BY Zenon, <2>1, <2>7 DEF Consume
      <4> QED
        BY Zenon, <1>1, <4>1 DEF MachineState
    <3>2. m.type # "begin" /\ IsProtected(m)
      BY Zenon, <2>7 DEF IsProtected
    <3>3. /\ TransactionOf(sent', n + 2) = T \cup {n + 1}
          /\ InTransaction(sent', n + 2) <=> state.inTx
      BY Zenon, <1>5, <2>2, <2>3, <2>7, <3>2
    <3> QED
      BY Zenon, <1>4, <1>5, <1>7, <3>1, <3>2, <3>3
  <2> QED
    BY Zenon, <1>3, <2>4, <2>5, <2>6, <2>7
<1> QED
  BY Zenon, <1>8, <1>9 DEF VerdictInv

\* A new machine has refused nothing and is in no transaction.
LEMMA NewMachineVerdicts ==
  /\ StreamInit => VerdictInv
  /\ NewConnection => VerdictInv'
<1>1. ASSUME NEW q, q = << >> PROVE ~InTransaction(q, Len(q) + 1) /\ DOMAIN q = {}
  <2>1. DOMAIN q = {}
    BY <1>1
  <2> QED
    BY Zenon, <2>1 DEF InTransaction, Begins
<1>2. ~NewStateMachine.inTx
  BY Zenon DEF NewStateMachine
<1>3. ASSUME StreamInit PROVE VerdictInv
  BY Zenon, <1>1, <1>2, <1>3 DEF StreamInit, VerdictInv, RefusedIsIllFormed
<1>4. ASSUME NewConnection PROVE VerdictInv'
  BY Zenon, <1>1, <1>2, <1>4 DEF NewConnection, VerdictInv, RefusedIsIllFormed
<1> QED
  BY Zenon, <1>3, <1>4

\* The machine refuses a stream exactly when it breaks the protocol or a limit.
THEOREM VerdictsAreRight == StreamSpec => []RefusedIsIllFormed
<1>1. StreamInit => VerdictInv
  BY Zenon, NewMachineVerdicts
<1>2. MachineInv /\ VerdictInv /\ [StreamNext]_streamVars => VerdictInv'
  <2> SUFFICES ASSUME MachineInv, VerdictInv, [StreamNext]_streamVars PROVE VerdictInv'
    BY Zenon
  <2>1. CASE NewConnection
    BY Zenon, <2>1, NewMachineVerdicts
  <2>2. ASSUME NEW m \in StreamMessages, ConsumeNext(m) PROVE VerdictInv'
    BY Zenon, <2>2, ConsumeKeepsVerdicts
  <2>3. CASE UNCHANGED streamVars
    BY Zenon, <2>3 DEF streamVars, VerdictInv, RefusedIsIllFormed
  <2> QED
    BY Zenon, <2>1, <2>2, <2>3 DEF StreamNext
<1>3. VerdictInv => RefusedIsIllFormed
  BY Zenon DEF VerdictInv
<1> QED
  BY <1>1, <1>2, <1>3, MachineInvariance, PTL DEF StreamSpec
=============================================================================
