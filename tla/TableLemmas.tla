----------------------------- MODULE TableLemmas -----------------------------
(***************************************************************************)
(* What open addressing rests on, for every capacity, every hash function  *)
(* and every set of keys: a probe finds a key if the table has it and an   *)
(* empty bucket if not, and stays so when keys are entered and erased.     *)
(*                                                                         *)
(* The first part is about numbers: the least number of a set, induction,  *)
(* functions defined by recursion over 0 .. n, remainders.                 *)
(***************************************************************************)
EXTENDS OpenAddrHashMap, FiniteSetTheorems, TLAPS

\* A set of natural numbers has a least element.
LEMMA LeastNumber ==
    ASSUME NEW T \in SUBSET Nat, T # {}
    PROVE  \E n \in T : \A m \in T : n <= m
<1> DEFINE Below == {0 .. (n - 1) : n \in T}
<1>1. Below \subseteq FiniteSubsetsOf(Nat)
  <2>1. ASSUME NEW n \in T PROVE 0 .. (n - 1) \in FiniteSubsetsOf(Nat)
    BY FS_Interval DEF FiniteSubsetsOf
  <2> QED BY <2>1
<1>2. Below # {}
  OBVIOUS
<1>3. \E U \in Below : \A V \in Below : <<V, U>> \notin StrictSubsetOrdering(Nat)
  <2> HIDE DEF Below
  <2> QED BY <1>1, <1>2, WFMin, FS_StrictSubsetOrderingWellFounded
<1>4. PICK n \in T : \A V \in Below : <<V, 0 .. (n - 1)>> \notin StrictSubsetOrdering(Nat)
  BY <1>3
<1>5. ASSUME NEW m \in T, m < n PROVE FALSE
  <2>1. <<0 .. (m - 1), 0 .. (n - 1)>> \in StrictSubsetOrdering(Nat)
    BY <1>5 DEF StrictSubsetOrdering
  <2> QED BY <1>4, <2>1
<1> QED BY <1>5

\* Induction, as a fact about sets of numbers.
LEMMA Induction ==
    ASSUME NEW S \in SUBSET Nat, 0 \in S, \A n \in S : n + 1 \in S
    PROVE  S = Nat
<1> SUFFICES ASSUME Nat \ S # {} PROVE FALSE
  OBVIOUS
<1>1. PICK n \in Nat \ S : \A m \in Nat \ S : n <= m
  BY LeastNumber
<1> QED BY <1>1

\* Induction up to a bound.
LEMMA InductionUpTo ==
    ASSUME NEW n \in Nat, NEW S, 0 \in S, \A i \in 0 .. n - 1 : i \in S => i + 1 \in S
    PROVE  0 .. n \subseteq S
<1> DEFINE T == {i \in Nat : i <= n => i \in S}
<1>1. 0 \in T /\ \A i \in T : i + 1 \in T
  OBVIOUS
<1>2. T = Nat
  <2> HIDE DEF T
  <2>1. T \in SUBSET Nat  BY DEF T
  <2> QED BY <1>1, <2>1, Induction
<1> QED BY <1>2

\* A loop whose variable is in S: its n-th iteration applies body[n].
IsBody(body, I, S)  == body \in [I -> [S -> S]]
IsRun(f, base, body, I) == f[0] = base /\ \A i \in I : f[i] = body[i][f[i - 1]]

\* A run has the values of the variable before and after each iteration.
Runs(base, body, n, S)     == \E f \in [0 .. n -> S] : IsRun(f, base, body, 1 .. n)
RunsForever(base, body, S) == \E f \in [Nat -> S] : IsRun(f, base, body, Nat \ {0})

LEMMA LoopRuns ==
    ASSUME NEW n \in Nat, NEW S, NEW base \in S, NEW body, IsBody(body, 1 .. n, S)
    PROVE  Runs(base, body, n, S)
<1> USE DEF IsBody
<1> DEFINE T == {m \in 0 .. n : Runs(base, body, m, S)}
<1>1. 0 \in T
  <2> DEFINE f == [i \in 0 .. 0 |-> base]
  <2>1. f \in [0 .. 0 -> S] /\ f[0] = base /\ 1 .. 0 = {}
    OBVIOUS
  <2> HIDE DEF f
  <2> QED BY <2>1 DEF Runs, IsRun
<1>2. ASSUME NEW m \in 0 .. n - 1, m \in T PROVE m + 1 \in T
  <2>1. PICK f \in [0 .. m -> S] : IsRun(f, base, body, 1 .. m)
    BY <1>2 DEF Runs
  <2> DEFINE g == [i \in 0 .. m + 1 |-> IF i <= m THEN f[i] ELSE body[m + 1][f[m]]]
  <2>2. g \in [0 .. m + 1 -> S]
    OBVIOUS
  <2>3. IsRun(g, base, body, 1 .. m + 1)
    <3>1. g[0] = base
      BY <2>1 DEF IsRun
    <3>2. ASSUME NEW i \in 1 .. m + 1 PROVE g[i] = body[i][g[i - 1]]
      <4>1. CASE i <= m
        BY <2>1, <4>1 DEF IsRun
      <4>2. CASE i = m + 1
        BY <4>2
      <4> QED BY <4>1, <4>2
    <3> QED BY <3>1, <3>2 DEF IsRun
  <2> HIDE DEF g
  <2> QED BY <2>2, <2>3 DEF Runs
<1>3. n \in T
  <2> HIDE DEF T
  <2>1. 0 .. n \subseteq T
    BY <1>1, <1>2, InductionUpTo
  <2> QED BY <2>1
<1> QED BY <1>3

LEMMA LoopRunsForever ==
    ASSUME NEW S, NEW base \in S, NEW body, IsBody(body, Nat, S)
    PROVE  RunsForever(base, body, S)
<1> DEFINE At(m, v) == \E f \in [0 .. m -> S] : IsRun(f, base, body, 1 .. m) /\ v = f[m]
           g        == [m \in Nat |-> CHOOSE v : At(m, v)]
<1>1. ASSUME NEW m \in Nat PROVE \E f \in [0 .. m -> S] : IsRun(f, base, body, 1 .. m)
  <2> DEFINE step == [i \in 1 .. m |-> body[i]]
  <2>1. IsBody(step, 1 .. m, S)
    BY DEF IsBody
  <2>2. PICK f \in [0 .. m -> S] : IsRun(f, base, step, 1 .. m)
    <3> HIDE DEF step
    <3>1. Runs(base, step, m, S)
      BY <2>1, LoopRuns
    <3> QED BY <3>1 DEF Runs
  <2>3. IsRun(f, base, body, 1 .. m)
    BY <2>2 DEF IsRun
  <2> QED BY <2>3
<1>2. ASSUME NEW m \in Nat, NEW n \in Nat, m <= n,
             NEW f \in [0 .. m -> S], NEW h \in [0 .. n -> S],
             IsRun(f, base, body, 1 .. m), IsRun(h, base, body, 1 .. n)
      PROVE  f[m] = h[m]
  <2> DEFINE T == {i \in 0 .. m : f[i] = h[i]}
  <2>1. 0 \in T
    BY <1>2 DEF IsRun
  <2>2. ASSUME NEW i \in 0 .. m - 1, i \in T PROVE i + 1 \in T
    <3>1. i + 1 \in 1 .. m /\ i + 1 \in 1 .. n /\ (i + 1) - 1 = i
      BY <1>2
    <3>2. f[i + 1] = body[i + 1][f[i]] /\ h[i + 1] = body[i + 1][h[i]]
      BY <1>2, <3>1 DEF IsRun
    <3> QED BY <2>2, <3>1, <3>2
  <2>3. m \in T
    <3> HIDE DEF T
    <3>1. 0 .. m \subseteq T
      BY <2>1, <2>2, InductionUpTo
    <3> QED BY <3>1
  <2> QED BY <2>3
<1>3. ASSUME NEW m \in Nat, NEW f \in [0 .. m -> S], IsRun(f, base, body, 1 .. m)
      PROVE  g[m] = f[m]
  <2>1. At(m, f[m])
    BY <1>3
  <2>2. ASSUME NEW v, At(m, v) PROVE v = f[m]
    <3>1. PICK h \in [0 .. m -> S] : IsRun(h, base, body, 1 .. m) /\ v = h[m]
      BY <2>2
    <3> QED BY <1>2, <1>3, <3>1
  <2> HIDE DEF At
  <2> QED BY <2>1, <2>2
<1>4. g \in [Nat -> S]
  <2>1. ASSUME NEW m \in Nat PROVE g[m] \in S
    <3>1. PICK f \in [0 .. m -> S] : IsRun(f, base, body, 1 .. m)
      BY <1>1
    <3>2. g[m] = f[m]
      BY <1>3, <3>1
    <3>3. f[m] \in S
      OBVIOUS
    <3> HIDE DEF g
    <3> QED BY <3>2, <3>3
  <2> QED BY <2>1
<1>5. g[0] = base
  <2>1. PICK f \in [0 .. 0 -> S] : IsRun(f, base, body, 1 .. 0)
    BY <1>1
  <2>2. g[0] = f[0]
    BY <1>3, <2>1
  <2> QED BY <2>1, <2>2 DEF IsRun
<1>6. ASSUME NEW m \in Nat \ {0} PROVE g[m] = body[m][g[m - 1]]
  <2>1. PICK f \in [0 .. m -> S] : IsRun(f, base, body, 1 .. m)
    BY <1>1
  <2>2. g[m] = f[m]
    BY <1>3, <2>1
  <2> DEFINE k == m - 1
  <2>3. k \in Nat /\ k <= m
    OBVIOUS
  <2>4. PICK h \in [0 .. k -> S] : IsRun(h, base, body, 1 .. k)
    <3> HIDE DEF k
    <3> QED BY <1>1, <2>3
  <2>5. g[k] = h[k]
    <3> HIDE DEF k, g
    <3> QED BY <1>3, <2>3, <2>4
  <2>6. h[k] = f[k]
    <3> HIDE DEF k, g
    <3> QED BY <1>2, <2>1, <2>3, <2>4
  <2>7. f[m] = body[m][f[k]]
    BY <2>1 DEF IsRun
  <2> HIDE DEF g
  <2> QED BY <2>2, <2>5, <2>6, <2>7
<1> HIDE DEF g
<1> QED BY <1>4, <1>5, <1>6 DEF RunsForever, IsRun

-----------------------------------------------------------------------------
(* Powers of two. *)

LEMMA Pow2Is ==
    /\ Pow2 \in [Nat -> Nat \ {0}]
    /\ Pow2[0] = 1
    /\ \A e \in Nat : Pow2[e + 1] = 2 * Pow2[e]
<1> DEFINE S    == Nat \ {0}
           body == [i \in Nat |-> [x \in S |-> 2 * x]]
<1>1. IsBody(body, Nat, S)
  BY DEF IsBody
<1>2. PICK f \in [Nat -> S] :
          f[0] = 1 /\ \A i \in Nat \ {0} : f[i] = body[i][f[i - 1]]
  <2>1. 1 \in S
    OBVIOUS
  <2> HIDE DEF body, S
  <2>2. RunsForever(1, body, S)
    BY <1>1, <2>1, LoopRunsForever
  <2> QED BY <2>2 DEF RunsForever, IsRun
<1>3. f = [i \in Nat |-> IF i = 0 THEN 1 ELSE 2 * f[i - 1]]
  <2>1. \A i \in Nat \ {0} : body[i][f[i - 1]] = 2 * f[i - 1]
    OBVIOUS
  <2> HIDE DEF body
  <2> QED BY <1>2, <2>1
<1>4. Pow2 = [i \in Nat |-> IF i = 0 THEN 1 ELSE 2 * Pow2[i - 1]]
  <2> DEFINE Solves(h) == h = [i \in Nat |-> IF i = 0 THEN 1 ELSE 2 * h[i - 1]]
  <2>1. Pow2 = CHOOSE h : Solves(h)
    BY DEF Pow2
  <2>2. Solves(f)
    BY <1>3
  <2>3. Solves(Pow2)
    <3> HIDE DEF Solves
    <3> QED BY <2>1, <2>2
  <2> QED BY <2>3
<1>5. Pow2[0] = 1 /\ \A e \in Nat : Pow2[e + 1] = 2 * Pow2[e]
  <2> DEFINE p == Pow2
  <2>1. p = [i \in Nat |-> IF i = 0 THEN 1 ELSE 2 * p[i - 1]]
    BY <1>4
  <2> HIDE DEF p
  <2>2. p[0] = 1 /\ \A e \in Nat : p[e + 1] = 2 * p[e]
    BY <2>1
  <2> QED BY <2>2 DEF p
<1>6. \A e \in Nat : Pow2[e] \in Nat \ {0}
  <2> DEFINE T == {e \in Nat : Pow2[e] \in Nat \ {0}}
  <2>1. 0 \in T /\ \A e \in T : e + 1 \in T
    BY <1>5
  <2>2. T = Nat
    <3>1. T \in SUBSET Nat
      OBVIOUS
    <3> HIDE DEF T
    <3> QED BY <2>1, <3>1, Induction
  <2> QED BY <2>2
<1> QED BY <1>4, <1>5, <1>6

LEMMA Pow2Grows ==
    /\ \A e \in Nat : Pow2[e] > e
    /\ \A d \in Nat, e \in Nat : d < e => 2 * Pow2[d] <= Pow2[e]
<1>1. \A e \in Nat : Pow2[e] > e
  <2> DEFINE T == {e \in Nat : Pow2[e] > e}
  <2>1. 0 \in T /\ \A e \in T : e + 1 \in T
    BY Pow2Is
  <2>2. T = Nat
    <3>1. T \in SUBSET Nat
      OBVIOUS
    <3> HIDE DEF T
    <3> QED BY <2>1, <3>1, Induction
  <2> QED BY <2>2
<1>2. ASSUME NEW d \in Nat, NEW e \in Nat, d < e PROVE 2 * Pow2[d] <= Pow2[e]
  <2> DEFINE T == {i \in Nat : 2 * Pow2[d] <= Pow2[d + 1 + i]}
  <2>1. 0 \in T /\ \A i \in T : i + 1 \in T
    BY Pow2Is
  <2>2. T = Nat
    <3>1. T \in SUBSET Nat
      OBVIOUS
    <3> HIDE DEF T
    <3> QED BY <2>1, <3>1, Induction
  <2>3. e - d - 1 \in Nat /\ d + 1 + (e - d - 1) = e
    BY <1>2
  <2>4. 2 * Pow2[d] <= Pow2[d + 1 + (e - d - 1)]
    BY <2>2, <2>3
  <2> QED BY <2>3, <2>4
<1> QED BY <1>1, <1>2

IsPow2(n) == \E e \in Nat : n = Pow2[e]

LEMMA NextPow2Is ==
    ASSUME NEW n \in Nat
    PROVE  /\ NextPow2(n) \in Nat \ {0} /\ NextPow2(n) >= n /\ IsPow2(NextPow2(n))
           /\ IsPow2(n) => NextPow2(n) = n
<1> DEFINE Fits(e) == Pow2[e] >= n /\ \A d \in 0 .. e - 1 : Pow2[d] < n
           c       == CHOOSE e \in 0 .. n : Fits(e)
<1>1. \E e \in 0 .. n : Fits(e)
  <2> DEFINE T == {e \in Nat : Pow2[e] >= n}
  <2>1. n \in T
    BY Pow2Is, Pow2Grows
  <2>2. PICK e \in T : \A d \in T : e <= d
    <3>1. T \in SUBSET Nat /\ T # {}
      BY <2>1
    <3> HIDE DEF T
    <3> QED BY <3>1, LeastNumber
  <2>3. \A d \in 0 .. e - 1 : Pow2[d] < n
    BY <2>2, Pow2Is
  <2> QED BY <2>1, <2>2, <2>3
<1>2. c \in 0 .. n /\ Fits(c)
  <2> HIDE DEF Fits
  <2> QED BY <1>1
<1>3. NextPow2(n) = Pow2[c]
  BY DEF NextPow2
<1> HIDE DEF c
<1>4. NextPow2(n) \in Nat \ {0} /\ NextPow2(n) >= n /\ IsPow2(NextPow2(n))
  BY <1>2, <1>3, Pow2Is DEF IsPow2
<1>5. ASSUME IsPow2(n) PROVE NextPow2(n) = n
  <2>1. PICK e \in Nat : n = Pow2[e]
    BY <1>5 DEF IsPow2
  <2>2. ~(c < e)
    BY <1>2, <2>1, Pow2Is, Pow2Grows
  <2>3. ~(e < c)
    BY <1>2, <2>1
  <2> QED BY <1>2, <1>3, <2>1, <2>2, <2>3
<1> QED BY <1>4, <1>5

\* A power of two over a quarter and at most half of another is half of it.
LEMMA HalfOfPow2 ==
    ASSUME NEW n \in Nat, NEW c \in Nat, IsPow2(n), IsPow2(c), c < 4 * n, 2 * n <= c
    PROVE  c = 2 * n
<1>1. PICK d \in Nat : n = Pow2[d]
  BY DEF IsPow2
<1>2. PICK e \in Nat : c = Pow2[e]
  BY DEF IsPow2
<1>3. Pow2[d + 1] = 2 * n
  BY <1>1, Pow2Is
<1>4. d + 1 \in Nat
  OBVIOUS
<1>5. ASSUME d + 1 < e PROVE FALSE
  <2>1. 2 * Pow2[d + 1] <= Pow2[e]
    BY <1>4, <1>5, Pow2Grows
  <2> QED BY <1>2, <1>3, <2>1
<1>6. ASSUME e < d + 1 PROVE FALSE
  <2>1. 2 * Pow2[e] <= Pow2[d + 1]
    BY <1>4, <1>6, Pow2Grows
  <2>2. 0 < c
    BY <1>2, Pow2Is
  <2> QED BY <1>2, <1>3, <2>1, <2>2
<1>7. d + 1 = e
  BY <1>5, <1>6
<1> QED BY <1>2, <1>3, <1>7

LEMMA TwicePow2 ==
    ASSUME NEW c \in Nat, IsPow2(c)
    PROVE  IsPow2(2 * c)
BY Pow2Is DEF IsPow2

LEMMA HalfPow2 ==
    ASSUME NEW n \in Nat \ {0}, IsPow2(2 * n)
    PROVE  IsPow2(n)
<1>1. PICK e \in Nat : 2 * n = Pow2[e]
  BY DEF IsPow2
<1>2. e # 0
  BY <1>1, Pow2Is
<1>3. e - 1 \in Nat /\ (e - 1) + 1 = e
  BY <1>2
<1>4. Pow2[e] = 2 * Pow2[e - 1] /\ Pow2[e - 1] \in Nat
  BY <1>3, Pow2Is
<1>5. n = Pow2[e - 1]
  BY <1>1, <1>4
<1> QED BY <1>3, <1>5 DEF IsPow2

LEMMA MaxOfTwo ==
    ASSUME NEW a \in Nat, NEW b \in Nat
    PROVE  Max({a, b}) \in {a, b} /\ Max({a, b}) >= a /\ Max({a, b}) >= b
<1>1. \E x \in {a, b} : \A y \in {a, b} : x >= y
  OBVIOUS
<1> QED BY <1>1 DEF Max

LEMMA CapacityForIs ==
    ASSUME NEW n \in Nat
    PROVE  /\ CapacityFor(n) \in Nat \ {0} /\ CapacityFor(n) >= n /\ CapacityFor(n) >= 8
           /\ IsPow2(CapacityFor(n))
           /\ IsPow2(n) /\ n >= 8 => CapacityFor(n) = n
BY MaxOfTwo, NextPow2Is DEF CapacityFor, MinCapacity

LEMMA EightIsPow2 == IsPow2(8)
<1>1. Pow2[1] = 2 /\ Pow2[2] = 4 /\ Pow2[3] = 8
  <2>1. Pow2[0 + 1] = 2 * Pow2[0] /\ Pow2[1 + 1] = 2 * Pow2[1] /\ Pow2[2 + 1] = 2 * Pow2[2]
    BY Pow2Is
  <2> QED BY <2>1, Pow2Is
<1> QED BY <1>1 DEF IsPow2

-----------------------------------------------------------------------------
(* Remainders: the slots of a table with n buckets that a probe of hash h     *)
(* goes through are n different ones.                                         *)

Slot(h, d, n) == (h + d) % n

LEMMA Division ==
    ASSUME NEW x \in Nat, NEW n \in Nat \ {0}
    PROVE  /\ x % n \in 0 .. n - 1
           /\ \E q \in Nat : x = n * q + (x % n)
<1>1. x \div n \in Nat /\ x = n * (x \div n) + (x % n)
   OBVIOUS
<1>2. x % n \in 0 .. n - 1
   OBVIOUS
<1> DEFINE q == x \div n
<1>3. q \in Nat /\ x = n * q + (x % n)
   BY <1>1
<1> HIDE DEF q
<1> QED BY <1>2, <1>3

LEMMA Multiple ==
    ASSUME NEW n \in Nat \ {0}, NEW k \in Int, n * k < n, -n < n * k
    PROVE  k = 0
<1>1. CASE k >= 1
  <2>1. n * k >= n * 1 BY <1>1
  <2> QED BY <2>1
<1>2. CASE k <= -1
  <2>1. n * k <= n * (-1) BY <1>2
  <2> QED BY <2>1
<1> QED BY <1>1, <1>2

LEMMA Remainder ==
    ASSUME NEW n \in Nat \ {0}, NEW q \in Nat, NEW r \in 0 .. n - 1
    PROVE  (n * q + r) % n = r
<1>0. n * q + r \in Nat OBVIOUS
<1>1. PICK p \in Nat : n * q + r = n * p + ((n * q + r) % n)
  BY <1>0, Division
<1>2. (n * q + r) % n \in 0 .. n - 1
  BY <1>0, Division
<1> DEFINE k == q - p
<1>3. n * k = ((n * q + r) % n) - r
  BY <1>1, <1>2
<1>4. k \in Int /\ n * k \in Int /\ n * k < n /\ -n < n * k
  BY <1>2, <1>3
<1>5. k = 0
  BY <1>4, Multiple
<1> QED BY <1>3, <1>5, <1>2

LEMMA SlotOnce ==
    ASSUME NEW n \in Nat \ {0}, NEW h \in Nat, NEW d \in 0 .. n - 1, NEW e \in 0 .. n - 1,
           Slot(h, d, n) = Slot(h, e, n)
    PROVE  d = e
<1> USE DEF Slot
<1>0. h + d \in Nat /\ h + e \in Nat
  OBVIOUS
<1>1. PICK p \in Nat : h + d = n * p + ((h + d) % n)
  BY <1>0, Division
<1>2. PICK q \in Nat : h + e = n * q + ((h + e) % n)
  BY <1>0, Division
<1>a. (h + d) % n \in Nat BY <1>0, Division
<1> DEFINE k == p - q
<1>3. n * k = d - e
  BY <1>1, <1>2, <1>a
<1>4. k = 0
  BY <1>3, Multiple
<1> QED BY <1>3, <1>4

LEMMA SlotReached ==
    ASSUME NEW n \in Nat \ {0}, NEW h \in Nat, NEW i \in 0 .. n - 1
    PROVE  \E d \in 0 .. n - 1 : Slot(h, d, n) = i
<1> USE DEF Slot
<1>1. PICK p \in Nat : h = n * p + (h % n)
  BY Division
<1>2. h % n \in 0 .. n - 1
  BY Division
<1>3. CASE i >= h % n
  <2>1. (h + (i - (h % n))) = n * p + i
    BY <1>1, <1>2
  <2>2. i - (h % n) \in 0 .. n - 1
    BY <1>2, <1>3
  <2>3. (h + (i - (h % n))) % n = i
    BY <2>1, Remainder
  <2> QED BY <2>2, <2>3
<1>4. CASE i < h % n
  <2>1. n * (p + 1) = n * p + n
    OBVIOUS
  <2>2. (h + (i + n - (h % n))) = n * (p + 1) + i
    BY <1>1, <1>2, <2>1
  <2>3. i + n - (h % n) \in 0 .. n - 1
    BY <1>2, <1>4
  <2>4. p + 1 \in Nat
    OBVIOUS
  <2>5. (h + (i + n - (h % n))) % n = i
    BY <2>2, <2>4, Remainder
  <2> QED BY <2>3, <2>5
<1> QED BY <1>2, <1>3, <1>4

LEMMA SlotType ==
    ASSUME NEW n \in Nat \ {0}, NEW h \in Nat, NEW d \in Nat
    PROVE  Slot(h, d, n) \in 0 .. n - 1
<1>1. h + d \in Nat
  OBVIOUS
<1> QED BY <1>1, Division DEF Slot

-----------------------------------------------------------------------------
(* Bucket arrays.  Keys are entered into a table of n buckets; a bucket that  *)
(* holds none holds `empty` or one of the marks of erased keys in `grave`.    *)

(* No probe for a key of the table meets an empty bucket before the key, and  *)
(* no key is there twice.                                                     *)
Chained(b, n, hash, K, empty) ==
    \A k \in K, d \in 0 .. n - 1 :
        b[Slot(hash[k], d, n)] = k => \A e \in 0 .. d - 1 : b[Slot(hash[k], e, n)] # empty

NoneTwice(b, n, K) == \A i \in 0 .. n - 1, j \in 0 .. n - 1 : b[i] \in K /\ b[i] = b[j] => i = j

IsTable(b, n, hash, K, empty, grave) ==
    /\ n \in Nat \ {0} /\ b \in [0 .. n - 1 -> K \cup grave \cup {empty}]
    /\ \A k \in K : hash[k] \in Nat
    /\ empty \notin K \cup grave /\ K \cap grave = {}
    /\ Chained(b, n, hash, K, empty) /\ NoneTwice(b, n, K)

\* t is b with x in bucket i.
Written(t, b, i, x) == t = [b EXCEPT ![i] = x]

Used(b, n, empty) == {i \in 0 .. n - 1 : b[i] # empty}

LEMMA CapacityIs ==
    ASSUME NEW n \in Nat \ {0}, NEW b, DOMAIN b = 0 .. n - 1
    PROVE  Capacity(b) = n
BY FS_Interval DEF Capacity

\* The bucket a probe ends at.
Stops(b, h, n, stops, i) ==
    \E d \in 0 .. n - 1 :
        /\ i = Slot(h, d, n) /\ b[i] \in stops
        /\ \A e \in 0 .. d - 1 : b[Slot(h, e, n)] \notin stops

LEMMA ProbeStops ==
    ASSUME NEW n \in Nat \ {0}, NEW b, DOMAIN b = 0 .. n - 1, NEW h \in Nat,
           NEW stops, NEW i \in 0 .. n - 1, b[i] \in stops
    PROVE  Probe(b, h, stops) \in 0 .. n - 1 /\ Stops(b, h, n, stops, Probe(b, h, stops))
<1> DEFINE Stop(d)  == b[(h + d) % n] \in stops
           First(d) == Stop(d) /\ \A e \in 0 .. d - 1 : ~Stop(e)
           c        == CHOOSE d \in 0 .. n - 1 : First(d)
           T        == {d \in 0 .. n - 1 : Stop(d)}
<1>1. T \in SUBSET Nat /\ T # {}
  <2>1. PICK d \in 0 .. n - 1 : Slot(h, d, n) = i
    BY SlotReached
  <2>2. Stop(d)
    BY <2>1 DEF Slot
  <2> HIDE DEF Stop
  <2> QED BY <2>2
<1>2. PICK d \in T : \A e \in T : d <= e
  <2> HIDE DEF T
  <2> QED BY <1>1, LeastNumber
<1>3. First(d) /\ d \in 0 .. n - 1
  BY <1>2
<1>4. c \in 0 .. n - 1 /\ First(c)
  <2> HIDE DEF First
  <2> QED BY <1>3
<1>5. Probe(b, h, stops) = (h + c) % n
  BY CapacityIs DEF Probe
<1> HIDE DEF c
<1>6. Slot(h, c, n) \in 0 .. n - 1
  BY <1>4, SlotType
<1>7. Probe(b, h, stops) = Slot(h, c, n)
  BY <1>5 DEF Slot
<1>8. b[Slot(h, c, n)] \in stops /\ \A e \in 0 .. c - 1 : b[Slot(h, e, n)] \notin stops
  BY <1>4 DEF Slot
<1> QED BY <1>4, <1>6, <1>7, <1>8 DEF Stops

LEMMA StopIsBucket ==
    ASSUME NEW n \in Nat \ {0}, NEW h \in Nat, NEW b, NEW stops, NEW i, Stops(b, h, n, stops, i)
    PROVE  i \in 0 .. n - 1 /\ b[i] \in stops
BY SlotType DEF Stops

\* A probe gets to bucket i without an empty one on its way.
Reaches(b, h, n, empty, i) ==
    /\ i \in 0 .. n - 1
    /\ \E d \in 0 .. n - 1 :
          i = Slot(h, d, n) /\ \A e \in 0 .. d - 1 : b[Slot(h, e, n)] # empty

LEMMA ProbeReaches ==
    ASSUME NEW n \in Nat \ {0}, NEW b, DOMAIN b = 0 .. n - 1, NEW h \in Nat, NEW empty,
           NEW stops, empty \in stops, NEW o \in 0 .. n - 1, b[o] = empty
    PROVE  /\ b[Probe(b, h, stops)] \in stops
           /\ Reaches(b, h, n, empty, Probe(b, h, stops))
<1> DEFINE i == Probe(b, h, stops)
<1>1. i \in 0 .. n - 1 /\ Stops(b, h, n, stops, i)
  BY ProbeStops
<1> HIDE DEF i
<1>2. b[i] \in stops /\ Reaches(b, h, n, empty, i)
  BY <1>1 DEF Stops, Reaches
<1> QED BY <1>2 DEF i

\* A table with an empty bucket: a probe for k ends at k if the table has it,
\* and at an empty bucket if not.
LEMMA LookupFinds ==
    ASSUME NEW n, NEW b, NEW hash, NEW K, NEW empty, NEW grave,
           IsTable(b, n, hash, K, empty, grave), NEW k \in K,
           NEW stops, k \in stops, empty \in stops, \A x \in stops : x = empty \/ x = k,
           NEW i, Stops(b, hash[k], n, stops, i)
    PROVE  /\ b[i] = empty \/ b[i] = k
           /\ \A j \in 0 .. n - 1 : b[j] = k => i = j
<1>0. n \in Nat \ {0} /\ DOMAIN b = 0 .. n - 1 /\ hash[k] \in Nat /\ empty # k
  BY DEF IsTable
<1>3. PICK d \in 0 .. n - 1 :
          /\ i = Slot(hash[k], d, n) /\ b[i] \in stops
          /\ \A e \in 0 .. d - 1 : b[Slot(hash[k], e, n)] \notin stops
  BY DEF Stops
<1>1. i \in 0 .. n - 1
  BY <1>0, StopIsBucket
<1>4. ASSUME NEW j \in 0 .. n - 1, b[j] = k PROVE i = j
  <2>1. PICK c \in 0 .. n - 1 : Slot(hash[k], c, n) = j
    BY <1>0, SlotReached
  <2>2. \A e \in 0 .. c - 1 : b[Slot(hash[k], e, n)] # empty
    BY <1>4, <2>1 DEF IsTable, Chained
  <2>3. ~(c < d)
    BY <1>3, <1>4, <2>1
  <2>4. CASE d < c
    <3>1. b[i] # empty
      BY <1>0, <1>3, <2>2, <2>4
    <3> QED BY <1>1, <1>3, <1>4, <3>1 DEF IsTable, NoneTwice
  <2> QED BY <1>0, <1>3, <2>1, <2>3, <2>4
<1> QED BY <1>3, <1>4

LEMMA ProbeFinds ==
    ASSUME NEW n, NEW b, NEW hash, NEW K, NEW empty, NEW grave,
           IsTable(b, n, hash, K, empty, grave), NEW k \in K,
           NEW o \in 0 .. n - 1, b[o] = empty,
           NEW stops, k \in stops, empty \in stops, \A x \in stops : x = empty \/ x = k,
           NEW i, i = Probe(b, hash[k], stops)
    PROVE  /\ i \in 0 .. n - 1 /\ (b[i] = empty \/ b[i] = k)
           /\ \A j \in 0 .. n - 1 : b[j] = k => i = j
<1>1. n \in Nat \ {0} /\ DOMAIN b = 0 .. n - 1 /\ hash[k] \in Nat
  BY DEF IsTable
<1>2. i \in 0 .. n - 1 /\ Stops(b, hash[k], n, stops, i)
  BY <1>1, ProbeStops
<1>3. (b[i] = empty \/ b[i] = k) /\ \A j \in 0 .. n - 1 : b[j] = k => i = j
  BY <1>2, LookupFinds
<1> QED BY <1>2, <1>3

\* A key that the table lacks may be entered wherever a probe for it gets to.
LEMMA EnterKey ==
    ASSUME NEW n, NEW b, NEW hash, NEW K, NEW empty, NEW grave,
           IsTable(b, n, hash, K, empty, grave), NEW k \in K,
           \A j \in 0 .. n - 1 : b[j] # k,
           NEW i, Reaches(b, hash[k], n, empty, i), NEW t, Written(t, b, i, k)
    PROVE  IsTable(t, n, hash, K, empty, grave)
<1>0. n \in Nat \ {0} /\ DOMAIN b = 0 .. n - 1 /\ hash[k] \in Nat /\ empty # k
  BY DEF IsTable
<1>1. i \in 0 .. n - 1
  BY DEF Reaches
<1>2. t[i] = k /\ (\A j \in 0 .. n - 1 : j # i => t[j] = b[j])
      /\ t \in [0 .. n - 1 -> K \cup grave \cup {empty}]
  BY <1>1 DEF IsTable, Written
<1>3. NoneTwice(t, n, K)
  BY <1>2 DEF IsTable, NoneTwice
<1>4. PICK d \in 0 .. n - 1 :
          i = Slot(hash[k], d, n) /\ \A e \in 0 .. d - 1 : b[Slot(hash[k], e, n)] # empty
  BY DEF Reaches
<1>5. ASSUME NEW q \in K, NEW c \in 0 .. n - 1, t[Slot(hash[q], c, n)] = q, NEW e \in 0 .. c - 1
      PROVE  t[Slot(hash[q], e, n)] # empty
  <2>0. /\ hash[q] \in Nat /\ e \in 0 .. n - 1
        /\ Slot(hash[q], c, n) \in 0 .. n - 1 /\ Slot(hash[q], e, n) \in 0 .. n - 1
    <3>1. hash[q] \in Nat /\ e \in 0 .. n - 1 /\ e \in Nat /\ c \in Nat
      BY <1>0 DEF IsTable
    <3> QED BY <1>0, <3>1, SlotType
  <2>1. CASE q = k
    <3>1. Slot(hash[k], c, n) = i
      BY <1>2, <1>5, <2>0, <2>1
    <3>2. c = d
      BY <1>0, <1>4, <3>1, SlotOnce
    <3>3. b[Slot(hash[k], e, n)] # empty
      BY <1>4, <1>5, <3>2
    <3> QED BY <1>0, <1>2, <2>0, <2>1, <3>3
  <2>2. CASE q # k
    <3>1. b[Slot(hash[q], c, n)] = q
      BY <1>2, <1>5, <2>0, <2>2
    <3>2. b[Slot(hash[q], e, n)] # empty
      BY <1>5, <3>1 DEF IsTable, Chained
    <3> QED BY <1>0, <1>2, <2>0, <3>2
  <2> QED BY <2>1, <2>2
<1>6. Chained(t, n, hash, K, empty)
  BY <1>5 DEF Chained
<1> QED BY <1>2, <1>3, <1>6 DEF IsTable

\* A key is erased by a mark in its place.
LEMMA BuryKey ==
    ASSUME NEW n, NEW b, NEW hash, NEW K, NEW empty, NEW grave,
           IsTable(b, n, hash, K, empty, grave),
           NEW i \in 0 .. n - 1, b[i] # empty, NEW mark \in grave,
           NEW t, Written(t, b, i, mark)
    PROVE  IsTable(t, n, hash, K, empty, grave)
<1>0. n \in Nat \ {0} /\ mark \notin K /\ mark # empty
  BY DEF IsTable
<1>1. t[i] = mark /\ (\A j \in 0 .. n - 1 : j # i => t[j] = b[j])
      /\ t \in [0 .. n - 1 -> K \cup grave \cup {empty}]
  BY DEF IsTable, Written
<1>2. NoneTwice(t, n, K)
  BY <1>0, <1>1 DEF IsTable, NoneTwice
<1>3. ASSUME NEW q \in K, NEW c \in 0 .. n - 1, t[Slot(hash[q], c, n)] = q, NEW e \in 0 .. c - 1
      PROVE  t[Slot(hash[q], e, n)] # empty
  <2>0. /\ Slot(hash[q], c, n) \in 0 .. n - 1 /\ Slot(hash[q], e, n) \in 0 .. n - 1
    <3>1. hash[q] \in Nat /\ e \in Nat /\ c \in Nat
      BY <1>0 DEF IsTable
    <3> QED BY <1>0, <3>1, SlotType
  <2>1. b[Slot(hash[q], c, n)] = q
    BY <1>0, <1>1, <1>3, <2>0
  <2>2. b[Slot(hash[q], e, n)] # empty
    BY <1>3, <2>1 DEF IsTable, Chained
  <2> QED BY <1>0, <1>1, <2>0, <2>2
<1> QED BY <1>1, <1>2, <1>3 DEF IsTable, Chained

\* A table with nothing in it.
LEMMA EmptyTable ==
    ASSUME NEW n \in Nat \ {0}, NEW hash, NEW K, NEW empty, NEW grave,
           \A k \in K : hash[k] \in Nat, empty \notin K \cup grave, K \cap grave = {},
           NEW b, b = [i \in 0 .. n - 1 |-> empty]
    PROVE  IsTable(b, n, hash, K, empty, grave) /\ Used(b, n, empty) = {}
<1>1. b \in [0 .. n - 1 -> K \cup grave \cup {empty}] /\ \A i \in 0 .. n - 1 : b[i] = empty
  OBVIOUS
<1>2. ASSUME NEW k \in K, NEW d \in 0 .. n - 1 PROVE b[Slot(hash[k], d, n)] # k
  <2>1. d \in Nat /\ hash[k] \in Nat
    OBVIOUS
  <2>2. Slot(hash[k], d, n) \in 0 .. n - 1
    BY <2>1, SlotType
  <2> QED BY <1>1, <2>2
<1>3. IsTable(b, n, hash, K, empty, grave)
  BY <1>1, <1>2 DEF IsTable, Chained, NoneTwice
<1>4. Used(b, n, empty) = {}
  BY <1>1 DEF Used
<1> QED BY <1>3, <1>4

\* Used buckets are counted; half of a table is not all of it.
LEMMA UsedIsFinite ==
    ASSUME NEW n \in Nat, NEW b, NEW empty
    PROVE  /\ IsFiniteSet(Used(b, n, empty)) /\ Cardinality(Used(b, n, empty)) \in Nat
           /\ \A u \in Nat : Cardinality(Used(b, n, empty)) <= u /\ u < n
                  => Used(b, n, empty) # 0 .. n - 1
<1>1. IsFiniteSet(0 .. n - 1)
  BY FS_Interval
<1>2. n # 0 => Cardinality(0 .. n - 1) = n
  BY FS_Interval
<1>3. IsFiniteSet(Used(b, n, empty))
  BY <1>1, FS_Subset DEF Used
<1> QED BY <1>2, <1>3, FS_CardinalityType

LEMMA UseOne ==
    ASSUME NEW n \in Nat, NEW b, DOMAIN b = 0 .. n - 1, NEW empty, NEW i \in 0 .. n - 1, b[i] = empty,
           NEW k, k # empty, NEW t, Written(t, b, i, k)
    PROVE  Cardinality(Used(t, n, empty)) = Cardinality(Used(b, n, empty)) + 1
<1>1. t[i] = k /\ \A j \in 0 .. n - 1 : j # i => t[j] = b[j]
  BY DEF Written
<1>2. Used(t, n, empty) = Used(b, n, empty) \cup {i} /\ i \notin Used(b, n, empty)
  BY <1>1 DEF Used
<1> QED BY <1>2, UsedIsFinite, FS_AddElement

-----------------------------------------------------------------------------
(* The hash map, over a set K of keys that the sentinel is not in.            *)

NoMarks == {}

MapTable(m, n, hash, K) ==
    IsTable(m.first, n, hash, K, Empty, NoMarks) /\ DOMAIN m.second = 0 .. n - 1

\* What iteration finds: the keys with their values.
Entries(m) == {<<m.first[i], m.second[i]>> : i \in {j \in DOMAIN m.first : m.first[j] # Empty}}

UsedBy(m, n) == Used(m.first, n, Empty)

\* A map between two calls.  The counter may exceed the number of entries, as
\* it counts what was entered under the sentinel.
IsMap(m, n, hash, K) ==
    /\ MapTable(m, n, hash, K)
    /\ IsPow2(n) /\ n >= 8
    /\ m.size \in Nat /\ Cardinality(UsedBy(m, n)) <= m.size /\ 2 * m.size <= n

\* The counter is that of the entries.
IsCounted(m, n) == m.size = Cardinality(UsedBy(m, n))

LEMMA MapParts ==
    ASSUME NEW m, NEW n, NEW hash, NEW K, MapTable(m, n, hash, K)
    PROVE  /\ n \in Nat \ {0} /\ DOMAIN m.first = 0 .. n - 1 /\ DOMAIN m.second = 0 .. n - 1
           /\ EndIndex(m) = n /\ Empty \notin K
           /\ \A i \in 0 .. n - 1 : m.first[i] \in K \cup {Empty}
           /\ \A k \in K : hash[k] \in Nat
BY CapacityIs DEF MapTable, IsTable, EndIndex, NoMarks

LEMMA EntryOf ==
    ASSUME NEW m, NEW n, NEW hash, NEW K, MapTable(m, n, hash, K), NEW k, NEW v
    PROVE  <<k, v>> \in Entries(m) <=>
               k # Empty /\ \E i \in 0 .. n - 1 : m.first[i] = k /\ m.second[i] = v
BY MapParts DEF Entries

LEMMA MapHasRoom ==
    ASSUME NEW m, NEW n, NEW hash, NEW K, IsMap(m, n, hash, K)
    PROVE  MapTable(m, n, hash, K) /\ UsedBy(m, n) # 0 .. n - 1
<1>1. n \in Nat \ {0} /\ m.size < n
  BY MapParts DEF IsMap
<1> QED BY <1>1, UsedIsFinite DEF IsMap, UsedBy

LEMMA FindIs ==
    ASSUME NEW m, NEW n, NEW hash, NEW K, MapTable(m, n, hash, K), UsedBy(m, n) # 0 .. n - 1,
           NEW k \in K, NEW r, r = Find(m, hash, k)
    PROVE  \/ r = n /\ \A j \in 0 .. n - 1 : m.first[j] # k
           \/ r \in 0 .. n - 1 /\ m.first[r] = k
<1>1. PICK b : b = m.first
  OBVIOUS
<1>2. PICK stops : stops = {Empty, k}
  OBVIOUS
<1>3. PICK i : i = Probe(b, hash[k], stops)
  OBVIOUS
<1>4. i \in 0 .. n - 1 /\ (b[i] = Empty \/ b[i] = k) /\ \A j \in 0 .. n - 1 : b[j] = k => i = j
  <2>1. IsTable(b, n, hash, K, Empty, NoMarks)
    BY <1>1 DEF MapTable
  <2>2. PICK o \in 0 .. n - 1 : b[o] = Empty
    BY <1>1 DEF UsedBy, Used
  <2>3. k \in stops /\ Empty \in stops /\ \A x \in stops : x = Empty \/ x = k
    BY <1>2
  <2> QED BY ONLY <2>1, <2>2, <2>3, <1>3, ProbeFinds, k \in K
<1>5. r = IF b[i] = Empty THEN n ELSE i
  BY <1>1, <1>2, <1>3, MapParts DEF Find
<1>6. k # Empty
  BY MapParts
<1> QED BY <1>1, <1>4, <1>5, <1>6

\* Find of the sentinel finds nothing.
LEMMA FindSentinel ==
    ASSUME NEW m, NEW n, NEW hash, NEW K, MapTable(m, n, hash, K), UsedBy(m, n) # 0 .. n - 1,
           hash[Empty] \in Nat
    PROVE  Find(m, hash, Empty) = n
<1>1. PICK o \in 0 .. n - 1 : m.first[o] = Empty
  BY DEF Used, UsedBy
<1> DEFINE i == Probe(m.first, hash[Empty], {Empty, Empty})
<1>2. Stops(m.first, hash[Empty], n, {Empty, Empty}, i)
  BY <1>1, MapParts, ProbeStops
<1>3. m.first[i] = Empty
  BY <1>2, MapParts, StopIsBucket
<1> QED BY <1>3, MapParts DEF Find

\* Put into an empty bucket.
LEMMA PutIs ==
    ASSUME NEW m, NEW n, NEW hash, NEW K, MapTable(m, n, hash, K), NEW k \in K, NEW v,
           \A j \in 0 .. n - 1 : m.first[j] # k,
           NEW i, Reaches(m.first, hash[k], n, Empty, i), m.first[i] = Empty,
           NEW t, t = Put(m, i, k, v)
    PROVE  /\ MapTable(t, n, hash, K) /\ t.size = m.size + 1
           /\ Entries(t) = Entries(m) \cup {<<k, v>>}
           /\ Cardinality(UsedBy(t, n)) = Cardinality(UsedBy(m, n)) + 1
<1> DEFINE b == m.first
           c == t.first
<1>0. /\ n \in Nat \ {0} /\ DOMAIN b = 0 .. n - 1 /\ DOMAIN m.second = 0 .. n - 1
      /\ hash[k] \in Nat /\ k # Empty /\ IsTable(b, n, hash, K, Empty, NoMarks)
  <2>1. k # Empty
    BY MapParts
  <2> QED BY <2>1, MapParts DEF MapTable
<1>1. i \in 0 .. n - 1 /\ b[i] = Empty
  BY DEF Reaches
<1>2. c = [b EXCEPT ![i] = k] /\ t.second = [m.second EXCEPT ![i] = v] /\ t.size = m.size + 1
  BY DEF Put
<1>a. Written(c, b, i, k)
  BY <1>2 DEF Written
<1>3. MapTable(t, n, hash, K)
  <2>1. IsTable(c, n, hash, K, Empty, NoMarks)
    <3>1. Reaches(b, hash[k], n, Empty, i) /\ \A j \in 0 .. n - 1 : b[j] # k
      OBVIOUS
    <3> HIDE DEF b, c
    <3> QED BY <1>0, <1>a, <3>1, EnterKey
  <2> QED BY <1>0, <1>2, <2>1 DEF MapTable
<1>4. /\ t.first[i] = k /\ t.second[i] = v
      /\ \A j \in 0 .. n - 1 : j # i => t.first[j] = m.first[j] /\ t.second[j] = m.second[j]
  BY <1>0, <1>1, <1>2
<1>5. Entries(t) = Entries(m) \cup {<<k, v>>}
  <2>1. DOMAIN t.first = 0 .. n - 1
    BY <1>3, MapParts
  <2> QED BY <1>0, <1>1, <1>4, <2>1 DEF Entries
<1>6. Cardinality(UsedBy(t, n)) = Cardinality(UsedBy(m, n)) + 1
  <2>1. Cardinality(Used(c, n, Empty)) = Cardinality(Used(b, n, Empty)) + 1
    <3>1. n \in Nat
      BY <1>0
    <3> HIDE DEF b, c
    <3> QED BY <1>0, <1>1, <1>a, <3>1, UseOne
  <2> QED BY <2>1 DEF UsedBy
<1> QED BY <1>2, <1>3, <1>5, <1>6

LEMMA InsertIs ==
    ASSUME NEW m, NEW n, NEW hash, NEW K, MapTable(m, n, hash, K), NEW k \in K, NEW v,
           \A j \in 0 .. n - 1 : m.first[j] # k, UsedBy(m, n) # 0 .. n - 1,
           NEW t, t = InsertWithoutGrow(m, hash, k, v)
    PROVE  /\ MapTable(t, n, hash, K) /\ t.size = m.size + 1
           /\ Entries(t) = Entries(m) \cup {<<k, v>>}
           /\ Cardinality(UsedBy(t, n)) = Cardinality(UsedBy(m, n)) + 1
<1>1. PICK o \in 0 .. n - 1 : m.first[o] = Empty
  BY DEF Used, UsedBy
<1> DEFINE b     == m.first
           stops == {Empty}
           i     == Probe(b, hash[k], stops)
<1>2. t = Put(m, i, k, v)
  BY DEF InsertWithoutGrow
<1>3. b[i] \in stops /\ Reaches(b, hash[k], n, Empty, i)
  <2>1. /\ n \in Nat \ {0} /\ DOMAIN b = 0 .. n - 1 /\ hash[k] \in Nat
        /\ Empty \in stops /\ b[o] = Empty
    BY <1>1, MapParts
  <2> HIDE DEF b, stops
  <2> QED BY <2>1, ProbeReaches
<1>4. Reaches(m.first, hash[k], n, Empty, i) /\ m.first[i] = Empty
  BY <1>3
<1> HIDE DEF i
<1> QED BY <1>2, <1>4, PutIs

\* One iteration of a rehash of m into t.
Moved(t, m, hash, i) ==
    IF m.first[i] = Empty THEN t ELSE InsertWithoutGrow(t, hash, m.first[i], m.second[i])

RehashRun(f, m, n, hash, requested) ==
    /\ f[0] = Blank(CapacityFor(requested))
    /\ \A i \in 1 .. n : f[i] = Moved(f[i - 1], m, hash, i - 1)
    /\ Rehash(m, hash, requested) = f[n]

LEMMA RehashRuns ==
    ASSUME NEW m, NEW n, NEW hash, NEW K, MapTable(m, n, hash, K), NEW requested \in Nat
    PROVE  \E f : RehashRun(f, m, n, hash, requested)
<1> DEFINE c    == CapacityFor(requested)
           V    == {m.second[i] : i \in 0 .. n - 1} \cup {NoValue}
           S    == [first : [0 .. c - 1 -> K \cup {Empty}], second : [0 .. c - 1 -> V], size : Nat]
           body == [i \in 1 .. n |-> [t \in S |-> Moved(t, m, hash, i - 1)]]
           base == Blank(c)
<1>1. base \in S
  BY DEF Blank
<1>2. IsBody(body, 1 .. n, S)
  <2>1. ASSUME NEW i \in 1 .. n, NEW t \in S PROVE Moved(t, m, hash, i - 1) \in S
    <3>1. i - 1 \in 0 .. n - 1 /\ m.first[i - 1] \in K \cup {Empty} /\ m.second[i - 1] \in V
      BY MapParts
    <3> DEFINE k == m.first[i - 1]
               v == m.second[i - 1]
               p == Probe(t.first, hash[k], {Empty})
    <3>2. Moved(t, m, hash, i - 1) =
              IF k = Empty THEN t
              ELSE [first |-> [t.first EXCEPT ![p] = k], second |-> [t.second EXCEPT ![p] = v],
                    size |-> t.size + 1]
      BY DEF Moved, InsertWithoutGrow, Put
    <3>3. k \in K \cup {Empty} /\ v \in V
      BY <3>1
    <3> HIDE DEF k, v, p, V, c
    <3>4. CASE k = Empty
      BY <3>2, <3>4
    <3>5. CASE k # Empty
      <4>1. k \in K
        BY <3>3, <3>5
      <4>2. t.first \in [0 .. c - 1 -> K \cup {Empty}] /\ t.second \in [0 .. c - 1 -> V] /\ t.size \in Nat
        OBVIOUS
      <4>3. [t.first EXCEPT ![p] = k] \in [0 .. c - 1 -> K \cup {Empty}]
        BY <4>1, <4>2
      <4>4. [t.second EXCEPT ![p] = v] \in [0 .. c - 1 -> V]
        BY <3>3, <4>2
      <4>5. t.size + 1 \in Nat
        BY <4>2
      <4> DEFINE x == [t.first EXCEPT ![p] = k]
                 y == [t.second EXCEPT ![p] = v]
                 z == t.size + 1
      <4>6. Moved(t, m, hash, i - 1) = [first |-> x, second |-> y, size |-> z]
        BY <3>2, <3>5
      <4> HIDE DEF x, y, z
      <4>7. [first |-> x, second |-> y, size |-> z] \in S
        BY <4>3, <4>4, <4>5 DEF x, y, z
      <4> QED BY <4>6, <4>7
    <3> QED BY <3>4, <3>5
  <2> HIDE DEF S
  <2> QED BY <2>1 DEF IsBody
<1>3. n \in Nat
  BY MapParts
<1>4. PICK f \in [0 .. n -> S] : IsRun(f, base, body, 1 .. n)
  <2> HIDE DEF base, body, S
  <2>1. Runs(base, body, n, S)
    BY <1>1, <1>2, <1>3, LoopRuns
  <2> QED BY <2>1 DEF Runs
<1>5. f[0] = base /\ \A i \in 1 .. n : f[i] = Moved(f[i - 1], m, hash, i - 1)
  <2>1. ASSUME NEW i \in 1 .. n PROVE f[i] = Moved(f[i - 1], m, hash, i - 1)
    <3>1. i - 1 \in 0 .. n /\ f[i - 1] \in S
      <4> HIDE DEF S
      <4> QED BY <1>3
    <3>2. body[i][f[i - 1]] = Moved(f[i - 1], m, hash, i - 1)
      <4> HIDE DEF S
      <4> QED BY <3>1
    <3> HIDE DEF S, base, body
    <3> QED BY <1>4, <3>2 DEF IsRun
  <2> HIDE DEF S, base, body
  <2> QED BY <1>4, <2>1 DEF IsRun
<1> DEFINE Solves(g) ==
        g = [i \in 0 .. EndIndex(m) |->
                IF i = 0 THEN Blank(CapacityFor(requested))
                ELSE IF m.first[i - 1] = Empty THEN g[i - 1]
                ELSE InsertWithoutGrow(g[i - 1], hash, m.first[i - 1], m.second[i - 1])]
           moved == CHOOSE g : Solves(g)
<1>6. EndIndex(m) = n
  BY MapParts
<1>7. Solves(f)
  <2>1. \A i \in 0 .. n : f[i] =
            IF i = 0 THEN Blank(CapacityFor(requested))
            ELSE IF m.first[i - 1] = Empty THEN f[i - 1]
            ELSE InsertWithoutGrow(f[i - 1], hash, m.first[i - 1], m.second[i - 1])
    BY <1>3, <1>5 DEF Moved
  <2> HIDE DEF S
  <2> QED BY <1>6, <2>1
<1>8. Solves(moved)
  <2> HIDE DEF Solves
  <2> QED BY <1>7
<1>9. Rehash(m, hash, requested) = moved[n]
  BY <1>6 DEF Rehash
<1> HIDE DEF moved
<1>10. RehashRun(moved, m, n, hash, requested)
  <2>1. \A i \in 0 .. n : moved[i] =
            IF i = 0 THEN Blank(CapacityFor(requested))
            ELSE IF m.first[i - 1] = Empty THEN moved[i - 1]
            ELSE InsertWithoutGrow(moved[i - 1], hash, m.first[i - 1], m.second[i - 1])
    BY <1>6, <1>8
  <2> QED BY <1>3, <1>9, <2>1 DEF RehashRun, Moved
<1> QED BY <1>10

\* The used ones of the first i buckets, bucket by bucket.
LEMMA UsedUpTo ==
    ASSUME NEW b, NEW n \in Nat, NEW i \in 0 .. n - 1, NEW empty
    PROVE  /\ b[i] = empty => Used(b, i + 1, empty) = Used(b, i, empty)
           /\ b[i] # empty => Used(b, i + 1, empty) = Used(b, i, empty) \cup {i}
BY DEF Used

LEMMA UsedCount ==
    ASSUME NEW b, NEW n \in Nat, NEW i \in 0 .. n - 1, NEW empty, b[i] # empty
    PROVE  /\ Cardinality(Used(b, i + 1, empty)) = Cardinality(Used(b, i, empty)) + 1
           /\ Cardinality(Used(b, i, empty)) < Cardinality(Used(b, n, empty))
<1>1. Used(b, i + 1, empty) = Used(b, i, empty) \cup {i} /\ i \notin Used(b, i, empty)
  BY UsedUpTo DEF Used
<1>2. i \in Nat /\ i + 1 \in Nat
  OBVIOUS
<1>3. IsFiniteSet(Used(b, i, empty)) /\ IsFiniteSet(Used(b, n, empty))
  BY <1>2, UsedIsFinite
<1>4. Cardinality(Used(b, i + 1, empty)) = Cardinality(Used(b, i, empty)) + 1
  BY <1>1, <1>3, FS_AddElement
<1>5. Used(b, i + 1, empty) \subseteq Used(b, n, empty)
  BY DEF Used
<1>6. Cardinality(Used(b, i + 1, empty)) <= Cardinality(Used(b, n, empty))
  BY <1>3, <1>5, FS_Subset
<1>7. Cardinality(Used(b, i, empty)) \in Nat /\ Cardinality(Used(b, n, empty)) \in Nat
  BY <1>2, UsedIsFinite
<1> QED BY <1>4, <1>6, <1>7

EntriesUpTo(m, i) == {<<m.first[j], m.second[j]>> : j \in Used(m.first, i, Empty)}

\* What a rehash of m has got after i buckets.
HasMoved(u, c, m, i, hash, K) ==
    /\ MapTable(u, c, hash, K) /\ Entries(u) = EntriesUpTo(m, i)
    /\ u.size = Cardinality(Used(m.first, i, Empty)) /\ Cardinality(UsedBy(u, c)) = u.size

LEMMA BlankIs ==
    ASSUME NEW c \in Nat \ {0}, NEW hash, NEW K, Empty \notin K, \A k \in K : hash[k] \in Nat,
           NEW t, t = Blank(c)
    PROVE  /\ MapTable(t, c, hash, K) /\ Entries(t) = {} /\ t.size = 0
           /\ Cardinality(UsedBy(t, c)) = 0
<1>1. t.first = [i \in 0 .. c - 1 |-> Empty] /\ DOMAIN t.second = 0 .. c - 1 /\ t.size = 0
  BY DEF Blank
<1>2. PICK b : b = t.first
  OBVIOUS
<1>3. Empty \notin K \cup NoMarks /\ K \cap NoMarks = {}
  BY DEF NoMarks
<1>4. IsTable(b, c, hash, K, Empty, NoMarks) /\ Used(b, c, Empty) = {}
  BY <1>1, <1>2, <1>3, EmptyTable
<1>5. MapTable(t, c, hash, K) /\ UsedBy(t, c) = {}
  BY <1>1, <1>2, <1>4 DEF MapTable, UsedBy
<1>6. Entries(t) = {}
  BY <1>1 DEF Entries
<1> QED BY <1>1, <1>5, <1>6, FS_EmptySet

LEMMA RehashStep ==
    ASSUME NEW m, NEW n, NEW hash, NEW K, MapTable(m, n, hash, K), NEW c \in Nat \ {0},
           Cardinality(UsedBy(m, n)) <= c, NEW i \in 0 .. n - 1,
           NEW u, HasMoved(u, c, m, i, hash, K), NEW w, w = Moved(u, m, hash, i)
    PROVE  HasMoved(w, c, m, i + 1, hash, K)
<1>1. PICK b : b = m.first
  OBVIOUS
<1>2. n \in Nat /\ i \in Nat /\ b[i] \in K \cup {Empty}
  BY <1>1, MapParts
<1>3. CASE b[i] = Empty
  <2>1. Used(b, i + 1, Empty) = Used(b, i, Empty)
    BY <1>2, <1>3, UsedUpTo
  <2>2. w = u
    BY <1>1, <1>3 DEF Moved
  <2> QED BY <1>1, <2>1, <2>2 DEF HasMoved, EntriesUpTo
<1>4. CASE b[i] # Empty
  <2>1. PICK k : k = b[i]
    OBVIOUS
  <2>2. PICK v : v = m.second[i]
    OBVIOUS
  <2>3. k \in K /\ k # Empty
    BY <1>2, <1>4, <2>1
  <2>4. w = InsertWithoutGrow(u, hash, k, v)
    BY <1>1, <1>4, <2>1, <2>2 DEF Moved
  <2>5. MapTable(u, c, hash, K)
    BY DEF HasMoved
  <2>6. ASSUME NEW j \in 0 .. c - 1, u.first[j] = k PROVE FALSE
    <3>1. <<k, u.second[j]>> \in EntriesUpTo(m, i)
      BY <2>3, <2>5, <2>6, EntryOf DEF HasMoved
    <3>2. PICK l \in Used(b, i, Empty) : k = b[l]
      BY <1>1, <3>1 DEF EntriesUpTo
    <3>3. l \in 0 .. n - 1 /\ l < i /\ NoneTwice(b, n, K)
      BY <1>1, <1>2, <3>2 DEF Used, MapTable, IsTable
    <3>4. b[l] \in K /\ b[l] = b[i]
      BY <2>1, <2>3, <3>2
    <3>5. l = i
      BY <3>3, <3>4 DEF NoneTwice
    <3> QED BY <1>2, <3>3, <3>5
  <2>7. /\ Cardinality(Used(b, i + 1, Empty)) = Cardinality(Used(b, i, Empty)) + 1
        /\ Cardinality(Used(b, i, Empty)) < Cardinality(Used(b, n, Empty))
    BY <1>2, <1>4, UsedCount
  <2>8. UsedBy(u, c) # 0 .. c - 1
    <3>1. Cardinality(UsedBy(u, c)) = Cardinality(Used(b, i, Empty))
      BY <1>1 DEF HasMoved
    <3>2. Cardinality(UsedBy(m, n)) = Cardinality(Used(b, n, Empty))
      BY <1>1 DEF UsedBy
    <3>3. Cardinality(Used(b, i, Empty)) \in Nat /\ Cardinality(Used(b, n, Empty)) \in Nat
      BY <1>2, UsedIsFinite
    <3>4. PICK x : x = u.first
      OBVIOUS
    <3>5. PICK y \in Nat : y = Cardinality(Used(b, i, Empty))
      BY <3>3
    <3>6. Cardinality(Used(x, c, Empty)) <= y /\ y < c
      BY <2>7, <3>1, <3>2, <3>3, <3>4, <3>5 DEF UsedBy
    <3>7. Used(x, c, Empty) # 0 .. c - 1
      BY <3>5, <3>6, UsedIsFinite
    <3> QED BY <3>4, <3>7 DEF UsedBy
  <2>9. /\ MapTable(w, c, hash, K) /\ w.size = u.size + 1
        /\ Entries(w) = Entries(u) \cup {<<k, v>>}
        /\ Cardinality(UsedBy(w, c)) = Cardinality(UsedBy(u, c)) + 1
    BY <2>3, <2>4, <2>5, <2>6, <2>8, InsertIs
  <2>10. EntriesUpTo(m, i + 1) = EntriesUpTo(m, i) \cup {<<k, v>>}
    <3>1. Used(b, i + 1, Empty) = Used(b, i, Empty) \cup {i}
      BY <1>2, <1>4, UsedUpTo
    <3> QED BY <1>1, <2>1, <2>2, <3>1 DEF EntriesUpTo
  <2> QED BY <1>1, <2>7, <2>9, <2>10 DEF HasMoved
<1> QED BY <1>3, <1>4

\* A rehash keeps every entry, and counts them.
LEMMA RehashIs ==
    ASSUME NEW m, NEW n, NEW hash, NEW K, MapTable(m, n, hash, K), NEW requested \in Nat,
           NEW c, c = CapacityFor(requested), Cardinality(UsedBy(m, n)) <= c,
           NEW t, t = Rehash(m, hash, requested)
    PROVE  /\ MapTable(t, c, hash, K) /\ Entries(t) = Entries(m)
           /\ t.size = Cardinality(UsedBy(m, n)) /\ Cardinality(UsedBy(t, c)) = t.size
<1>1. PICK f : RehashRun(f, m, n, hash, requested)
  BY RehashRuns
<1>2. c \in Nat \ {0} /\ n \in Nat
  BY CapacityForIs, MapParts
<1> DEFINE T == {i \in 0 .. n : HasMoved(f[i], c, m, i, hash, K)}
<1>3. 0 \in T
  <2>1. f[0] = Blank(c)
    BY <1>1 DEF RehashRun
  <2>2. Empty \notin K /\ \A k \in K : hash[k] \in Nat
    BY MapParts
  <2>3. /\ MapTable(f[0], c, hash, K) /\ Entries(f[0]) = {} /\ f[0].size = 0
        /\ Cardinality(UsedBy(f[0], c)) = 0
    BY <1>2, <2>1, <2>2, BlankIs
  <2>4. Used(m.first, 0, Empty) = {}
    BY DEF Used
  <2>5. EntriesUpTo(m, 0) = {} /\ Cardinality(Used(m.first, 0, Empty)) = 0
    BY <2>4, FS_EmptySet DEF EntriesUpTo
  <2> QED BY <1>2, <2>3, <2>5 DEF HasMoved
<1>4. ASSUME NEW i \in 0 .. n - 1, i \in T PROVE i + 1 \in T
  <2>1. i + 1 \in 1 .. n /\ (i + 1) - 1 = i
    BY <1>2
  <2>2. f[i + 1] = Moved(f[i], m, hash, i)
    BY <1>1, <2>1 DEF RehashRun
  <2>3. HasMoved(f[i], c, m, i, hash, K)
    BY <1>4
  <2>4. HasMoved(f[i + 1], c, m, i + 1, hash, K)
    BY <1>2, <2>2, <2>3, RehashStep
  <2> QED BY <2>1, <2>4
<1>5. HasMoved(f[n], c, m, n, hash, K)
  <2> HIDE DEF T
  <2>1. 0 .. n \subseteq T
    BY <1>2, <1>3, <1>4, InductionUpTo
  <2> QED BY <1>2, <2>1 DEF T
<1>6. t = f[n]
  BY <1>1 DEF RehashRun
<1>7. EntriesUpTo(m, n) = Entries(m)
  BY MapParts DEF EntriesUpTo, Entries, Used
<1> QED BY <1>5, <1>6, <1>7 DEF HasMoved, UsedBy

-----------------------------------------------------------------------------
(* The calls of the hash map.                                                 *)

LEMMA PowerIsEven ==
    ASSUME NEW n \in Nat, IsPow2(n), n >= 8
    PROVE  \E q \in Nat : n = 2 * q
<1>1. PICK e \in Nat : n = Pow2[e]
BY DEF IsPow2
<1>2. e # 0
BY <1>1, Pow2Is
<1>3. e - 1 \in Nat /\ (e - 1) + 1 = e
BY <1>2
<1> QED BY <1>1, <1>3, Pow2Is

LEMMA EvenPow2 ==
    ASSUME NEW n \in Nat, IsPow2(n), n >= 8
    PROVE  \A u \in Nat : u > n \div 2 <=> 2 * u > n
<1>1. PICK q \in Nat : n = 2 * q
BY PowerIsEven
<1>2. n \div 2 = q
BY <1>1
<1> QED BY <1>1, <1>2

LEMMA NewIs ==
    ASSUME NEW hash, NEW K, Empty \notin K, \A k \in K : hash[k] \in Nat, NEW t, t = New
    PROVE  IsMap(t, 8, hash, K) /\ Entries(t) = {} /\ IsCounted(t, 8)
<1>1. t = Blank(8) /\ 8 \in Nat \ {0}
  BY DEF New, MinCapacity
<1>2. /\ MapTable(t, 8, hash, K) /\ Entries(t) = {} /\ t.size = 0
      /\ Cardinality(UsedBy(t, 8)) = 0
  BY <1>1, BlankIs
<1> QED BY <1>2, EightIsPow2 DEF IsMap, IsCounted

LEMMA ClearIs ==
    ASSUME NEW m, NEW n, NEW hash, NEW K, IsMap(m, n, hash, K), NEW t, t = Clear(m)
    PROVE  IsMap(t, n, hash, K) /\ Entries(t) = {} /\ IsCounted(t, n)
<1>1. MapTable(m, n, hash, K)
  BY DEF IsMap
<1>2. n \in Nat \ {0} /\ EndIndex(m) = n /\ Empty \notin K /\ \A k \in K : hash[k] \in Nat
  BY <1>1, MapParts
<1>3. t = Blank(n)
  BY <1>2 DEF Clear
<1>4. /\ MapTable(t, n, hash, K) /\ Entries(t) = {} /\ t.size = 0
      /\ Cardinality(UsedBy(t, n)) = 0
  BY <1>2, <1>3, BlankIs
<1> QED BY <1>2, <1>4 DEF IsMap, IsCounted

\* A map that is rehashed to at least as many buckets is a map again.
LEMMA RehashIsMap ==
    ASSUME NEW m, NEW n, NEW hash, NEW K, IsMap(m, n, hash, K), NEW requested \in Nat,
           NEW c, c = CapacityFor(requested), requested >= n,
           NEW t, t = Rehash(m, hash, requested)
    PROVE  /\ IsMap(t, c, hash, K) /\ Entries(t) = Entries(m)
           /\ t.size <= m.size /\ t.size = Cardinality(UsedBy(m, n)) /\ IsCounted(t, c)
<1>1. MapTable(m, n, hash, K) /\ Cardinality(UsedBy(m, n)) <= m.size /\ 2 * m.size <= n
      /\ m.size \in Nat
  BY DEF IsMap
<1>2. c \in Nat \ {0} /\ c >= requested /\ c >= 8 /\ IsPow2(c)
  BY CapacityForIs
<1>3. n \in Nat /\ Cardinality(UsedBy(m, n)) \in Nat
  <2>1. n \in Nat
    BY <1>1, MapParts
  <2> QED BY <2>1, UsedIsFinite DEF UsedBy
<1>4. Cardinality(UsedBy(m, n)) <= c
  BY <1>1, <1>2, <1>3
<1>5. /\ MapTable(t, c, hash, K) /\ Entries(t) = Entries(m)
      /\ t.size = Cardinality(UsedBy(m, n)) /\ Cardinality(UsedBy(t, c)) = t.size
  BY <1>1, <1>4, RehashIs
<1> QED BY <1>1, <1>2, <1>3, <1>5 DEF IsMap, IsCounted

\* The buckets of a map after it has made room for one more entry.
Grown(m, n) == IF 2 * (m.size + 1) > n THEN 2 * n ELSE n

LEMMA GrowthIs ==
    ASSUME NEW m, NEW n, NEW hash, NEW K, IsMap(m, n, hash, K), NEW c, c = Grown(m, n),
           NEW t, t = MaybeRehash(m, hash)
    PROVE  /\ IsMap(t, c, hash, K) /\ Entries(t) = Entries(m) /\ 2 * (t.size + 1) <= c
           /\ c = n => t = m
           /\ c # n => t.size = Cardinality(UsedBy(m, n)) /\ IsCounted(t, c)
<1>1. /\ MapTable(m, n, hash, K) /\ IsPow2(n) /\ n >= 8 /\ m.size \in Nat
      /\ 2 * m.size <= n
  BY DEF IsMap
<1>2. n \in Nat \ {0} /\ EndIndex(m) = n
  BY <1>1, MapParts
<1>3. m.size + 1 > n \div 2 <=> 2 * (m.size + 1) > n
  BY <1>1, <1>2, EvenPow2
<1>4. CASE 2 * (m.size + 1) > n
  <2>1. t = Rehash(m, hash, 2 * n) /\ c = 2 * n
    BY <1>2, <1>3, <1>4 DEF MaybeRehash, Grown
  <2>2. 2 * n \in Nat /\ 2 * n >= 8 /\ 2 * n >= n
    BY <1>1, <1>2
  <2>3. IsPow2(2 * n)
    BY <1>1, <1>2, TwicePow2
  <2>4. CapacityFor(2 * n) = 2 * n
    BY <2>2, <2>3, CapacityForIs
  <2>5. /\ IsMap(t, c, hash, K) /\ Entries(t) = Entries(m) /\ t.size <= m.size
        /\ t.size = Cardinality(UsedBy(m, n)) /\ IsCounted(t, c)
    BY <2>1, <2>2, <2>4, RehashIsMap
  <2>6. t.size \in Nat
    BY <2>5 DEF IsMap
  <2>7. 2 * (t.size + 1) <= c
    BY <1>1, <1>2, <2>1, <2>5, <2>6
  <2> QED BY <1>2, <2>1, <2>5, <2>7
<1>5. CASE ~(2 * (m.size + 1) > n)
  <2>1. t = m /\ c = n
    BY <1>2, <1>3, <1>5 DEF MaybeRehash, Grown
  <2> QED BY <1>1, <1>2, <1>5, <2>1
<1> QED BY <1>4, <1>5

\* A key that is not there, entered into a map that has room for it.
LEMMA PutIsMap ==
    ASSUME NEW m, NEW n, NEW hash, NEW K, IsMap(m, n, hash, K), 2 * (m.size + 1) <= n,
           NEW k \in K, NEW v, \A j \in 0 .. n - 1 : m.first[j] # k,
           NEW i, Reaches(m.first, hash[k], n, Empty, i), m.first[i] = Empty,
           NEW t, t = Put(m, i, k, v)
    PROVE  /\ IsMap(t, n, hash, K) /\ Entries(t) = Entries(m) \cup {<<k, v>>}
           /\ t.size = m.size + 1 /\ (IsCounted(m, n) => IsCounted(t, n))
<1>1. /\ MapTable(m, n, hash, K) /\ IsPow2(n) /\ n >= 8 /\ m.size \in Nat
      /\ Cardinality(UsedBy(m, n)) <= m.size
  BY DEF IsMap
<1>2. /\ MapTable(t, n, hash, K) /\ t.size = m.size + 1
      /\ Entries(t) = Entries(m) \cup {<<k, v>>}
      /\ Cardinality(UsedBy(t, n)) = Cardinality(UsedBy(m, n)) + 1
  BY <1>1, PutIs
<1>3. Cardinality(UsedBy(m, n)) \in Nat
  <2>1. n \in Nat
    BY <1>1, MapParts
  <2> QED BY <2>1, UsedIsFinite DEF UsedBy
<1> QED BY <1>1, <1>2, <1>3 DEF IsMap, IsCounted

\* The map lacks k, or has it.
Lacks(m, n, k) == \A j \in 0 .. n - 1 : m.first[j] # k

LEMMA LacksEntry ==
    ASSUME NEW m, NEW n, NEW hash, NEW K, MapTable(m, n, hash, K), NEW k \in K
    PROVE  Lacks(m, n, k) <=> \A v : <<k, v>> \notin Entries(m)
<1>1. k # Empty
  BY MapParts
<1>2. ASSUME Lacks(m, n, k), NEW v, <<k, v>> \in Entries(m) PROVE FALSE
  BY <1>2, EntryOf DEF Lacks
<1>3. ASSUME NEW j \in 0 .. n - 1, m.first[j] = k
      PROVE  <<k, m.second[j]>> \in Entries(m)
  BY <1>1, <1>3, EntryOf
<1> QED BY <1>2, <1>3 DEF Lacks

LEMMA EmplaceIs ==
    ASSUME NEW m, NEW n, NEW hash, NEW K, IsMap(m, n, hash, K), NEW k \in K, NEW v,
           Lacks(m, n, k), NEW t, t = Emplace(m, hash, k, v)
    PROVE  /\ IsMap(t, Grown(m, n), hash, K) /\ Entries(t) = Entries(m) \cup {<<k, v>>}
           /\ IsCounted(m, n) => IsCounted(t, Grown(m, n))
<1>1. MapTable(m, n, hash, K) /\ UsedBy(m, n) # 0 .. n - 1
  BY MapHasRoom
<1>2. Find(m, hash, k) = n /\ EndIndex(m) = n
  <2>1. PICK r : r = Find(m, hash, k)
    OBVIOUS
  <2>2. r = n
    BY <1>1, <2>1, FindIs DEF Lacks
  <2> QED BY <1>1, <2>1, <2>2, MapParts
<1>3. PICK u : u = MaybeRehash(m, hash)
  OBVIOUS
<1>4. PICK c : c = Grown(m, n)
  OBVIOUS
<1>5. IsMap(u, c, hash, K) /\ Entries(u) = Entries(m) /\ 2 * (u.size + 1) <= c
  BY <1>3, <1>4, GrowthIs
<1>6. MapTable(u, c, hash, K) /\ UsedBy(u, c) # 0 .. c - 1
  BY <1>5, MapHasRoom
<1>7. Lacks(u, c, k)
  BY <1>1, <1>5, <1>6, LacksEntry
<1>8. PICK o \in 0 .. c - 1 : u.first[o] = Empty
  BY <1>6 DEF Used, UsedBy
<1>9. PICK stops : stops = {Empty}
  OBVIOUS
<1>10. PICK i : i = Probe(u.first, hash[k], stops)
  OBVIOUS
<1>11. t = Put(u, i, k, v)
  BY <1>2, <1>3, <1>9, <1>10 DEF Emplace, InsertWithoutGrow
<1>12. u.first[i] = Empty /\ Reaches(u.first, hash[k], c, Empty, i)
  <2>1. PICK b : b = u.first
    OBVIOUS
  <2>2. c \in Nat \ {0} /\ DOMAIN b = 0 .. c - 1 /\ hash[k] \in Nat
    BY <1>6, <2>1, MapParts
  <2>3. Empty \in stops /\ b[o] = Empty
    BY <1>8, <1>9, <2>1
  <2>4. b[i] \in stops /\ Reaches(b, hash[k], c, Empty, i)
    BY <1>10, <2>1, <2>2, <2>3, ProbeReaches
  <2> QED BY <1>9, <2>1, <2>4
<1>13. /\ IsMap(t, c, hash, K) /\ Entries(t) = Entries(u) \cup {<<k, v>>}
       /\ IsCounted(u, c) => IsCounted(t, c)
  <2>1. IsMap(u, c, hash, K) /\ 2 * (u.size + 1) <= c
    BY <1>5
  <2>2. \A j \in 0 .. c - 1 : u.first[j] # k
    BY <1>7 DEF Lacks
  <2> QED BY ONLY <2>1, <2>2, <1>11, <1>12, PutIsMap, k \in K
<1>14. IsCounted(m, n) => IsCounted(u, c)
  BY <1>3, <1>4, GrowthIs
<1> QED BY <1>4, <1>5, <1>13, <1>14

\* What emplace leaves alone.
LEMMA EmplaceOld ==
    ASSUME NEW m, NEW n, NEW hash, NEW K, IsMap(m, n, hash, K), NEW k \in K, NEW v,
           ~Lacks(m, n, k)
    PROVE  Emplace(m, hash, k, v) = m
<1>1. MapTable(m, n, hash, K) /\ UsedBy(m, n) # 0 .. n - 1
  BY MapHasRoom
<1>2. PICK r : r = Find(m, hash, k)
  OBVIOUS
<1>3. r \in 0 .. n - 1
  BY <1>1, <1>2, FindIs DEF Lacks
<1>4. n \in Nat /\ EndIndex(m) = n
  BY <1>1, MapParts
<1> QED BY <1>2, <1>3, <1>4 DEF Emplace

\* m[k] = v of a key that is not there.  As long as the table does not grow
\* the entry takes an empty bucket and the others stay where they are.
LEMMA AssignIs ==
    ASSUME NEW m, NEW n, NEW hash, NEW K, IsMap(m, n, hash, K), NEW k \in K, NEW v,
           Lacks(m, n, k), NEW t, t = Assign(m, hash, k, v), NEW c, c = Grown(m, n)
    PROVE  /\ IsMap(t, c, hash, K) /\ Entries(t) = Entries(m) \cup {<<k, v>>}
           /\ t.size = (IF c = n THEN m.size ELSE Cardinality(UsedBy(m, n))) + 1
           /\ c = n => \E i \in 0 .. n - 1 : m.first[i] = Empty /\ t = Put(m, i, k, v)
<1>1. MapTable(m, n, hash, K)
  BY MapHasRoom
<1>2. PICK u : u = MaybeRehash(m, hash)
  OBVIOUS
<1>3. /\ IsMap(u, c, hash, K) /\ Entries(u) = Entries(m) /\ 2 * (u.size + 1) <= c
      /\ c = n => u = m
      /\ c # n => u.size = Cardinality(UsedBy(m, n))
  BY <1>2, GrowthIs
<1>4. MapTable(u, c, hash, K) /\ UsedBy(u, c) # 0 .. c - 1
  BY <1>3, MapHasRoom
<1>5. Lacks(u, c, k)
  BY <1>1, <1>3, <1>4, LacksEntry
<1>6. PICK o \in 0 .. c - 1 : u.first[o] = Empty
  BY <1>4 DEF Used, UsedBy
<1>7. PICK stops : stops = {Empty, k}
  OBVIOUS
<1>8. PICK i : i = Probe(u.first, hash[k], stops)
  OBVIOUS
<1>9. u.first[i] = Empty /\ Reaches(u.first, hash[k], c, Empty, i) /\ i \in 0 .. c - 1
  <2>1. PICK b : b = u.first
    OBVIOUS
  <2>2. c \in Nat \ {0} /\ DOMAIN b = 0 .. c - 1 /\ hash[k] \in Nat
    BY <1>4, <2>1, MapParts
  <2>3. Empty \in stops /\ b[o] = Empty
    BY <1>6, <1>7, <2>1
  <2>4. b[i] \in stops /\ Reaches(b, hash[k], c, Empty, i)
    BY <1>8, <2>1, <2>2, <2>3, ProbeReaches
  <2>5. i \in 0 .. c - 1
    BY <2>4 DEF Reaches
  <2>6. b[i] = Empty
    BY <1>5, <1>7, <2>1, <2>4, <2>5 DEF Lacks
  <2> QED BY <2>1, <2>4, <2>5, <2>6
<1>10. t = Put(u, i, k, v)
  BY <1>2, <1>7, <1>8, <1>9 DEF Assign
<1>11. IsMap(t, c, hash, K) /\ Entries(t) = Entries(u) \cup {<<k, v>>} /\ t.size = u.size + 1
  <2>1. IsMap(u, c, hash, K) /\ 2 * (u.size + 1) <= c
    BY <1>3
  <2>2. \A j \in 0 .. c - 1 : u.first[j] # k
    BY <1>5 DEF Lacks
  <2> QED BY ONLY <2>1, <2>2, <1>9, <1>10, PutIsMap, k \in K
<1>12. t.size = (IF c = n THEN m.size ELSE Cardinality(UsedBy(m, n))) + 1
  BY <1>3, <1>11
<1>13. c = n => \E j \in 0 .. n - 1 : m.first[j] = Empty /\ t = Put(m, j, k, v)
  BY <1>3, <1>9, <1>10
<1>14. IsMap(t, c, hash, K) /\ Entries(t) = Entries(m) \cup {<<k, v>>}
  BY <1>3, <1>11
<1> QED BY <1>12, <1>13, <1>14

\* m[k] = v of the sentinel counts one more, writes a bucket that goes on
\* counting as empty, and enters nothing.
LEMMA AssignSentinel ==
    ASSUME NEW m, NEW n, NEW hash, NEW K, IsMap(m, n, hash, K), hash[Empty] \in Nat, NEW v,
           NEW t, t = Assign(m, hash, Empty, v), NEW c, c = Grown(m, n)
    PROVE  /\ IsMap(t, c, hash, K) /\ Entries(t) = Entries(m)
           /\ c = n => \E i \in 0 .. n - 1 : m.first[i] = Empty /\ t = Put(m, i, Empty, v)
<1>1. PICK u : u = MaybeRehash(m, hash)
  OBVIOUS
<1>2. /\ IsMap(u, c, hash, K) /\ Entries(u) = Entries(m) /\ 2 * (u.size + 1) <= c
      /\ c = n => u = m
  BY <1>1, GrowthIs
<1>3. MapTable(u, c, hash, K) /\ UsedBy(u, c) # 0 .. c - 1
  BY <1>2, MapHasRoom
<1>4. PICK b : b = u.first
  OBVIOUS
<1>5. PICK o \in 0 .. c - 1 : b[o] = Empty
  BY <1>3, <1>4 DEF Used, UsedBy
<1>6. PICK stops : stops = {Empty, Empty}
  OBVIOUS
<1>7. PICK i : i = Probe(b, hash[Empty], stops)
  OBVIOUS
<1>8. b[i] = Empty /\ i \in 0 .. c - 1
  <2>1. c \in Nat \ {0} /\ DOMAIN b = 0 .. c - 1
    BY <1>3, <1>4, MapParts
  <2>2. Empty \in stops /\ b[o] = Empty
    BY <1>5, <1>6
  <2>3. b[i] \in stops /\ Reaches(b, hash[Empty], c, Empty, i)
    BY <1>7, <2>1, <2>2, ProbeReaches
  <2>4. i \in 0 .. c - 1
    BY <2>3 DEF Reaches
  <2> QED BY <1>6, <2>3, <2>4
<1>9. t = Put(u, i, Empty, v)
  BY <1>1, <1>4, <1>6, <1>7, <1>8 DEF Assign
<1>10. DOMAIN b = 0 .. c - 1 /\ DOMAIN u.second = 0 .. c - 1
  BY <1>3, <1>4, MapParts
<1>11. t.first = b
  <2>1. t.first = [b EXCEPT ![i] = Empty]
    BY <1>4, <1>9 DEF Put
  <2>2. b \in [0 .. c - 1 -> K \cup NoMarks \cup {Empty}]
    BY <1>3, <1>4 DEF MapTable, IsTable
  <2> QED BY <1>8, <2>1, <2>2
<1>12. /\ t.size = u.size + 1 /\ DOMAIN t.second = 0 .. c - 1
       /\ \A j \in 0 .. c - 1 : j # i => t.second[j] = u.second[j]
  <2>1. t.second = [u.second EXCEPT ![i] = v] /\ t.size = u.size + 1
    BY <1>9 DEF Put
  <2> QED BY <1>8, <1>10, <2>1
<1>13. MapTable(t, c, hash, K)
  BY <1>3, <1>4, <1>11, <1>12 DEF MapTable
<1>14. Entries(t) = Entries(u)
  BY <1>4, <1>8, <1>10, <1>11, <1>12 DEF Entries
<1>15. UsedBy(t, c) = UsedBy(u, c)
  BY <1>4, <1>11 DEF UsedBy
<1>16. Cardinality(UsedBy(u, c)) \in Nat
  <2>1. c \in Nat
    BY <1>3, MapParts
  <2> QED BY <2>1, UsedIsFinite DEF UsedBy
<1>17. IsMap(t, c, hash, K)
  BY <1>2, <1>12, <1>13, <1>15, <1>16 DEF IsMap
<1>18. c = n => \E j \in 0 .. n - 1 : m.first[j] = Empty /\ t = Put(m, j, Empty, v)
  BY <1>2, <1>4, <1>8, <1>9
<1> QED BY <1>2, <1>14, <1>17, <1>18

LEMMA ReserveIs ==
    ASSUME NEW m, NEW n, NEW hash, NEW K, IsMap(m, n, hash, K), NEW r \in Nat,
           NEW t, t = Reserve(m, hash, r)
    PROVE  \E c : /\ IsMap(t, c, hash, K) /\ Entries(t) = Entries(m)
                  /\ IsCounted(m, n) => IsCounted(t, c)
<1>1. n \in Nat /\ EndIndex(m) = n
  BY MapParts DEF IsMap
<1>2. BucketsNeeded(r) \in Nat
  BY DEF BucketsNeeded, MinCapacity
<1>3. PICK q \in Nat : q = BucketsNeeded(r)
  BY <1>2
<1>4. CASE q > n
  <2>1. t = Rehash(m, hash, q) /\ q >= n
    BY <1>1, <1>3, <1>4 DEF Reserve
  <2> QED BY <2>1, RehashIsMap
<1>5. CASE ~(q > n)
  BY <1>1, <1>3, <1>5 DEF Reserve
<1> QED BY <1>4, <1>5

\* Iteration goes to the next entry, or to the end.
LEMMA SkipIs ==
    ASSUME NEW m, NEW n, NEW hash, NEW K, MapTable(m, n, hash, K), NEW i \in 0 .. n,
           NEW r, r = SkipToLive(m, i)
    PROVE  /\ r \in i .. n /\ (r = n \/ m.first[r] # Empty)
           /\ \A j \in i .. r - 1 : m.first[j] = Empty
<1> DEFINE S == {j \in i .. n - 1 : m.first[j] # Empty} \cup {n}
<1>1. n \in Nat /\ EndIndex(m) = n
  BY MapParts
<1>2. r = CHOOSE x \in S : \A y \in S : x <= y
  BY <1>1 DEF SkipToLive, Min
<1>3. S \in SUBSET Nat /\ S # {}
  BY <1>1
<1>4. \E x \in S : \A y \in S : x <= y
  <2> HIDE DEF S
  <2> QED BY <1>3, LeastNumber
<1>5. r \in S /\ \A y \in S : r <= y
  <2> HIDE DEF S
  <2> QED BY <1>2, <1>4
<1>6. r \in i .. n /\ (r = n \/ m.first[r] # Empty)
  BY <1>1, <1>5
<1>7. ASSUME NEW j \in i .. r - 1 PROVE m.first[j] = Empty
  <2>1. j \in i .. n - 1 /\ ~(r <= j)
    BY <1>1, <1>6
  <2> QED BY <1>5, <2>1
<1> QED BY <1>6, <1>7

\* The values of the entries, which are what iteration visits.
LEMMA EntryAt ==
    ASSUME NEW m, NEW n, NEW hash, NEW K, MapTable(m, n, hash, K),
           NEW i \in 0 .. n - 1, m.first[i] # Empty
    PROVE  <<m.first[i], m.second[i]>> \in Entries(m)
BY EntryOf

\* Two buckets with the same key are one.
LEMMA OneBucket ==
    ASSUME NEW m, NEW n, NEW hash, NEW K, MapTable(m, n, hash, K),
           NEW i \in 0 .. n - 1, NEW j \in 0 .. n - 1, m.first[i] # Empty, m.first[i] = m.first[j]
    PROVE  i = j
<1>1. m.first[i] \in K
  BY MapParts
<1> QED BY <1>1 DEF MapTable, IsTable, NoneTwice
=============================================================================
