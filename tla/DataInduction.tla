----------------------------- MODULE DataInduction ----------------------------
(***************************************************************************)
(* Induction over the natural numbers for the proofs of this project, with *)
(* a set in place of a predicate, and what it says of recursive functions. *)
(***************************************************************************)
EXTENDS Integers, WellFoundedInduction, TLAPS

\* A set of natural numbers that is not empty has a least one.
LEMMA LeastNumber ==
    ASSUME NEW S \in SUBSET Nat, S # {}
    PROVE  \E k \in S : \A m \in S : k <= m
  <1>1. PICK k \in S : \A m \in S : ~ (<<m, k>> \in OpToRel(<, Nat))
    BY NatLessThanWellFounded, WFMin
  <1>2. \A m \in S : ~ (m < k)
    BY <1>1 DEF OpToRel
  <1> QED
    BY <1>2

(***************************************************************************)
(* A set with 0 that is closed under successor has all natural numbers: a  *)
(* least one it lacks would have a predecessor.                            *)
(***************************************************************************)
LEMMA SetInduction ==
    ASSUME NEW T, 0 \in T, \A n \in Nat : n \in T => n + 1 \in T
    PROVE  Nat \subseteq T
  <1> DEFINE missing == Nat \ T
  <1>1. SUFFICES ASSUME missing # {} PROVE FALSE
    OBVIOUS
  <1>2. PICK least \in missing : \A k \in missing : least <= k
    <2>1. missing \subseteq Nat
      OBVIOUS
    <2> HIDE DEF missing
    <2> QED
      BY <1>1, <2>1, LeastNumber
  <1>3. least - 1 \in Nat /\ least - 1 \notin missing
    BY <1>2
  <1> QED
    BY <1>3

\* The same up to a bound.
LEMMA UpToInduction ==
    ASSUME NEW n \in Nat, NEW T, 1 \in T, \A k \in 1 .. n - 1 : k \in T => k + 1 \in T
    PROVE  1 .. n \subseteq T
  <1> DEFINE S == {k \in Nat : k + 1 \in 1 .. n => k + 1 \in T}
  <1>1. 0 \in S
    OBVIOUS
  <1>2. \A k \in Nat : k \in S => k + 1 \in S
    OBVIOUS
  <1>3. Nat \subseteq S
    <2> HIDE DEF S
    <2> QED
      BY <1>1, <1>2, SetInduction
  <1>4. ASSUME NEW k \in 1 .. n PROVE k \in T
    <2>1. k - 1 \in S
      BY <1>3
    <2> QED
      BY <2>1
  <1> QED
    BY <1>4

(***************************************************************************)
(* Two functions that take every step alike are equal.                     *)
(***************************************************************************)
LEMMA SameSteps ==
    ASSUME NEW n \in Nat, NEW f, NEW g, n > 0 => f[1] = g[1],
           \A k \in 1 .. n - 1 : f[k] = g[k] => f[k + 1] = g[k + 1]
    PROVE  \A k \in 1 .. n : f[k] = g[k]
  <1> DEFINE T == {k \in Nat : k \in 1 .. n => f[k] = g[k]}
  <1>1. 1 \in T
    OBVIOUS
  <1>2. \A k \in 1 .. n - 1 : k \in T => k + 1 \in T
    OBVIOUS
  <1>3. 1 .. n \subseteq T
    <2> HIDE DEF T
    <2> QED
      BY <1>1, <1>2, UpToInduction
  <1> QED
    BY <1>3

(***************************************************************************)
(* A repetition exists: it starts with base, and step makes of a value the *)
(* next value.                                                             *)
(***************************************************************************)
Repeats(f, n, base, step) == f[0] = base /\ \A i \in 1 .. n : f[i] = step[f[i - 1]]

LEMMA RepetitionExists ==
    ASSUME NEW n \in Nat, NEW V, NEW base \in V, NEW step \in [V -> V]
    PROVE  \E f \in [0 .. n -> V] : Repeats(f, n, base, step)
  <1> DEFINE T == {m \in Nat : \E f \in [0 .. m -> V] : Repeats(f, m, base, step)}
  <1>1. 0 \in T
    <2> DEFINE f == [i \in 0 .. 0 |-> base]
    <2>1. f \in [0 .. 0 -> V] /\ Repeats(f, 0, base, step)
      BY DEF Repeats
    <2> QED
      BY <2>1
  <1>2. ASSUME NEW m \in Nat, m \in T PROVE m + 1 \in T
    <2>1. PICK f \in [0 .. m -> V] : Repeats(f, m, base, step)
      BY <1>2
    <2> DEFINE g == [i \in 0 .. m + 1 |-> IF i \in 0 .. m THEN f[i] ELSE step[f[m]]]
    <2>2. g \in [0 .. m + 1 -> V] /\ g[0] = base
      BY <2>1 DEF Repeats
    <2>3. ASSUME NEW i \in 1 .. m + 1 PROVE g[i] = step[g[i - 1]]
      <3>1. CASE i \in 1 .. m
        <4>1. g[i] = f[i] /\ g[i - 1] = f[i - 1]
          BY <3>1
        <4> QED
          BY <2>1, <3>1, <4>1 DEF Repeats
      <3>2. CASE i = m + 1
        <4>1. g[i - 1] = f[m] /\ g[i] = step[f[m]]
          BY <3>2
        <4> QED
          BY <4>1
      <3> QED
        BY <3>1, <3>2
    <2> HIDE DEF g
    <2>4. \E h \in [0 .. m + 1 -> V] : Repeats(h, m + 1, base, step)
      BY <2>2, <2>3 DEF Repeats
    <2> QED
      BY <2>4
  <1>3. Nat \subseteq T
    <2> HIDE DEF T
    <2> QED
      BY <1>1, <1>2, SetInduction
  <1> QED
    BY <1>3

(***************************************************************************)
(* A fold from the left exists: of no element it is base, of others step   *)
(* of what it is without the last one, and that element.                   *)
(***************************************************************************)
IsGreatest(x, S) == x \in S /\ \A y \in S : x >= y

FoldsTo(g, n, base, step) ==
    /\ g[{}] = base
    /\ \A S \in SUBSET (1 .. n) : \A x : IsGreatest(x, S) => g[S] = step[<<g[S \ {x}], x>>]

CanFold(n, V, base, step) == \E g \in [SUBSET (1 .. n) -> V] : FoldsTo(g, n, base, step)

LEMMA FoldExists ==
    ASSUME NEW n \in Nat, NEW V, NEW base \in V, NEW step \in [V \X (1 .. n) -> V]
    PROVE  CanFold(n, V, base, step)
  <1> DEFINE T == {m \in Nat : m <= n => CanFold(m, V, base, step)}
  <1>1. 0 \in T
    <2> DEFINE g == [S \in SUBSET (1 .. 0) |-> base]
    <2>1. g \in [SUBSET (1 .. 0) -> V] /\ g[{}] = base
      OBVIOUS
    <2>2. \A S \in SUBSET (1 .. 0) : \A x : ~ IsGreatest(x, S)
      <3>1. 1 .. 0 = {}
        OBVIOUS
      <3> QED
        BY <3>1 DEF IsGreatest
    <2>3. FoldsTo(g, 0, base, step)
      BY <2>1, <2>2 DEF FoldsTo
    <2> HIDE DEF g
    <2>4. CanFold(0, V, base, step)
      BY <2>1, <2>3 DEF CanFold
    <2> QED
      BY <2>4
  <1>2. ASSUME NEW m \in Nat, m \in T PROVE m + 1 \in T
    <2> SUFFICES ASSUME m + 1 <= n
                 PROVE  CanFold(m + 1, V, base, step)
      OBVIOUS
    <2>0. CanFold(m, V, base, step)
      BY <1>2
    <2>1. PICK f \in [SUBSET (1 .. m) -> V] : FoldsTo(f, m, base, step)
      BY <2>0 DEF CanFold
    <2> DEFINE g == [S \in SUBSET (1 .. m + 1) |->
                        IF m + 1 \in S THEN step[<<f[S \ {m + 1}], m + 1>>] ELSE f[S]]
    <2>2. ASSUME NEW S \in SUBSET (1 .. m + 1)
          PROVE  /\ S \ {m + 1} \in SUBSET (1 .. m)
                 /\ m + 1 \notin S => S \in SUBSET (1 .. m)
      OBVIOUS
    <2>3. g \in [SUBSET (1 .. m + 1) -> V]
      <3>1. ASSUME NEW S \in SUBSET (1 .. m + 1)
            PROVE  (IF m + 1 \in S THEN step[<<f[S \ {m + 1}], m + 1>>] ELSE f[S]) \in V
        <4>1. m + 1 \in 1 .. n
          OBVIOUS
        <4>2. CASE m + 1 \in S
          <5>1. f[S \ {m + 1}] \in V
            BY <2>2
          <5>2. <<f[S \ {m + 1}], m + 1>> \in V \X (1 .. n)
            BY <4>1, <5>1
          <5> QED
            BY <4>2, <5>2
        <4>3. CASE m + 1 \notin S
          BY <2>2, <4>3
        <4> QED
          BY <4>2, <4>3
      <3> QED
        BY <3>1
    <2>4. \A S \in SUBSET (1 .. m) : g[S] = f[S]
      <3>1. \A S \in SUBSET (1 .. m) : S \in SUBSET (1 .. m + 1) /\ m + 1 \notin S
        OBVIOUS
      <3> QED
        BY <3>1
    <2>5. g[{}] = base
      BY <2>1, <2>4 DEF FoldsTo
    <2>6. ASSUME NEW S \in SUBSET (1 .. m + 1), NEW x, IsGreatest(x, S)
          PROVE  g[S] = step[<<g[S \ {x}], x>>]
      <3>1. CASE m + 1 \in S
        <4>1. x = m + 1
          BY <2>6, <3>1 DEF IsGreatest
        <4>2. g[S] = step[<<f[S \ {m + 1}], m + 1>>]
          BY <3>1
        <4>3. g[S \ {m + 1}] = f[S \ {m + 1}]
          BY <2>2, <2>4
        <4> QED
          BY <4>1, <4>2, <4>3
      <3>2. CASE m + 1 \notin S
        <4>1. S \in SUBSET (1 .. m) /\ S \ {x} \in SUBSET (1 .. m)
          BY <2>2, <3>2
        <4>2. g[S] = f[S] /\ g[S \ {x}] = f[S \ {x}]
          BY <2>4, <4>1
        <4> QED
          BY <2>1, <2>6, <4>1, <4>2 DEF FoldsTo
      <3> QED
        BY <3>1, <3>2
    <2> HIDE DEF g
    <2>7. FoldsTo(g, m + 1, base, step)
      BY <2>5, <2>6 DEF FoldsTo
    <2> QED
      BY <2>3, <2>7 DEF CanFold
  <1>3. Nat \subseteq T
    <2> HIDE DEF T
    <2> QED
      BY <1>1, <1>2, SetInduction
  <1> QED
    BY <1>3

\* A set of numbers up to n that is not empty has a greatest one.
LEMMA GreatestExists ==
    ASSUME NEW n \in Nat, NEW S \in SUBSET (1 .. n), S # {}
    PROVE  \E x : IsGreatest(x, S)
  <1> DEFINE R == {k \in Nat : n - k \in S}
  <1>1. R \in SUBSET Nat /\ R # {}
    <2>1. PICK x \in S : TRUE
      OBVIOUS
    <2>2. n - x \in Nat /\ n - (n - x) = x
      OBVIOUS
    <2> QED
      BY <2>1, <2>2
  <1>2. PICK k \in R : \A m \in R : k <= m
    <2> HIDE DEF R
    <2> QED
      BY <1>1, LeastNumber
  <1>3. ASSUME NEW y \in S PROVE n - k >= y
    <2>1. y \in 1 .. n
      OBVIOUS
    <2>2. n - y \in R
      BY <2>1
    <2>3. k <= n - y /\ k \in Nat
      BY <1>2, <2>2
    <2> HIDE DEF R
    <2> QED
      BY <2>1, <2>3
  <1>4. n - k \in S
    BY <1>2
  <1> QED
    BY <1>3, <1>4 DEF IsGreatest

LEMMA GreatestIs ==
    ASSUME NEW S \in SUBSET Int, NEW x, IsGreatest(x, S)
    PROVE  (CHOOSE m \in S : \A y \in S : m >= y) = x
  <1>1. x \in S /\ \A y \in S : x >= y
    BY DEF IsGreatest
  <1>2. PICK m : m = CHOOSE z \in S : \A y \in S : z >= y
    BY Zenon
  <1>3. m \in S /\ \A y \in S : m >= y
    BY <1>1, <1>2, Zenon
  <1>4. x \in Int /\ m \in Int /\ x >= m /\ m >= x
    BY <1>1, <1>3
  <1>5. m = x
    BY <1>4
  <1> QED
    BY <1>2, <1>5, Zenon

LEMMA WithoutLast ==
    ASSUME NEW k \in Nat \ {0}
    PROVE  /\ 1 .. k \in SUBSET Int /\ 1 .. k # {}
           /\ IsGreatest(k, 1 .. k) /\ (1 .. k) \ {k} = 1 .. k - 1
  <1>1. k \in 1 .. k /\ \A y \in 1 .. k : k >= y
    OBVIOUS
  <1>2. (1 .. k) \ {k} = 1 .. k - 1
    <2>1. \A y : y \in (1 .. k) \ {k} <=> y \in 1 .. k - 1
      OBVIOUS
    <2> QED
      BY <2>1, Zenon
  <1> QED
    BY <1>1, <1>2 DEF IsGreatest

(***************************************************************************)
(* A step taken until it changes nothing, as a recursive function.         *)
(***************************************************************************)
Settles(g, V, step) == g = [x \in V |-> IF step[x] = x THEN x ELSE g[step[x]]]

Keeps(I, step) == \A x \in I : step[x] \in I

\* Where the steps from x may end.
StopsOf(V, step, x) ==
    {y \in V : step[y] = y /\ \A I \in SUBSET V : Keeps(I, step) /\ x \in I => y \in I}

LEMMA EndsAlike ==
    ASSUME NEW V, NEW step \in [V -> V], NEW x \in V
    PROVE  /\ step[x] = x => StopsOf(V, step, x) = {x}
           /\ step[x] # x => StopsOf(V, step, x) = StopsOf(V, step, step[x])
  <1>1. ASSUME step[x] = x PROVE StopsOf(V, step, x) = {x}
    <2>1. {x} \in SUBSET V /\ Keeps({x}, step)
      BY <1>1 DEF Keeps
    <2>2. x \in StopsOf(V, step, x)
      BY <1>1 DEF StopsOf
    <2>3. \A y \in StopsOf(V, step, x) : y \in {x}
      BY <2>1 DEF StopsOf
    <2> QED
      BY <2>2, <2>3
  <1>2. ASSUME step[x] # x, NEW y \in StopsOf(V, step, x)
        PROVE  y \in StopsOf(V, step, step[x])
    <2> SUFFICES ASSUME NEW I \in SUBSET V, Keeps(I, step), step[x] \in I PROVE y \in I
      BY DEF StopsOf
    <2>1. I \cup {x} \in SUBSET V /\ Keeps(I \cup {x}, step)
      BY DEF Keeps
    <2>2. y \in I \cup {x} /\ step[y] = y
      BY <2>1 DEF StopsOf
    <2> QED
      BY <1>2, <2>2
  <1>3. ASSUME step[x] # x, NEW y \in StopsOf(V, step, step[x])
        PROVE  y \in StopsOf(V, step, x)
    BY DEF StopsOf, Keeps
  <1> QED
    BY <1>1, <1>2, <1>3

LEMMA SettlingExists ==
    ASSUME NEW V, NEW step \in [V -> V]
    PROVE  \E g : Settles(g, V, step)
  <1> DEFINE g == [x \in V |-> CHOOSE y : y \in StopsOf(V, step, x)]
  <1>0. \A x \in V : g[x] = CHOOSE y : y \in StopsOf(V, step, x)
    BY Zenon
  <1>2. DOMAIN g = V /\ g = [x \in V |-> g[x]]
    OBVIOUS
  <1> HIDE DEF g
  <1>1. ASSUME NEW x \in V PROVE g[x] = IF step[x] = x THEN x ELSE g[step[x]]
    <2>1. ASSUME step[x] = x PROVE g[x] = x
      <3>1. StopsOf(V, step, x) = {x}
        BY <2>1, EndsAlike
      <3>2. g[x] = CHOOSE y : y \in {x}
        BY <1>0, <3>1
      <3> QED
        BY <3>2
    <2>2. ASSUME step[x] # x PROVE g[x] = g[step[x]]
      <3>1. StopsOf(V, step, x) = StopsOf(V, step, step[x])
        BY <2>2, EndsAlike
      <3>2. step[x] \in V
        OBVIOUS
      <3>3. g[x] = CHOOSE y : y \in StopsOf(V, step, step[x])
        BY <1>0, <3>1, Zenon
      <3> QED
        BY <1>0, <3>2, <3>3, Zenon
    <2> QED
      BY <2>1, <2>2
  <1>3. g = [x \in V |-> IF step[x] = x THEN x ELSE g[step[x]]]
    BY <1>1, <1>2
  <1> QED
    BY <1>3 DEF Settles

(***************************************************************************)
(* When every step that changes something lowers a rank, the function is   *)
(* where the steps end: nothing changes there, and what the steps keep     *)
(* holds there.                                                            *)
(***************************************************************************)
LEMMA SettlesWhere ==
    ASSUME NEW V, NEW step \in [V -> V], NEW rank \in [V -> Nat],
           \A x \in V : step[x] # x => rank[step[x]] < rank[x],
           NEW g, Settles(g, V, step), NEW I \in SUBSET V, Keeps(I, step)
    PROVE  \A x \in I : g[x] \in I /\ step[g[x]] = g[x]
  <1> DEFINE P(x) == x \in I => g[x] \in I /\ step[g[x]] = g[x]
             T == {n \in Nat : \A x \in V : rank[x] < n => P(x)}
  <1>1. 0 \in T
    OBVIOUS
  <1>2. ASSUME NEW n \in Nat, n \in T PROVE n + 1 \in T
    <2> SUFFICES ASSUME NEW x \in V, rank[x] < n + 1, x \in I
                 PROVE  g[x] \in I /\ step[g[x]] = g[x]
      OBVIOUS
    <2>1. g[x] = IF step[x] = x THEN x ELSE g[step[x]]
      BY DEF Settles
    <2>2. CASE step[x] = x
      BY <2>1, <2>2
    <2>3. CASE step[x] # x
      <3>1. step[x] \in I /\ step[x] \in V /\ rank[step[x]] < n
        BY <2>3 DEF Keeps
      <3> QED
        BY <1>2, <2>1, <2>3, <3>1
    <2> QED
      BY <2>2, <2>3
  <1>3. Nat \subseteq T
    <2> HIDE DEF T
    <2> QED
      BY <1>1, <1>2, SetInduction
  <1> SUFFICES ASSUME NEW x \in I PROVE P(x)
    OBVIOUS
  <1>4. x \in V /\ rank[x] + 1 \in Nat /\ rank[x] < rank[x] + 1
    OBVIOUS
  <1> QED
    BY <1>3, <1>4

(***************************************************************************)
(* A step can be taken for ever.                                           *)
(***************************************************************************)
LEMMA RepetitionUnique ==
    ASSUME NEW n \in Nat, NEW m \in Nat, m >= n, NEW base, NEW step, NEW f, NEW g,
           Repeats(f, n, base, step), Repeats(g, m, base, step)
    PROVE  \A i \in 0 .. n : f[i] = g[i]
  <1> DEFINE T == {i \in Nat : i \in 0 .. n => f[i] = g[i]}
  <1>1. 0 \in T
    BY DEF Repeats
  <1>2. ASSUME NEW i \in Nat, i \in T PROVE i + 1 \in T
    <2> SUFFICES ASSUME i + 1 \in 0 .. n PROVE f[i + 1] = g[i + 1]
      OBVIOUS
    <2>1. i \in 0 .. n /\ i + 1 \in 1 .. n /\ i + 1 \in 1 .. m /\ i + 1 - 1 = i
      OBVIOUS
    <2>2. f[i + 1] = step[f[i]] /\ g[i + 1] = step[g[i]]
      BY <2>1 DEF Repeats
    <2> QED
      BY <1>2, <2>1, <2>2
  <1>3. Nat \subseteq T
    <2> HIDE DEF T
    <2> QED
      BY <1>1, <1>2, SetInduction
  <1> QED
    BY <1>3

LEMMA IterationExists ==
    ASSUME NEW V, NEW base \in V, NEW step \in [V -> V]
    PROVE  \E r \in [Nat -> V] : r[0] = base /\ \A n \in Nat : r[n + 1] = step[r[n]]
  <1> DEFINE first(n) == CHOOSE f \in [0 .. n -> V] : Repeats(f, n, base, step)
             h == [n \in Nat |-> first(n)]
             r == [n \in Nat |-> h[n][n]]
  <1>1. ASSUME NEW n \in Nat
        PROVE  h[n] \in [0 .. n -> V] /\ Repeats(h[n], n, base, step)
    <2>1. \E f \in [0 .. n -> V] : Repeats(f, n, base, step)
      BY RepetitionExists
    <2>2. first(n) \in [0 .. n -> V] /\ Repeats(first(n), n, base, step)
      BY <2>1, Zenon
    <2>3. h[n] = first(n)
      BY Zenon
    <2> QED
      BY <2>2, <2>3, Zenon
  <1>2. \A n \in Nat : r[n] = h[n][n]
    OBVIOUS
  <1>3. DOMAIN r = Nat /\ r = [n \in Nat |-> r[n]]
    OBVIOUS
  <1> HIDE DEF h, r
  <1>4. ASSUME NEW n \in Nat PROVE r[n] \in V
    <2>1. n \in 0 .. n
      OBVIOUS
    <2> QED
      BY <1>1, <1>2, <2>1
  <1>5. r[0] = base
    BY <1>1, <1>2 DEF Repeats
  <1>6. ASSUME NEW n \in Nat PROVE r[n + 1] = step[r[n]]
    <2>1. n + 1 \in Nat /\ n + 1 >= n /\ n \in 0 .. n /\ n + 1 \in 1 .. n + 1 /\ n + 1 - 1 = n
      OBVIOUS
    <2>2. Repeats(h[n], n, base, step) /\ Repeats(h[n + 1], n + 1, base, step)
      BY <1>1, <2>1
    <2>3. h[n][n] = h[n + 1][n]
      BY <2>1, <2>2, RepetitionUnique
    <2>4. h[n + 1][n + 1] = step[h[n + 1][n]]
      BY <2>1, <2>2 DEF Repeats
    <2> QED
      BY <1>2, <2>1, <2>3, <2>4
  <1> QED
    BY <1>3, <1>4, <1>5, <1>6

=============================================================================
