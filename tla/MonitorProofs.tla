--------------------------- MODULE MonitorProofs -----------------------------
(***************************************************************************)
(* Theorems about Monitor, for all automata, accepting spaces, settings    *)
(* and observations: its estimate invents no run, under inclusion it loses *)
(* none that can still be accepted, and then it implements the promise.    *)
(* The second part has the same about ConcreteMonitor, whose lists are the *)
(* runs as long as its relation tells them apart.                          *)
(***************************************************************************)
EXTENDS Monitor, FiniteSetTheorems, DataInduction, SequenceTheorems

-----------------------------------------------------------------------------
(***************************************************************************)
(* Valuations.                                                             *)
(***************************************************************************)
LEMMA ElapseTyped ==
    ASSUME NEW A, NEW v \in Valuations(A), NEW d \in Nat
    PROVE  Elapse(v, d) \in Valuations(A) /\ Elapse(v, 0) = v
  <1>1. \A n \in Nat : Saturate(n) \in 0 .. Cap
    BY CapAssumption DEF Saturate
  <1>2. \A n \in 0 .. Cap : Saturate(n + 0) = n
    BY CapAssumption DEF Saturate
  <1>3. DOMAIN v = A.clocks /\ \A c \in A.clocks : v[c] \in 0 .. Cap /\ v[c] + d \in Nat
    BY CapAssumption DEF Valuations
  <1>4. Elapse(v, d) \in Valuations(A)
    BY <1>1, <1>3 DEF Elapse, Valuations
  <1>5. Elapse(v, 0) = v
    BY <1>2, <1>3 DEF Elapse, Valuations
  <1> QED
    BY <1>4, <1>5

\* Beyond Cap, time makes no difference.
LEMMA ElapseCapped ==
    ASSUME NEW A, NEW v \in Valuations(A), NEW d \in Nat
    PROVE  \E k \in 0 .. Cap : Elapse(v, k) = Elapse(v, d)
  <1>1. DOMAIN v = A.clocks /\ \A c \in A.clocks : v[c] \in 0 .. Cap
    BY DEF Valuations
  <1>2. CASE d \in 0 .. Cap
    BY <1>2
  <1>3. CASE d > Cap
    <2>1. \A c \in A.clocks : Saturate(v[c] + Cap) = Saturate(v[c] + d)
      BY <1>1, <1>3, CapAssumption DEF Saturate
    <2>2. Elapse(v, Cap) = Elapse(v, d)
      BY <1>1, <2>1 DEF Elapse
    <2> QED
      BY <2>2, CapAssumption
  <1> QED
    BY <1>2, <1>3, CapAssumption

LEMMA ResetTyped ==
    ASSUME NEW A, NEW v \in Valuations(A), NEW R
    PROVE  Reset(v, R) \in Valuations(A)
  BY CapAssumption DEF Reset, Valuations

\* Two valuations that agree on the clocks a set of constraints reads.
LEMMA MeetsAlike ==
    ASSUME NEW v, NEW w, NEW constraints, \A c \in constraints : v[c.clock] = w[c.clock],
           Meets(v, constraints)
    PROVE  Meets(w, constraints)
  BY DEF Meets, Satisfies

\* Clocks that agree still do when time has passed.
LEMMA AgreeLater ==
    ASSUME NEW A, NEW v \in Valuations(A), NEW w \in Valuations(A), NEW D \in SUBSET A.clocks,
           \A c \in D : v[c] = w[c], NEW d
    PROVE  \A c \in D : Elapse(v, d)[c] = Elapse(w, d)[c]
  BY DEF Elapse, Valuations

(***************************************************************************)
(* Edges connect locations.                                                *)
(***************************************************************************)
LEMMA EdgesTyped ==
    ASSUME NEW A, IsAutomaton(A), NEW i \in DOMAIN A.edges
    PROVE  /\ A.edges[i] \in Edges(A)
           /\ A.edges[i].from \in A.locations /\ A.edges[i].to \in A.locations
           /\ A.edges[i].reset \subseteq A.clocks
           /\ A.edges[i].label \in labels(A)
  <1>1. A.edges \in Seq(EdgesOver(A.locations, A.clocks))
    BY DEF IsAutomaton
  <1>2. A.edges[i] \in EdgesOver(A.locations, A.clocks)
    BY <1>1
  <1> QED
    BY <1>2 DEF EdgesOver, Edges, labels

-----------------------------------------------------------------------------
(***************************************************************************)
(* A closed space is entered from nowhere else, neither by waiting nor by  *)
(* an edge.                                                                *)
(***************************************************************************)
LEMMA SpaceBeforeWaiting ==
    ASSUME NEW A, NEW S, IsClosed(A, S), NEW l \in A.locations, NEW v \in Valuations(A),
           Meets(v, A.invariant[l]), NEW d \in Nat, Elapse(v, d) \in Points(S[l])
    PROVE  v \in Points(S[l])
  <1>1. PICK k \in 0 .. Cap : Elapse(v, k) = Elapse(v, d)
    BY ElapseCapped
  <1>2. PICK Z \in S[l] : Elapse(v, d) \in Z
    BY DEF Points
  <1>3. v \in restrict(down(A, Z), A.invariant[l])
    BY <1>1, <1>2 DEF restrict, down
  <1> QED
    BY <1>3 DEF IsClosed

LEMMA SpaceBeforeEdge ==
    ASSUME NEW A, IsAutomaton(A), NEW S, IsClosed(A, S), NEW i \in DOMAIN A.edges,
           NEW v \in Valuations(A),
           Meets(v, A.invariant[A.edges[i].from]), Meets(v, A.edges[i].guard),
           Reset(v, A.edges[i].reset) \in Points(S[A.edges[i].to])
    PROVE  v \in Points(S[A.edges[i].from])
  <1> DEFINE e == A.edges[i]
             w == Reset(v, e.reset)
  <1>1. e \in Edges(A) /\ e.reset \subseteq A.clocks
    BY EdgesTyped
  <1>2. PICK Z \in S[e.to] : w \in Z
    BY DEF Points
  <1>3. w \in Valuations(A) /\ Elapse(w, 0) = w /\ Elapse(v, 0) = v /\ 0 \in 0 .. Cap
    BY ResetTyped, ElapseTyped, CapAssumption
  <1>4. w \in down(A, Z)
    BY <1>2, <1>3 DEF down
  <1>5. DOMAIN v = A.clocks
    BY DEF Valuations
  <1>6. /\ \A c \in e.reset : w[c] = 0
        /\ \A c \in A.clocks \ e.reset : v[c] = w[c]
    BY <1>1, <1>5 DEF Reset
  <1> HIDE DEF w, e
  <1>7. w \in restrict_to_zero(down(A, Z), e.reset)
    BY <1>4, <1>6 DEF restrict_to_zero
  <1>8. v \in free(A, restrict_to_zero(down(A, Z), e.reset), e.reset)
    BY <1>6, <1>7 DEF free
  <1>9. v \in restrict(free(A, restrict_to_zero(down(A, Z), e.reset), e.reset), e.guard)
    BY <1>8 DEF restrict, e
  <1>10. v \in do_transition_backward(A, e, Z)
    BY <1>3, <1>9 DEF do_transition_backward, down
  <1>11. v \in restrict(do_transition_backward(A, e, Z), A.invariant[e.from])
    BY <1>10 DEF restrict, e
  <1> QED
    BY <1>1, <1>2, <1>11 DEF IsClosed, e

-----------------------------------------------------------------------------
(***************************************************************************)
(* compute_inactive_clocks: after as many rounds as there are pairs of a   *)
(* location and a clock, nothing becomes active any more.                  *)
(***************************************************************************)
Grown(A, b) ==
    [l \in A.locations |->
        b[l] \cup UNION {b[e.to] \ e.reset : e \in {f \in Edges(A) : f.from = l}}]

FirstActive(A) == [l \in A.locations |-> ReadAt(A, l)]

Growing(A, f, n) ==
    f = [i \in 0 .. n |-> IF i = 0 THEN FirstActive(A) ELSE Grown(A, f[i - 1])]

LEMMA ReadTyped ==
    ASSUME NEW A, IsAutomaton(A), NEW l \in A.locations
    PROVE  ReadAt(A, l) \subseteq A.clocks
  <1>1. A.invariant[l] \subseteq Constraints(A.clocks)
    BY DEF IsAutomaton
  <1>2. ASSUME NEW e \in Edges(A) PROVE e.guard \subseteq Constraints(A.clocks)
    <2>1. PICK i \in DOMAIN A.edges : e = A.edges[i]
      BY DEF Edges
    <2>2. A.edges \in Seq(EdgesOver(A.locations, A.clocks))
      BY DEF IsAutomaton
    <2>3. e \in EdgesOver(A.locations, A.clocks)
      BY <2>1, <2>2
    <2> QED
      BY <2>3 DEF EdgesOver
  <1>3. \A c \in Constraints(A.clocks) : c.clock \in A.clocks
    BY DEF Constraints
  <1> QED
    BY <1>1, <1>2, <1>3 DEF ReadAt

LEMMA GrownTyped ==
    ASSUME NEW A, IsAutomaton(A), NEW b \in [A.locations -> SUBSET A.clocks]
    PROVE  /\ Grown(A, b) \in [A.locations -> SUBSET A.clocks]
           /\ \A l \in A.locations : b[l] \subseteq Grown(A, b)[l]
  <1>1. ASSUME NEW e \in Edges(A) PROVE b[e.to] \subseteq A.clocks
    <2>1. PICK i \in DOMAIN A.edges : e = A.edges[i]
      BY DEF Edges
    <2> QED
      BY <2>1, EdgesTyped
  <1> QED
    BY <1>1 DEF Grown

LEMMA GrowingExists ==
    ASSUME NEW A, IsAutomaton(A), NEW n \in Nat
    PROVE  \E f \in [0 .. n -> [A.locations -> SUBSET A.clocks]] : Growing(A, f, n)
  <1> DEFINE V == [A.locations -> SUBSET A.clocks]
             step == [b \in V |-> Grown(A, b)]
             base == FirstActive(A)
  <1>1. base \in V
    BY ReadTyped DEF FirstActive
  <1>2. step \in [V -> V]
    BY GrownTyped
  <1>3. \A b \in V : step[b] = Grown(A, b)
    OBVIOUS
  <1> HIDE DEF step, V, base
  <1>4. PICK f \in [0 .. n -> V] : Repeats(f, n, base, step)
    BY <1>1, <1>2, RepetitionExists
  <1>5. \A i \in 0 .. n : f[i] = IF i = 0 THEN base ELSE Grown(A, f[i - 1])
    BY <1>3, <1>4 DEF Repeats
  <1>6. f = [i \in 0 .. n |-> IF i = 0 THEN FirstActive(A) ELSE Grown(A, f[i - 1])]
    BY <1>4, <1>5 DEF base
  <1>7. Growing(A, f, n)
    BY <1>6, Zenon DEF Growing
  <1> QED
    BY <1>4, <1>7 DEF V

ActiveAfter(A, f, n) ==
    /\ Growing(A, f, n)
    /\ compute_inactive_clocks(A, n) = [l \in A.locations |-> A.clocks \ f[n][l]]

LEMMA ActiveIs ==
    ASSUME NEW A, IsAutomaton(A), NEW n \in Nat
    PROVE  \E f \in [0 .. n -> [A.locations -> SUBSET A.clocks]] : ActiveAfter(A, f, n)
  <1> DEFINE f == CHOOSE g : Growing(A, g, n)
             h == CHOOSE g : g = [i \in 0 .. n |->
                     IF i = 0 THEN [l \in A.locations |-> ReadAt(A, l)]
                     ELSE [l \in A.locations |->
                              g[i - 1][l] \cup UNION {g[i - 1][e.to] \ e.reset :
                                                        e \in {k \in Edges(A) : k.from = l}}]]
  <1>1. Growing(A, f, n)
    BY GrowingExists, Zenon
  <1>2. PICK g \in [0 .. n -> [A.locations -> SUBSET A.clocks]] : Growing(A, g, n)
    BY GrowingExists
  <1>3. h = f
    BY Zenon DEF Growing, Grown, FirstActive
  <1>4. compute_inactive_clocks(A, n) = [l \in A.locations |-> A.clocks \ h[n][l]]
    BY Zenon DEF compute_inactive_clocks
  <1> HIDE DEF f, h
  <1>5. f = g
    <2>1. 0 .. n # {} /\ \A i \in 0 .. n : g[i] = f[i]
      <3> DEFINE T == {i \in Nat : i \in 0 .. n => g[i] = f[i]}
      <3>1. 0 \in T
        BY <1>1, <1>2 DEF Growing
      <3>2. ASSUME NEW i \in Nat, i \in T PROVE i + 1 \in T
        <4>1. i + 1 \in 0 .. n => /\ g[i + 1] = Grown(A, g[i + 1 - 1])
                                  /\ f[i + 1] = Grown(A, f[i + 1 - 1])
          BY <1>1, <1>2 DEF Growing
        <4>2. i + 1 - 1 = i /\ (i + 1 \in 0 .. n => i \in 0 .. n)
          OBVIOUS
        <4> QED
          BY <3>2, <4>1, <4>2
      <3>3. Nat \subseteq T
        <4> HIDE DEF T
        <4> QED
          BY <3>1, <3>2, SetInduction
      <3> QED
        BY <3>3
    <2>2. f = [i \in 0 .. n |-> f[i]]
      BY <1>1 DEF Growing
    <2> QED
      BY <1>2, <2>1, <2>2
  <1> QED
    BY <1>1, <1>2, <1>3, <1>4, <1>5 DEF ActiveAfter

(***************************************************************************)
(* Until nothing grows any more each round adds a pair, and there are no   *)
(* more pairs than rounds.                                                 *)
(***************************************************************************)
LEMMA GrowthEnds ==
    ASSUME NEW A, IsAutomaton(A), NEW n \in Nat, NEW f \in [0 .. n -> [A.locations -> SUBSET A.clocks]],
           Growing(A, f, n), n = Cardinality(A.locations) * Cardinality(A.clocks)
    PROVE  Grown(A, f[n]) = f[n]
  <1> DEFINE all == A.locations \X A.clocks
             pairs(i) == {p \in all : p[2] \in f[i][p[1]]}
             T == {i \in Nat : i \in 0 .. n =>
                      Cardinality(pairs(i)) >= i \/ Grown(A, f[i]) = f[i]}
  <1>1. IsFiniteSet(all) /\ Cardinality(all) = n
    BY FS_Product DEF IsAutomaton
  <1>2. \A i \in 0 .. n : /\ f[i] \in [A.locations -> SUBSET A.clocks]
                          /\ Grown(A, f[i]) \in [A.locations -> SUBSET A.clocks]
                          /\ \A l \in A.locations : f[i][l] \subseteq Grown(A, f[i])[l]
    BY GrownTyped
  <1>3. ASSUME NEW i \in 0 .. n
        PROVE  IsFiniteSet(pairs(i)) /\ Cardinality(pairs(i)) \in Nat
    BY <1>1, FS_Subset, FS_CardinalityType
  <1>4. 0 \in T
    <2>1. 0 \in 0 .. n
      OBVIOUS
    <2>2. Cardinality(pairs(0)) \in Nat
      BY <1>3, <2>1
    <2> HIDE DEF pairs
    <2> QED
      BY <2>2
  <1>5. ASSUME NEW i \in Nat, i \in T PROVE i + 1 \in T
    <2>1. SUFFICES ASSUME i + 1 \in 0 .. n
                   PROVE  Cardinality(pairs(i + 1)) >= i + 1 \/ Grown(A, f[i + 1]) = f[i + 1]
      OBVIOUS
    <2>2. i \in 0 .. n /\ i + 1 - 1 = i /\ i + 1 # 0
      BY <2>1
    <2>3. f[i + 1] = Grown(A, f[i])
      BY <2>1, <2>2 DEF Growing
    <2>4. CASE Grown(A, f[i]) = f[i]
      BY <2>3, <2>4
    <2>5. CASE Grown(A, f[i]) # f[i]
      <3>1. PICK l \in A.locations : f[i][l] # Grown(A, f[i])[l]
        BY <1>2, <2>2, <2>5
      <3>2. PICK c \in A.clocks : c \in f[i + 1][l] /\ c \notin f[i][l]
        <4>1. f[i][l] \subseteq f[i + 1][l] /\ f[i][l] # f[i + 1][l]
          BY <1>2, <2>2, <2>3, <3>1
        <4>2. f[i + 1] \in [A.locations -> SUBSET A.clocks]
          BY <2>1
        <4>3. f[i + 1][l] \subseteq A.clocks
          BY <4>2
        <4> QED
          BY <4>1, <4>3
      <3>3. <<l, c>> \in pairs(i + 1) /\ <<l, c>> \notin pairs(i)
        BY <3>2
      <3>4. pairs(i) \subseteq pairs(i + 1)
        BY <1>2, <2>2, <2>3
      <3>5. Cardinality(pairs(i)) >= i
        BY <1>5, <2>2, <2>5
      <3>6. IsFiniteSet(pairs(i + 1)) /\ Cardinality(pairs(i + 1)) \in Nat
            /\ Cardinality(pairs(i)) \in Nat
        BY <1>3, <2>1, <2>2
      <3>7. Cardinality(pairs(i)) <= Cardinality(pairs(i + 1))
            /\ Cardinality(pairs(i)) # Cardinality(pairs(i + 1))
        <4> HIDE DEF pairs
        <4> QED
          BY <3>3, <3>4, <3>6, FS_Subset
      <3> QED
        BY <3>5, <3>6, <3>7
    <2> QED
      BY <2>4, <2>5
  <1>6. n \in T
    <2> HIDE DEF T
    <2> QED
      BY <1>4, <1>5, SetInduction
  <1>7. CASE Cardinality(pairs(n)) >= n
    <2>1. pairs(n) \subseteq all /\ n \in 0 .. n
      OBVIOUS
    <2>2. pairs(n) = all
      <3> HIDE DEF pairs
      <3>1. Cardinality(pairs(n)) = Cardinality(all)
        BY <1>1, <1>3, <1>7, <2>1, FS_Subset
      <3> QED
        BY <1>1, <2>1, <3>1, FS_Subset
    <2>3. \A l \in A.locations : \A c \in A.clocks : c \in f[n][l]
      <3>1. ASSUME NEW l \in A.locations, NEW c \in A.clocks PROVE c \in f[n][l]
        <4>1. <<l, c>> \in pairs(n)
          BY <2>2
        <4> QED
          BY <4>1
      <3> QED
        BY <3>1
    <2> DEFINE g == f[n]
               h == Grown(A, f[n])
    <2>4. g \in [A.locations -> SUBSET A.clocks] /\ h \in [A.locations -> SUBSET A.clocks]
          /\ \A l \in A.locations : g[l] \subseteq h[l]
      BY <1>2, <2>1
    <2>5. \A l \in A.locations : A.clocks \subseteq g[l]
      BY <2>3
    <2> HIDE DEF g, h
    <2>6. ASSUME NEW l \in A.locations PROVE h[l] = g[l]
      <3>1. h[l] \subseteq A.clocks /\ g[l] \subseteq h[l] /\ A.clocks \subseteq g[l]
        BY <2>4, <2>5
      <3> QED
        BY <3>1
    <2>7. h = g
      BY <2>4, <2>6
    <2> QED
      BY <2>7 DEF g, h
  <1>8. n \in 0 .. n
    OBVIOUS
  <1>9. Cardinality(pairs(n)) >= n \/ Grown(A, f[n]) = f[n]
    BY <1>6, <1>8, Zenon
  <1> QED
    BY <1>7, <1>9, Zenon

(***************************************************************************)
(* The clocks that stay are all those a constraint reads before their next *)
(* reset.                                                                  *)
(***************************************************************************)
LEMMA ActiveSuffice ==
    ASSUME NEW A, IsAutomaton(A), NEW n \in Nat,
           n = Cardinality(A.locations) * Cardinality(A.clocks),
           NEW D, D = [l \in A.locations |-> A.clocks \ compute_inactive_clocks(A, n)[l]]
    PROVE  D \in [A.locations -> SUBSET A.clocks] /\ Reads(A, D)
  <1>1. PICK f \in [0 .. n -> [A.locations -> SUBSET A.clocks]] : ActiveAfter(A, f, n)
    BY ActiveIs
  <1> DEFINE inactive == compute_inactive_clocks(A, n)
  <1>7. Growing(A, f, n) /\ inactive = [l \in A.locations |-> A.clocks \ f[n][l]]
    BY <1>1 DEF ActiveAfter
  <1> HIDE DEF inactive
  <1>8. D = [l \in A.locations |-> A.clocks \ inactive[l]]
    BY DEF inactive
  <1>2. n \in 0 .. n /\ f[n] \in [A.locations -> SUBSET A.clocks]
    OBVIOUS
  <1>3. D = f[n]
    BY <1>2, <1>7, <1>8
  <1>4. Grown(A, D) = D
    <2>1. Grown(A, f[n]) = f[n]
      BY <1>7, GrowthEnds
    <2> QED
      BY <1>3, <2>1
  <1>5. ASSUME NEW e \in Edges(A) PROVE D[e.to] \ e.reset \subseteq D[e.from]
    <2>1. PICK i \in DOMAIN A.edges : e = A.edges[i]
      BY DEF Edges
    <2>2. e.from \in A.locations
      BY <2>1, EdgesTyped
    <2>3. D[e.to] \ e.reset \subseteq Grown(A, D)[e.from]
      BY <2>2 DEF Grown
    <2> QED
      BY <1>4, <2>3
  <1>6. ASSUME NEW l \in A.locations PROVE ReadAt(A, l) \subseteq D[l]
    <2> DEFINE T == {i \in Nat : i \in 0 .. n => ReadAt(A, l) \subseteq f[i][l]}
    <2>1. 0 \in T
      BY <1>7 DEF Growing, FirstActive
    <2>2. ASSUME NEW i \in Nat, i \in T PROVE i + 1 \in T
      <3>1. CASE i + 1 \in 0 .. n
        <4>1. i \in 0 .. n /\ i + 1 - 1 = i /\ i + 1 # 0
          BY <3>1
        <4>2. f[i + 1] = Grown(A, f[i])
          BY <1>7, <3>1, <4>1 DEF Growing
        <4>3. f[i][l] \subseteq Grown(A, f[i])[l]
          BY <4>1, GrownTyped
        <4> QED
          BY <2>2, <4>1, <4>2, <4>3
      <3> QED
        BY <3>1
    <2>3. n \in T
      <3> HIDE DEF T
      <3> QED
        BY <2>1, <2>2, SetInduction
    <2> QED
      BY <1>2, <1>3, <2>3
  <1> QED
    BY <1>2, <1>3, <1>5, <1>6 DEF Reads

-----------------------------------------------------------------------------
(***************************************************************************)
(* What the setup n gives the monitor on side s; and the clocks of which a *)
(* state tells the truth, those that are not freed.                        *)
(***************************************************************************)
Aut(n, s) == Setup[n].automaton[s]

Space(n, s) == AcceptingSpace[n][s]

Abstracts(n) == Setup[n].inclusion /\ Setup[n].clock_abstraction

Trusted(n, s) ==
    [l \in Aut(n, s).locations |->
        IF Abstracts(n) THEN Aut(n, s).clocks \ InactiveClocks[n][s][l] ELSE Aut(n, s).clocks]

LEMMA Given ==
    ASSUME NEW n \in DOMAIN Setup, NEW s \in Sides
    PROVE  /\ IsAutomaton(Aut(n, s)) /\ CanBegin(Aut(n, s))
           /\ Aut(n, s).initial \in Aut(n, s).locations
           /\ IsClosed(Aut(n, s), Space(n, s)) /\ IsIndifferent(Aut(n, s), Space(n, s))
           /\ Space(n, s) \in [Aut(n, s).locations -> Federations(Aut(n, s))]
           /\ Setup[n].horizon \in Nat
           /\ Setup[n].inclusion \in BOOLEAN /\ Setup[n].clock_abstraction \in BOOLEAN
           /\ \A in \in Setup[n].inputs : IsInput(in, Setup[n].horizon)
  BY TimedWordsAssumption DEF Aut, Space, IsSetting, IsSpace, IsAutomaton

LEMMA TrustedSuffice ==
    ASSUME NEW n \in DOMAIN Setup, NEW s \in Sides
    PROVE  /\ Trusted(n, s) \in [Aut(n, s).locations -> SUBSET Aut(n, s).clocks]
           /\ Reads(Aut(n, s), Trusted(n, s))
  <1> DEFINE A == Aut(n, s)
             k == Cardinality(A.locations) * Cardinality(A.clocks)
             D == [l \in A.locations |-> A.clocks \ compute_inactive_clocks(A, k)[l]]
  <1>1. IsAutomaton(A)
    BY Given
  <1>2. k \in Nat
    <2>1. Cardinality(A.locations) \in Nat /\ Cardinality(A.clocks) \in Nat
      BY <1>1, FS_CardinalityType DEF IsAutomaton
    <2> HIDE DEF A
    <2> QED
      BY <2>1
  <1>3. CASE Abstracts(n)
    <2>1. InactiveClocks[n][s] = compute_inactive_clocks(A, k)
      BY DEF InactiveClocks, Aut
    <2>2. Trusted(n, s) = D
      BY <1>3, <2>1 DEF Trusted
    <2>3. D \in [A.locations -> SUBSET A.clocks] /\ Reads(A, D)
      <3> HIDE DEF A
      <3> QED
        BY <1>1, <1>2, ActiveSuffice
    <2> QED
      BY <2>2, <2>3
  <1>4. CASE ~Abstracts(n)
    <2>1. Trusted(n, s) = [l \in A.locations |-> A.clocks]
      BY <1>4 DEF Trusted
    <2>2. ASSUME NEW e \in Edges(A) PROVE e.from \in A.locations /\ e.to \in A.locations
      <3>1. PICK i \in DOMAIN A.edges : e = A.edges[i]
        BY DEF Edges
      <3> QED
        BY <1>1, <3>1, EdgesTyped
    <2> HIDE DEF A
    <2> QED
      BY <1>1, <2>1, <2>2, ReadTyped DEF Reads, A
  <1> QED
    BY <1>3, <1>4

-----------------------------------------------------------------------------
(***************************************************************************)
(* Runs, and the points of states that tell of them.                       *)
(***************************************************************************)
Moments(n, s) ==
    [loc : Aut(n, s).locations, x : Valuations(Aut(n, s)), g : 0 .. Setup[n].horizon]

PointsOf(n, s) == [x : Valuations(Aut(n, s)), g : 0 .. Setup[n].horizon]

Genuine(n, s, R) ==
    \A r \in R : r \in Moments(n, s) /\ Meets(r.x, Aut(n, s).invariant[r.loc])

Accepts(n, s, r) == r.x \in Points(Space(n, s)[r.loc])

\* The point p of a state in location l tells of r.
Tells(n, s, p, l, r) ==
    r.loc = l /\ r.g = p.g /\ \A c \in Trusted(n, s)[l] : p.x[c] = r.x[c]

\* Every point of F tells of a run of M.
Copied(n, s, l, F, M) ==
    /\ F \subseteq SUBSET PointsOf(n, s)
    /\ \A Z \in F : \A p \in Z : \E m \in M : Tells(n, s, p, l, m)

Holds(F, p) == \E Z \in F : p \in Z

Within(F, constraints) == \A p : Holds(F, p) => Meets(p.x, constraints)

Point(r) == [x |-> r.x, g |-> r.g]

\* One run that waits until in, and one that takes an edge with its label.
Waits(A, m, in, w) ==
    \E t \in in.first .. in.second :
        /\ m.g <= t
        /\ w = Moment(m.loc, Elapse(m.x, t - m.g), t)
        /\ Meets(w.x, A.invariant[w.loc])

JumpsBy(A, w, e, r) ==
    /\ e.from = w.loc /\ Meets(w.x, e.guard)
    /\ r = Moment(e.to, Reset(w.x, e.reset), w.g)
    /\ Meets(r.x, A.invariant[r.loc])

Jumps(A, w, label, r) ==
    \E i \in DOMAIN A.edges : A.edges[i].label = label /\ JumpsBy(A, w, A.edges[i], r)

Stays(A, in) == Foreign(A, in.label) \/ in.type = "OPTIONAL"

LEMMA WaitedIs ==
    ASSUME NEW A, NEW R, NEW in
    PROVE  \A w : w \in Waited(A, R, in) <=> \E m \in R : Waits(A, m, in, w)
  <1>1. ASSUME NEW w, w \in Waited(A, R, in) PROVE \E m \in R : Waits(A, m, in, w)
    <2>1. PICK n \in R \X (in.first .. in.second) :
             /\ n[1].g <= n[2]
             /\ w = Moment(n[1].loc, Elapse(n[1].x, n[2] - n[1].g), n[2])
             /\ Meets(w.x, A.invariant[w.loc])
      BY <1>1 DEF Waited
    <2> QED
      BY <2>1 DEF Waits
  <1>2. ASSUME NEW w, NEW m \in R, Waits(A, m, in, w) PROVE w \in Waited(A, R, in)
    <2>1. PICK t \in in.first .. in.second :
             /\ m.g <= t
             /\ w = Moment(m.loc, Elapse(m.x, t - m.g), t)
             /\ Meets(w.x, A.invariant[w.loc])
      BY <1>2 DEF Waits
    <2> DEFINE n == <<m, t>>
    <2>2. n \in R \X (in.first .. in.second) /\ n[1] = m /\ n[2] = t
      OBVIOUS
    <2> HIDE DEF n
    <2> QED
      BY <2>1, <2>2 DEF Waited
  <1> QED
    BY <1>1, <1>2

LEMMA JumpedIs ==
    ASSUME NEW A, NEW M, NEW label
    PROVE  \A r : r \in Jumped(A, M, label) <=> \E w \in M : Jumps(A, w, label, r)
  <1>1. ASSUME NEW r, r \in Jumped(A, M, label) PROVE \E w \in M : Jumps(A, w, label, r)
    <2>1. PICK j \in M \X {e \in Edges(A) : e.label = label} :
             /\ j[2].from = j[1].loc
             /\ Meets(j[1].x, j[2].guard)
             /\ Meets(Reset(j[1].x, j[2].reset), A.invariant[j[2].to])
             /\ r = Moment(j[2].to, Reset(j[1].x, j[2].reset), j[1].g)
      BY <1>1 DEF Jumped
    <2>2. PICK i \in DOMAIN A.edges : j[2] = A.edges[i]
      BY DEF Edges
    <2>3. j[1] \in M /\ A.edges[i].label = label
      BY <2>2
    <2>4. r.x = Reset(j[1].x, j[2].reset) /\ r.loc = j[2].to
      BY <2>1 DEF Moment
    <2>5. JumpsBy(A, j[1], A.edges[i], r)
      BY <2>1, <2>2, <2>4 DEF JumpsBy
    <2> QED
      BY <2>3, <2>5 DEF Jumps
  <1>2. ASSUME NEW r, NEW w \in M, Jumps(A, w, label, r) PROVE r \in Jumped(A, M, label)
    <2>1. PICK i \in DOMAIN A.edges : A.edges[i].label = label /\ JumpsBy(A, w, A.edges[i], r)
      BY <1>2 DEF Jumps
    <2> DEFINE j == <<w, A.edges[i]>>
    <2>2. j \in M \X {e \in Edges(A) : e.label = label} /\ j[1] = w /\ j[2] = A.edges[i]
      BY <2>1 DEF Edges
    <2> HIDE DEF j
    <2>3. r.x = Reset(w.x, j[2].reset) /\ r.loc = j[2].to
      BY <2>1, <2>2 DEF Moment, JumpsBy
    <2>4. /\ j[2].from = j[1].loc
          /\ Meets(j[1].x, j[2].guard)
          /\ Meets(Reset(j[1].x, j[2].reset), A.invariant[j[2].to])
          /\ r = Moment(j[2].to, Reset(j[1].x, j[2].reset), j[1].g)
      BY <2>1, <2>2, <2>3 DEF JumpsBy
    <2> QED
      BY <2>2, <2>4 DEF Jumped
  <1> QED
    BY <1>1, <1>2

\* A run that an observation allows has waited, and may have taken an edge then.
LEMMA RunsAfterIs ==
    ASSUME NEW A, NEW R, NEW in
    PROVE  \A r : r \in RunsAfter(A, R, in) <=>
               \E m \in R : \E w : /\ Waits(A, m, in, w)
                                   /\ \/ Stays(A, in) /\ r = w
                                      \/ ~Foreign(A, in.label) /\ Jumps(A, w, in.label, r)
  BY WaitedIs, JumpedIs DEF RunsAfter, Stays

-----------------------------------------------------------------------------
(***************************************************************************)
(* What a run can become is a run, and was accepted if that is.            *)
(***************************************************************************)
LEMMA WaitsOn ==
    ASSUME NEW n \in DOMAIN Setup, NEW s \in Sides, NEW in \in Setup[n].inputs,
           NEW m \in Moments(n, s), NEW w, Waits(Aut(n, s), m, in, w)
    PROVE  /\ w \in Moments(n, s) /\ Meets(w.x, Aut(n, s).invariant[w.loc])
           /\ Meets(m.x, Aut(n, s).invariant[m.loc]) /\ Accepts(n, s, w) => Accepts(n, s, m)
  <1> DEFINE A == Aut(n, s)
             h == Setup[n].horizon
  <1>1. h \in Nat /\ IsInput(in, h) /\ IsClosed(A, Space(n, s))
    BY Given
  <1>2. in.first \in 0 .. h /\ in.second \in in.first .. h
    BY <1>1 DEF IsInput
  <1>3. PICK t \in in.first .. in.second :
           /\ m.g <= t
           /\ w = Moment(m.loc, Elapse(m.x, t - m.g), t)
           /\ Meets(w.x, A.invariant[w.loc])
    BY DEF Waits
  <1>4. m.loc \in A.locations /\ m.x \in Valuations(A) /\ m.g \in 0 .. h
    BY DEF Moments
  <1>5. t \in 0 .. h /\ t - m.g \in Nat
    <2> HIDE DEF h
    <2> QED
      BY <1>1, <1>2, <1>3, <1>4
  <1>6. Elapse(m.x, t - m.g) \in Valuations(A)
    BY <1>4, <1>5, ElapseTyped
  <1>7. w.loc = m.loc /\ w.x = Elapse(m.x, t - m.g) /\ w.g = t
    BY <1>3 DEF Moment
  <1>8. w \in Moments(n, s)
    BY <1>3, <1>4, <1>5, <1>6 DEF Moments, Moment
  <1>9. Meets(m.x, A.invariant[m.loc]) /\ Accepts(n, s, w) => Accepts(n, s, m)
    <2> SUFFICES ASSUME Meets(m.x, A.invariant[m.loc]), Accepts(n, s, w)
                 PROVE  m.x \in Points(Space(n, s)[m.loc])
      BY DEF Accepts
    <2>1. Elapse(m.x, t - m.g) \in Points(Space(n, s)[m.loc])
      BY <1>7 DEF Accepts
    <2> HIDE DEF A
    <2> QED
      BY <1>1, <1>4, <1>5, <2>1, SpaceBeforeWaiting
  <1> QED
    BY <1>3, <1>8, <1>9

LEMMA JumpsOn ==
    ASSUME NEW n \in DOMAIN Setup, NEW s \in Sides, NEW i \in DOMAIN Aut(n, s).edges,
           NEW w \in Moments(n, s), NEW r, JumpsBy(Aut(n, s), w, Aut(n, s).edges[i], r)
    PROVE  /\ r \in Moments(n, s) /\ Meets(r.x, Aut(n, s).invariant[r.loc])
           /\ Meets(w.x, Aut(n, s).invariant[w.loc]) /\ Accepts(n, s, r) => Accepts(n, s, w)
  <1> DEFINE A == Aut(n, s)
             e == A.edges[i]
  <1>1. IsAutomaton(A) /\ IsClosed(A, Space(n, s))
    BY Given
  <1>2. e.from = w.loc /\ Meets(w.x, e.guard) /\ r = Moment(e.to, Reset(w.x, e.reset), w.g)
        /\ Meets(r.x, A.invariant[r.loc])
    BY DEF JumpsBy
  <1>3. e.to \in A.locations
    BY <1>1, EdgesTyped
  <1>4. w.x \in Valuations(A) /\ w.g \in 0 .. Setup[n].horizon
    BY DEF Moments
  <1>5. Reset(w.x, e.reset) \in Valuations(A)
    BY <1>4, ResetTyped
  <1>6. r \in Moments(n, s)
    BY <1>2, <1>3, <1>4, <1>5 DEF Moments, Moment
  <1>7. Meets(w.x, A.invariant[w.loc]) /\ Accepts(n, s, r) => Accepts(n, s, w)
    <2> SUFFICES ASSUME Meets(w.x, A.invariant[e.from]), Accepts(n, s, r)
                 PROVE  w.x \in Points(Space(n, s)[e.from])
      BY <1>2 DEF Accepts
    <2>1. Reset(w.x, e.reset) \in Points(Space(n, s)[e.to])
      BY <1>2 DEF Accepts, Moment
    <2>2. i \in DOMAIN A.edges
      OBVIOUS
    <2> HIDE DEF A
    <2> QED
      BY <1>1, <1>2, <1>4, <2>1, <2>2, SpaceBeforeEdge
  <1> QED
    BY <1>2, <1>6, <1>7

LEMMA AfterGenuine ==
    ASSUME NEW n \in DOMAIN Setup, NEW s \in Sides, NEW in \in Setup[n].inputs,
           NEW R, Genuine(n, s, R)
    PROVE  /\ Genuine(n, s, Waited(Aut(n, s), R, in))
           /\ Genuine(n, s, RunsAfter(Aut(n, s), R, in))
  <1> DEFINE A == Aut(n, s)
  <1>1. ASSUME NEW w, NEW m \in R, Waits(A, m, in, w)
        PROVE  w \in Moments(n, s) /\ Meets(w.x, A.invariant[w.loc])
    BY <1>1, WaitsOn DEF Genuine
  <1>2. ASSUME NEW w \in Moments(n, s), NEW r, Jumps(A, w, in.label, r)
        PROVE  r \in Moments(n, s) /\ Meets(r.x, A.invariant[r.loc])
    <2>1. PICK i \in DOMAIN A.edges : JumpsBy(A, w, A.edges[i], r)
      BY <1>2 DEF Jumps
    <2> QED
      BY <2>1, JumpsOn
  <1>3. Genuine(n, s, Waited(A, R, in))
    BY <1>1, WaitedIs DEF Genuine
  <1>4. Genuine(n, s, RunsAfter(A, R, in))
    BY <1>1, <1>2, RunsAfterIs DEF Genuine
  <1> QED
    BY <1>3, <1>4

\* A run that is accepted after the observation comes from one that was accepted before.
LEMMA AcceptedBefore ==
    ASSUME NEW n \in DOMAIN Setup, NEW s \in Sides, NEW in \in Setup[n].inputs,
           NEW R, Genuine(n, s, R),
           NEW r \in RunsAfter(Aut(n, s), R, in), Accepts(n, s, r)
    PROVE  \E m \in R : Accepts(n, s, m) /\ r \in RunsAfter(Aut(n, s), {m}, in)
  <1> DEFINE A == Aut(n, s)
  <1>1. PICK m \in R : \E w : /\ Waits(A, m, in, w)
                              /\ \/ Stays(A, in) /\ r = w
                                 \/ ~Foreign(A, in.label) /\ Jumps(A, w, in.label, r)
    BY RunsAfterIs
  <1>2. PICK w : /\ Waits(A, m, in, w)
                 /\ \/ Stays(A, in) /\ r = w
                    \/ ~Foreign(A, in.label) /\ Jumps(A, w, in.label, r)
    BY <1>1
  <1>3. m \in Moments(n, s) /\ Meets(m.x, A.invariant[m.loc])
    BY DEF Genuine
  <1>4. w \in Moments(n, s) /\ Meets(w.x, A.invariant[w.loc])
        /\ (Accepts(n, s, w) => Accepts(n, s, m))
    BY <1>2, <1>3, WaitsOn
  <1>5. Accepts(n, s, w)
    <2>1. CASE r = w
      BY <2>1
    <2>2. CASE Jumps(A, w, in.label, r)
      <3>1. PICK i \in DOMAIN A.edges : JumpsBy(A, w, A.edges[i], r)
        BY <2>2 DEF Jumps
      <3> QED
        BY <1>4, <3>1, JumpsOn
    <2> QED
      BY <1>2, <2>1, <2>2
  <1>6. r \in RunsAfter(A, {m}, in)
    BY <1>2, RunsAfterIs
  <1> QED
    BY <1>4, <1>5, <1>6

\* The space does not tell a point from the run it tells of.
LEMMA TellsAccepted ==
    ASSUME NEW n \in DOMAIN Setup, NEW s \in Sides, NEW p \in PointsOf(n, s),
           NEW l \in Aut(n, s).locations, NEW r \in Moments(n, s), Tells(n, s, p, l, r)
    PROVE  p.x \in Points(Space(n, s)[l]) => Accepts(n, s, r)
  <1> DEFINE A == Aut(n, s)
             D == Trusted(n, s)
  <1>1. IsIndifferent(A, Space(n, s)) /\ D \in [A.locations -> SUBSET A.clocks] /\ Reads(A, D)
    BY Given, TrustedSuffice
  <1> HIDE DEF A, D
  <1>2. Ignores(A, D[l], Points(Space(n, s)[l]))
    BY <1>1 DEF IsIndifferent, A
  <1>3. r.x \in Valuations(A) /\ r.loc = l /\ \A c \in D[l] : p.x[c] = r.x[c]
    BY DEF Moments, Tells, D, A
  <1> QED
    BY <1>2, <1>3 DEF Ignores, Accepts

-----------------------------------------------------------------------------
(***************************************************************************)
(* The operations on states: what their points tell of, and which points   *)
(* they have.  First the delay to an observation.                          *)
(***************************************************************************)
LEMMA RestrictedIs ==
    ASSUME NEW F, NEW constraints
    PROVE  /\ \A Z \in restrict_state(F, constraints) : Z # {} /\
                 \A p \in Z : Meets(p.x, constraints) /\ Holds(F, p)
           /\ \A p : Holds(F, p) /\ Meets(p.x, constraints)
                 => Holds(restrict_state(F, constraints), p)
  <1>1. ASSUME NEW Z \in restrict_state(F, constraints)
        PROVE  Z # {} /\ \A p \in Z : Meets(p.x, constraints) /\ Holds(F, p)
    BY DEF restrict_state, Holds
  <1>2. ASSUME NEW p, Holds(F, p), Meets(p.x, constraints)
        PROVE  Holds(restrict_state(F, constraints), p)
    <2>1. PICK Z \in F : p \in Z
      BY <1>2 DEF Holds
    <2> DEFINE W == {q \in Z : Meets(q.x, constraints)}
    <2>2. p \in W /\ W \in restrict_state(F, constraints)
      BY <1>2, <2>1 DEF restrict_state
    <2> QED
      BY <2>2 DEF Holds
  <1> QED
    BY <1>1, <1>2

LEMMA DelayIs ==
    ASSUME NEW F, NEW in
    PROVE  /\ \A Z \in delay(F, in) : \A p \in Z :
                 \E q, t : Holds(F, q) /\ t \in in.first .. in.second /\ q.g <= t /\ p = At(q, t)
           /\ \A q, t : Holds(F, q) /\ t \in in.first .. in.second /\ q.g <= t
                 => Holds(delay(F, in), At(q, t))
  <1>1. ASSUME NEW Z \in delay(F, in), NEW p \in Z
        PROVE  \E q, t : Holds(F, q) /\ t \in in.first .. in.second /\ q.g <= t /\ p = At(q, t)
    <2>1. PICK Y \in F : Z = {At(m[1], m[2]) : m \in {n \in Y \X (in.first .. in.second) : n[1].g <= n[2]}}
      BY DEF delay
    <2>2. PICK m \in Y \X (in.first .. in.second) : m[1].g <= m[2] /\ p = At(m[1], m[2])
      BY <2>1
    <2> QED
      BY <2>1, <2>2 DEF Holds
  <1>2. ASSUME NEW q, NEW t, Holds(F, q), t \in in.first .. in.second, q.g <= t
        PROVE  Holds(delay(F, in), At(q, t))
    <2>1. PICK Y \in F : q \in Y
      BY <1>2 DEF Holds
    <2> DEFINE Z == {At(m[1], m[2]) : m \in {n \in Y \X (in.first .. in.second) : n[1].g <= n[2]}}
               k == <<q, t>>
    <2>2. k \in Y \X (in.first .. in.second) /\ k[1] = q /\ k[2] = t
      BY <1>2, <2>1
    <2> HIDE DEF k
    <2>3. At(q, t) \in Z
      BY <1>2, <2>2
    <2>4. Z \in delay(F, in)
      BY <2>1, <2>3 DEF delay
    <2> QED
      BY <2>3, <2>4 DEF Holds
  <1> QED
    BY <1>1, <1>2

LEMMA DelayedTells ==
    ASSUME NEW n \in DOMAIN Setup, NEW s \in Sides, NEW in \in Setup[n].inputs,
           NEW R, Genuine(n, s, R), NEW l \in Aut(n, s).locations, NEW F, Copied(n, s, l, F, R),
           NEW G, G = restrict_state(delay(F, in), Aut(n, s).invariant[l])
    PROVE  /\ Copied(n, s, l, G, Waited(Aut(n, s), R, in)) /\ {} \notin G
           /\ \A Z \in G : \A p \in Z : Meets(p.x, Aut(n, s).invariant[l])
  <1> DEFINE A == Aut(n, s)
             D == Trusted(n, s)
             h == Setup[n].horizon
  <1>1. h \in Nat /\ IsInput(in, h) /\ IsAutomaton(A)
    BY Given
  <1>2. in.first \in 0 .. h /\ in.second \in in.first .. h
    BY <1>1 DEF IsInput
  <1>3. D[l] \in SUBSET A.clocks /\ ReadAt(A, l) \subseteq D[l]
    BY TrustedSuffice DEF Reads
  <1>4. \A c \in A.invariant[l] : c.clock \in D[l]
    BY <1>3 DEF ReadAt
  <1>5. ASSUME NEW Z \in G, NEW p \in Z
        PROVE  /\ p \in PointsOf(n, s) /\ Meets(p.x, A.invariant[l])
               /\ \E w \in Waited(A, R, in) : Tells(n, s, p, l, w)
    <2>1. Meets(p.x, A.invariant[l]) /\ Holds(delay(F, in), p)
      BY RestrictedIs
    <2>2. PICK q, t : Holds(F, q) /\ t \in in.first .. in.second /\ q.g <= t /\ p = At(q, t)
      BY <2>1, DelayIs DEF Holds
    <2>3. q \in PointsOf(n, s)
      BY <2>2 DEF Holds, Copied
    <2>4. PICK m \in R : Tells(n, s, q, l, m)
      BY <2>2 DEF Holds, Copied
    <2>5. m \in Moments(n, s) /\ q.x \in Valuations(A) /\ q.g \in 0 .. h
          /\ m.x \in Valuations(A) /\ m.loc = l /\ m.g = q.g
      BY <2>3, <2>4 DEF Genuine, PointsOf, Moments, Tells
    <2>6. t \in 0 .. h /\ t - q.g \in Nat
      <3> HIDE DEF h
      <3> QED
        BY <1>1, <1>2, <2>2, <2>5
    <2> DEFINE d == t - q.g
               w == Moment(l, Elapse(m.x, d), t)
    <2>7. p.x = Elapse(q.x, d) /\ p.g = t /\ p = [x |-> Elapse(q.x, d), g |-> t]
      BY <2>2 DEF At
    <2>8. Elapse(q.x, d) \in Valuations(A)
      BY <2>5, <2>6, ElapseTyped
    <2>9. p \in PointsOf(n, s)
      BY <2>6, <2>7, <2>8 DEF PointsOf
    <2>10. \A c \in D[l] : Elapse(q.x, d)[c] = Elapse(m.x, d)[c]
      <3>1. \A c \in D[l] : q.x[c] = m.x[c]
        BY <2>4 DEF Tells
      <3> HIDE DEF d, D, A
      <3> QED
        BY <1>3, <2>5, <3>1, AgreeLater
    <2>11. w.x = Elapse(m.x, d) /\ w.loc = l /\ w.g = t
      BY DEF Moment
    <2>12. Meets(w.x, A.invariant[w.loc])
      <3> HIDE DEF d, w, D, A
      <3>1. \A c \in D[l] : p.x[c] = w.x[c]
        BY <2>7, <2>10, <2>11
      <3>2. Meets(w.x, A.invariant[l])
        <4>1. \A c \in A.invariant[l] : p.x[c.clock] = w.x[c.clock]
          BY <1>4, <3>1
        <4> QED
          BY <2>1, <4>1, MeetsAlike
      <3> QED
        BY <2>11, <3>2
    <2>13. Waits(A, m, in, w)
      BY <2>2, <2>5, <2>12 DEF Waits
    <2>14. w \in Waited(A, R, in)
      BY <2>13, WaitedIs
    <2>15. Tells(n, s, p, l, w)
      BY <2>7, <2>10, <2>11 DEF Tells
    <2> QED
      BY <2>1, <2>9, <2>14, <2>15
  <1>6. {} \notin G
    BY RestrictedIs
  <1> QED
    BY <1>5, <1>6 DEF Copied

LEMMA DelayedHolds ==
    ASSUME NEW A, NEW in, NEW l, NEW F, NEW q, Holds(F, q),
           NEW w, Waits(A, Moment(l, q.x, q.g), in, w)
    PROVE  w.loc = l /\ Holds(restrict_state(delay(F, in), A.invariant[l]), Point(w))
  <1> DEFINE m == Moment(l, q.x, q.g)
  <1>1. m.g = q.g /\ m.x = q.x /\ m.loc = l
    BY DEF Moment
  <1>2. Waits(A, m, in, w)
    OBVIOUS
  <1> HIDE DEF m
  <1>3. PICK t \in in.first .. in.second :
           /\ m.g <= t
           /\ w = Moment(m.loc, Elapse(m.x, t - m.g), t)
           /\ Meets(w.x, A.invariant[w.loc])
    BY <1>2, Zenon DEF Waits
  <1>4. w.loc = l /\ Point(w) = At(q, t) /\ Point(w).x = w.x
    BY <1>1, <1>3 DEF Moment, Point, At
  <1>5. Holds(delay(F, in), Point(w))
    BY <1>1, <1>3, <1>4, DelayIs
  <1> QED
    BY <1>3, <1>4, <1>5, RestrictedIs

(***************************************************************************)
(* Then the intersection with the accepting space, and the clocks that are *)
(* freed after it.                                                         *)
(***************************************************************************)
LEMMA IntersectionIs ==
    ASSUME NEW F, NEW G
    PROVE  /\ \A Z \in intersection(F, G) : Z # {} /\
                 \A p \in Z : Holds(F, p) /\ p.x \in Points(G)
           /\ \A p : Holds(F, p) /\ p.x \in Points(G) => Holds(intersection(F, G), p)
  <1>1. ASSUME NEW Z \in intersection(F, G)
        PROVE  Z # {} /\ \A p \in Z : Holds(F, p) /\ p.x \in Points(G)
    BY DEF intersection, Holds, Points
  <1>2. ASSUME NEW p, Holds(F, p), p.x \in Points(G) PROVE Holds(intersection(F, G), p)
    <2>1. PICK Z \in F, W \in G : p \in Z /\ p.x \in W
      BY <1>2 DEF Holds, Points
    <2> DEFINE both == {q \in Z : q.x \in W}
    <2>2. p \in both /\ both \in intersection(F, G)
      BY <2>1 DEF intersection
    <2> QED
      BY <2>2 DEF Holds
  <1> QED
    BY <1>1, <1>2

LEMMA FreedIs ==
    ASSUME NEW F, NEW A, NEW R, F \subseteq SUBSET [x : Valuations(A), g : 0 .. Horizon]
    PROVE  /\ \A W \in free_state(A, F, R) : \A q \in W :
                 /\ q \in [x : Valuations(A), g : 0 .. Horizon]
                 /\ \E p : Holds(F, p) /\ q.g = p.g /\ \A c \in A.clocks \ R : q.x[c] = p.x[c]
           /\ \A p : Holds(F, p) => Holds(free_state(A, F, R), p)
           /\ {} \notin F => {} \notin free_state(A, F, R)
  <1> DEFINE All == [x : Valuations(A), g : 0 .. Horizon]
             freed(Z) == {q \in All : \E p \in Z : q.g = p.g /\ \A c \in A.clocks \ R : q.x[c] = p.x[c]}
  <1>1. free_state(A, F, R) = {freed(Z) : Z \in F}
    BY DEF free_state
  <1>2. \A Z \in F : Z \subseteq freed(Z)
    OBVIOUS
  <1>3. ASSUME NEW W \in free_state(A, F, R), NEW q \in W
        PROVE  q \in All /\ \E p : Holds(F, p) /\ q.g = p.g /\ \A c \in A.clocks \ R : q.x[c] = p.x[c]
    BY <1>1 DEF Holds
  <1> HIDE DEF freed, All
  <1>4. \A p : Holds(F, p) => Holds(free_state(A, F, R), p)
    BY <1>1, <1>2 DEF Holds
  <1>5. {} \notin F => {} \notin free_state(A, F, R)
    BY <1>1, <1>2
  <1> QED
    BY <1>3, <1>4, <1>5 DEF All

LEMMA AcceptedTells ==
    ASSUME setup \in DOMAIN Setup, side \in Sides,
           NEW M, Genuine(setup, side, M), NEW l \in Aut(setup, side).locations,
           NEW F, Copied(setup, side, l, F, M), NEW G, G = Accepted(l, F)
    PROVE  /\ G \subseteq SUBSET PointsOf(setup, side) /\ {} \notin G
           /\ \A Z \in G : \A p \in Z :
                 \E m \in M : Accepts(setup, side, m) /\ Tells(setup, side, p, l, m)
           /\ \A p : Holds(F, p) /\ p.x \in Points(Space(setup, side)[l]) => Holds(G, p)
  <1> DEFINE A == Aut(setup, side)
             D == Trusted(setup, side)[l]
             K == intersection(F, Space(setup, side)[l])
             R == InactiveClocks[setup][side][l]
  <1>1. G = IF Abstracts(setup) THEN free_state(A, K, R) ELSE K
    BY Zenon DEF Accepted, abstracted, accepting_space, Space, Inclusion, ClockAbstraction,
                 Abstracts, Aut, automaton, inactive_clocks
  <1>2. \A Z \in K : Z # {} /\ \A p \in Z : Holds(F, p) /\ p.x \in Points(Space(setup, side)[l])
    BY IntersectionIs
  <1>3. \A p : Holds(F, p) /\ p.x \in Points(Space(setup, side)[l]) => Holds(K, p)
    BY IntersectionIs
  <1> HIDE DEF K
  <1>4. K \subseteq SUBSET PointsOf(setup, side) /\ {} \notin K
    BY <1>2 DEF Copied, Holds
  <1>5. ASSUME NEW p, Holds(K, p)
        PROVE  \E m \in M : Accepts(setup, side, m) /\ Tells(setup, side, p, l, m)
    <2>1. Holds(F, p) /\ p.x \in Points(Space(setup, side)[l]) /\ p \in PointsOf(setup, side)
      BY <1>2, <1>4, <1>5 DEF Holds
    <2>2. PICK m \in M : Tells(setup, side, p, l, m)
      BY <2>1 DEF Copied, Holds
    <2>3. m \in Moments(setup, side)
      BY DEF Genuine
    <2> QED
      BY <2>1, <2>2, <2>3, TellsAccepted
  <1>6. CASE ~Abstracts(setup)
    BY <1>1, <1>3, <1>4, <1>5, <1>6 DEF Holds
  <1>7. CASE Abstracts(setup)
    <2>1. G = free_state(A, K, R) /\ PointsOf(setup, side) = [x : Valuations(A), g : 0 .. Horizon]
      BY <1>1, <1>7 DEF PointsOf, Horizon
    <2>2. K \subseteq SUBSET [x : Valuations(A), g : 0 .. Horizon]
      BY <1>4, <2>1
    <2>3. D = A.clocks \ R
      BY <1>7 DEF Trusted
    <2> HIDE DEF A, R, D
    <2>4. G \subseteq SUBSET PointsOf(setup, side) /\ {} \notin G /\ \A p : Holds(K, p) => Holds(G, p)
      BY <1>4, <2>1, <2>2, FreedIs
    <2>5. ASSUME NEW Z \in G, NEW q \in Z
          PROVE  \E m \in M : Accepts(setup, side, m) /\ Tells(setup, side, q, l, m)
      <3>1. PICK p : Holds(K, p) /\ q.g = p.g /\ \A c \in A.clocks \ R : q.x[c] = p.x[c]
        BY <2>1, <2>2, FreedIs
      <3>2. PICK m \in M : Accepts(setup, side, m) /\ Tells(setup, side, p, l, m)
        BY <1>5, <3>1
      <3>3. Tells(setup, side, q, l, m)
        BY <2>3, <3>1, <3>2 DEF Tells, D
      <3> QED
        BY <3>2, <3>3
    <2> QED
      BY <1>3, <2>4, <2>5
  <1> QED
    BY <1>6, <1>7

(***************************************************************************)
(* Last an edge: the guard, the resets, and the invariant behind it.       *)
(***************************************************************************)
LEMMA TransitionIs ==
    ASSUME NEW F, NEW e
    PROVE  /\ \A Z \in do_transition(F, e) : \A p \in Z :
                 \E q : Holds(F, q) /\ Meets(q.x, e.guard) /\ p = [x |-> Reset(q.x, e.reset), g |-> q.g]
           /\ \A q : Holds(F, q) /\ Meets(q.x, e.guard)
                 => Holds(do_transition(F, e), [x |-> Reset(q.x, e.reset), g |-> q.g])
  <1> DEFINE G == restrict_state(F, e.guard)
             after(p) == [x |-> Reset(p.x, e.reset), g |-> p.g]
  <1>1. do_transition(F, e) = {{after(p) : p \in Z} : Z \in G}
    BY DEF do_transition
  <1>2. /\ \A p : Holds(G, p) => Holds(F, p) /\ Meets(p.x, e.guard)
        /\ \A p : Holds(F, p) /\ Meets(p.x, e.guard) => Holds(G, p)
    BY RestrictedIs DEF Holds
  <1> HIDE DEF G, after
  <1>3. ASSUME NEW Z \in do_transition(F, e), NEW p \in Z
        PROVE  \E q : Holds(G, q) /\ p = after(q)
    BY <1>1 DEF Holds
  <1>4. ASSUME NEW q, Holds(G, q) PROVE Holds(do_transition(F, e), after(q))
    <2>1. PICK Z \in G : q \in Z
      BY <1>4 DEF Holds
    <2> DEFINE W == {after(p) : p \in Z}
    <2>2. W \in do_transition(F, e)
      BY <1>1
    <2>3. after(q) \in W
      BY <2>1
    <2> QED
      BY <2>2, <2>3 DEF Holds
  <1> QED
    BY <1>2, <1>3, <1>4 DEF after

\* What the points of F become by the edge e is in G.
Follows(A, F, e, G) ==
    \A q, r : Holds(F, q) /\ JumpsBy(A, Moment(e.from, q.x, q.g), e, r) => Holds(G, Point(r))

LEMMA TransitionTells ==
    ASSUME NEW n \in DOMAIN Setup, NEW s \in Sides, NEW i \in DOMAIN Aut(n, s).edges,
           NEW e, e = Aut(n, s).edges[i],
           NEW M, Genuine(n, s, M), NEW F, Copied(n, s, e.from, F, M),
           NEW G, G = restrict_state(do_transition(F, e), Aut(n, s).invariant[e.to])
    PROVE  /\ Copied(n, s, e.to, G, Jumped(Aut(n, s), M, e.label)) /\ {} \notin G
           /\ Follows(Aut(n, s), F, e, G)
  <1> DEFINE A == Aut(n, s)
             D == Trusted(n, s)
  <1>1. /\ e \in Edges(A) /\ e.from \in A.locations /\ e.to \in A.locations
    BY Given, EdgesTyped
  <1>2. /\ D \in [A.locations -> SUBSET A.clocks]
        /\ ReadAt(A, e.from) \subseteq D[e.from] /\ ReadAt(A, e.to) \subseteq D[e.to]
        /\ D[e.to] \ e.reset \subseteq D[e.from]
    BY <1>1, TrustedSuffice DEF Reads
  <1>3. /\ \A c \in e.guard : c.clock \in D[e.from]
        /\ \A c \in A.invariant[e.to] : c.clock \in D[e.to]
    BY <1>1, <1>2 DEF ReadAt
  <1>4. ASSUME NEW Z \in G, NEW p \in Z
        PROVE  p \in PointsOf(n, s) /\ \E r \in Jumped(A, M, e.label) : Tells(n, s, p, e.to, r)
    <2>1. Meets(p.x, A.invariant[e.to]) /\ Holds(do_transition(F, e), p)
      BY RestrictedIs
    <2>2. PICK q : Holds(F, q) /\ Meets(q.x, e.guard) /\ p = [x |-> Reset(q.x, e.reset), g |-> q.g]
      BY <2>1, TransitionIs DEF Holds
    <2>3. q \in PointsOf(n, s)
      BY <2>2 DEF Holds, Copied
    <2>4. PICK m \in M : Tells(n, s, q, e.from, m)
      BY <2>2 DEF Holds, Copied
    <2>5. /\ q.x \in Valuations(A) /\ q.g \in 0 .. Setup[n].horizon
          /\ m.x \in Valuations(A) /\ m.loc = e.from /\ m.g = q.g
          /\ \A c \in D[e.from] : q.x[c] = m.x[c]
      BY <2>3, <2>4 DEF Genuine, PointsOf, Moments, Tells
    <2> DEFINE v == Reset(q.x, e.reset)
               w == Reset(m.x, e.reset)
               r == Moment(e.to, w, m.g)
    <2>6. v \in Valuations(A) /\ p.x = v /\ p.g = q.g
      BY <2>2, <2>5, ResetTyped
    <2>7. p \in PointsOf(n, s)
      BY <2>2, <2>5, <2>6 DEF PointsOf
    <2>8. Meets(m.x, e.guard)
      <3>1. \A c \in e.guard : q.x[c.clock] = m.x[c.clock]
        BY <1>3, <2>5
      <3> QED
        BY <2>2, <3>1, MeetsAlike
    <2>9. \A c \in D[e.to] : v[c] = w[c]
      <3> DEFINE before == D[e.from]
                 behind == D[e.to]
                 R == e.reset
      <3>1. before \in SUBSET A.clocks /\ behind \in SUBSET A.clocks
        BY <1>1, <1>2
      <3>2. behind \ R \subseteq before /\ \A c \in before : q.x[c] = m.x[c]
        BY <1>2, <2>5
      <3>3. q.x \in Valuations(A) /\ m.x \in Valuations(A)
        BY <2>5
      <3> HIDE DEF before, behind, A, R
      <3>4. \A c \in behind : Reset(q.x, R)[c] = Reset(m.x, R)[c]
        BY <3>1, <3>2, <3>3 DEF Reset, Valuations
      <3> QED
        BY <3>4 DEF behind, R
    <2>10. r.x = w /\ r.loc = e.to /\ r.g = m.g
      BY DEF Moment
    <2>11. Meets(r.x, A.invariant[r.loc])
      <3> HIDE DEF v, w, r
      <3>1. \A c \in A.invariant[e.to] : p.x[c.clock] = r.x[c.clock]
        BY <1>3, <2>6, <2>9, <2>10
      <3> QED
        BY <2>1, <2>10, <3>1, MeetsAlike
    <2>12. JumpsBy(A, m, e, r)
      BY <2>5, <2>8, <2>11 DEF JumpsBy
    <2>13. r \in Jumped(A, M, e.label)
      BY <2>12, JumpedIs DEF Jumps
    <2>14. Tells(n, s, p, e.to, r)
      BY <2>5, <2>6, <2>9, <2>10 DEF Tells
    <2> QED
      BY <2>7, <2>13, <2>14
  <1>5. {} \notin G
    BY RestrictedIs
  <1>6. ASSUME NEW q, NEW r, Holds(F, q), JumpsBy(A, Moment(e.from, q.x, q.g), e, r)
        PROVE  Holds(G, Point(r))
    <2>1. /\ Meets(q.x, e.guard) /\ r = Moment(e.to, Reset(q.x, e.reset), q.g)
          /\ Meets(r.x, A.invariant[r.loc])
      BY <1>6 DEF JumpsBy, Moment
    <2>2. Point(r) = [x |-> Reset(q.x, e.reset), g |-> q.g] /\ r.loc = e.to /\ Point(r).x = r.x
      BY <2>1 DEF Point, Moment
    <2>3. Holds(do_transition(F, e), Point(r))
      BY <1>6, <2>1, <2>2, TransitionIs
    <2> QED
      BY <2>1, <2>2, <2>3, RestrictedIs
  <1> QED
    BY <1>4, <1>5, <1>6 DEF Copied, Follows

-----------------------------------------------------------------------------
(***************************************************************************)
(* Lists of states.  The order of push_back always has a last entry, and a *)
(* list that is not empty a first one.                                     *)
(***************************************************************************)
Entries(n, s, S) ==
    \A e \in S : /\ e.loc \in Aut(n, s).locations /\ e.at \in Nat
                 /\ e.fed # {} /\ {} \notin e.fed
                 /\ e.fed \subseteq SUBSET PointsOf(n, s)

Topped(S) == S = {} \/ \E m \in S : \A r \in S : r.at <= m.at

LEMMA FirstIs ==
    ASSUME NEW S, S # {}, \A r \in S : r.at \in Nat
    PROVE  First(S) \in S
  <1> DEFINE N == {r.at : r \in S}
  <1>1. N \in SUBSET Nat /\ N # {}
    OBVIOUS
  <1>2. PICK k \in N : \A m \in N : k <= m
    <2> HIDE DEF N
    <2> QED
      BY <1>1, LeastNumber
  <1>3. \E r \in S : \A q \in S : r.at <= q.at
    BY <1>2
  <1> QED
    BY <1>3, Zenon DEF First

LEMMA LastIs ==
    ASSUME NEW S, Topped(S), \A r \in S : r.at \in Nat
    PROVE  Last(S) \in Nat /\ \A r \in S : r.at <= Last(S)
  <1>1. CASE S = {}
    BY <1>1 DEF Last
  <1>2. CASE S # {}
    <2> DEFINE N == {r.at : r \in S}
               k == CHOOSE m \in N : \A r \in S : r.at <= m
    <2>1. \E m \in N : \A r \in S : r.at <= m
      BY <1>2 DEF Topped
    <2>2. k \in N /\ \A r \in S : r.at <= k
      <3> HIDE DEF N
      <3> QED
        BY <2>1, Zenon
    <2>3. Last(S) = k
      BY <1>2 DEF Last
    <2> HIDE DEF k
    <2> QED
      BY <2>2, <2>3
  <1> QED
    BY <1>1, <1>2

\* What a list gets and, under inclusion, what it keeps when a state is offered.
LEMMA AddStateIs ==
    ASSUME NEW n, NEW s, NEW S, Entries(n, s, S), Topped(S), NEW l \in Aut(n, s).locations,
           NEW F \in SUBSET SUBSET PointsOf(n, s), {} \notin F,
           NEW N, N = AddState(S, l, F)
    PROVE  /\ Entries(n, s, N) /\ Topped(N)
           /\ \A e \in N : e \in S \/ (e.loc = l /\ e.fed = F)
           /\ Inclusion => \A r : \/ Estimates(s, S, r)
                                  \/ r.loc = l /\ Holds(F, Point(r))
                                  => Estimates(s, N, r)
  <1> DEFINE same == {r \in S : r.loc = l}
             add == Inclusion => \A r \in same : ~is_included_in(F, r.fed)
             replace == Inclusion => \A r \in same : is_included_in(r.fed, F)
             kept == IF replace THEN S \ same ELSE S
             new == Entry(l, F, Last(S) + 1)
  <1>1. N = IF F # {} /\ (add \/ replace) THEN kept \cup {new} ELSE S
    BY Zenon DEF AddState
  <1>2. Last(S) \in Nat /\ \A r \in S : r.at <= Last(S)
    BY LastIs DEF Entries
  <1>3. new.loc = l /\ new.fed = F /\ new.at = Last(S) + 1
    BY DEF Entry
  <1>4. kept \subseteq S
    OBVIOUS
  <1>5. ASSUME NEW e \in N PROVE e \in S \/ (e = new /\ F # {})
    BY <1>1, <1>4
  <1> HIDE DEF new
  <1>6. Entries(n, s, N)
    BY <1>2, <1>3, <1>5 DEF Entries
  <1>7. Topped(N)
    <2>1. CASE N = S
      BY <2>1
    <2>2. CASE N = kept \cup {new}
      <3>1. \A r \in S : r.at <= new.at
        BY <1>2, <1>3 DEF Entries
      <3>2. new \in N /\ \A r \in N : r.at <= new.at
        BY <1>2, <1>3, <1>5, <2>2, <3>1
      <3> QED
        BY <3>2 DEF Topped
    <2> HIDE DEF kept, add, replace
    <2> QED
      BY <1>1, <2>1, <2>2
  <1>8. ASSUME Inclusion, NEW r, Estimates(s, S, r) PROVE Estimates(s, N, r)
    <2>4. PICK e \in S : e.loc = r.loc /\ \E Z \in e.fed : [x |-> r.x, g |-> r.g] \in Z
      BY <1>8 DEF Estimates
    <2>1. PICK Z \in e.fed : e.loc = r.loc /\ [x |-> r.x, g |-> r.g] \in Z
      BY <2>4
    <2>2. CASE e \in N
      BY <2>1, <2>2 DEF Estimates
    <2>3. CASE e \notin N
      <3>1. N = kept \cup {new} /\ e \notin kept
        BY <1>1, <2>3
      <3>2. replace /\ e \in same
        BY <3>1
      <3>3. PICK W \in F : Z \subseteq W
        BY <1>8, <2>1, <3>2 DEF is_included_in
      <3> HIDE DEF kept, replace
      <3>4. new \in N /\ W \in new.fed /\ new.loc = r.loc
        BY <1>3, <2>1, <3>1, <3>2, <3>3
      <3> QED
        BY <2>1, <3>3, <3>4 DEF Estimates
    <2> QED
      BY <2>2, <2>3
  <1>9. ASSUME Inclusion, NEW r, r.loc = l, Holds(F, Point(r)) PROVE Estimates(s, N, r)
    <2>1. PICK Z \in F : [x |-> r.x, g |-> r.g] \in Z
      BY <1>9 DEF Holds, Point
    <2>2. CASE add \/ replace
      <3>1. new \in N
        BY <1>1, <2>1, <2>2
      <3> QED
        BY <1>3, <1>9, <2>1, <3>1 DEF Estimates
    <2>3. CASE ~add /\ ~replace
      <3>1. PICK e \in same : is_included_in(F, e.fed)
        BY <2>3
      <3>2. PICK W \in e.fed : Z \subseteq W
        BY <2>1, <3>1 DEF is_included_in
      <3>3. e \in N /\ e.loc = r.loc
        BY <1>1, <1>9, <2>3, <3>1
      <3> QED
        BY <2>1, <3>2, <3>3 DEF Estimates
    <2> HIDE DEF add, replace
    <2> QED
      BY <2>2, <2>3
  <1> QED
    BY <1>3, <1>5, <1>6, <1>7, <1>8, <1>9

-----------------------------------------------------------------------------
(***************************************************************************)
(* A list of states tracks runs: each of its points tells of one that can  *)
(* be accepted, and under inclusion all of these are in it.                *)
(***************************************************************************)
Sound(n, s, S, R) ==
    \A e \in S : \A Z \in e.fed : \A p \in Z :
        \E r \in R : Accepts(n, s, r) /\ Tells(n, s, p, e.loc, r)

Complete(n, s, S, R) ==
    Setup[n].inclusion => \A r \in R : Accepts(n, s, r) => Estimates(s, S, r)

Tracks(n, s, S, R) ==
    /\ Entries(n, s, S) /\ Topped(S)
    /\ Sound(n, s, S, R) /\ Complete(n, s, S, R)

\* In the middle of an observation: runs that come from a state not looked at,
\* and runs through an edge not tried.
From(n, s, T, in, r) ==
    \E e \in T : \E p : /\ Holds(e.fed, p)
                        /\ r \in RunsAfter(Aut(n, s), {Moment(e.loc, p.x, p.g)}, in)

Through(n, s, E, c, r) ==
    \E i \in E : \E p : /\ Holds(c.fed, p)
                        /\ JumpsBy(Aut(n, s), Moment(c.loc, p.x, p.g), Aut(n, s).edges[i], r)

(***************************************************************************)
(* The delayed state c and the copy m on which the edges E are tried: both *)
(* tell of runs that have waited, and of c the copy holds all the points   *)
(* that can be accepted.                                                   *)
(***************************************************************************)
Copies(n, s, in, R, E, c, m) ==
    /\ ~Foreign(Aut(n, s), in.label)
    /\ E \subseteq {i \in DOMAIN Aut(n, s).edges :
                      Aut(n, s).edges[i].from = c.loc /\ Aut(n, s).edges[i].label = in.label}
    /\ c.loc \in Aut(n, s).locations /\ m.loc = c.loc
    /\ Copied(n, s, c.loc, c.fed, Waited(Aut(n, s), R, in))
    /\ Copied(n, s, c.loc, m.fed, Waited(Aut(n, s), R, in))
    /\ Within(c.fed, Aut(n, s).invariant[c.loc])
    /\ \A p : Holds(c.fed, p) /\ p.x \in Points(Space(n, s)[c.loc]) => Holds(m.fed, p)

(***************************************************************************)
(* The list N that is being built, from the list S of runs R: it tells of  *)
(* runs after the observation, and what is missing is still to come.       *)
(***************************************************************************)
Working(n, s, in, R, S, T, E, c, m, N) ==
    /\ T \subseteq S
    /\ Entries(n, s, N) /\ Topped(N) /\ Sound(n, s, N, RunsAfter(Aut(n, s), R, in))
    /\ Setup[n].inclusion =>
          \A r \in RunsAfter(Aut(n, s), R, in) : Accepts(n, s, r) =>
              Estimates(s, N, r) \/ From(n, s, T, in, r) \/ Through(n, s, E, c, r)
    /\ E # {} => Copies(n, s, in, R, E, c, m)
    /\ S = {} => N = {} /\ E = {}

LEMMA WorkBegins ==
    ASSUME NEW n \in DOMAIN Setup, NEW s \in Sides, NEW in \in Setup[n].inputs,
           NEW R, Genuine(n, s, R), NEW S, Tracks(n, s, S, R), NEW c, NEW m
    PROVE  Working(n, s, in, R, S, S, {}, c, m, {})
  <1>1. ASSUME Setup[n].inclusion, NEW r \in RunsAfter(Aut(n, s), R, in), Accepts(n, s, r)
        PROVE  From(n, s, S, in, r)
    <2>1. PICK k \in R : Accepts(n, s, k) /\ r \in RunsAfter(Aut(n, s), {k}, in)
      BY <1>1, AcceptedBefore
    <2>2. Estimates(s, S, k)
      BY <1>1, <2>1 DEF Tracks, Complete
    <2>3. PICK e \in S : e.loc = k.loc /\ \E Z \in e.fed : [x |-> k.x, g |-> k.g] \in Z
      BY <2>2 DEF Estimates
    <2> DEFINE p == [x |-> k.x, g |-> k.g]
    <2>4. Holds(e.fed, p) /\ p.x = k.x /\ p.g = k.g
      BY <2>3 DEF Holds
    <2>5. k \in Moments(n, s)
      BY DEF Genuine
    <2>6. Moment(e.loc, p.x, p.g) = k
      BY <2>3, <2>5 DEF Moment, Moments
    <2> HIDE DEF p
    <2> QED
      BY <2>1, <2>4, <2>6 DEF From
  <1>2. Entries(n, s, {}) /\ Topped({}) /\ Sound(n, s, {}, RunsAfter(Aut(n, s), R, in))
    BY DEF Entries, Topped, Sound
  <1> QED
    BY <1>1, <1>2 DEF Working

LEMMA WorkEnds ==
    ASSUME NEW n, NEW s, NEW in, NEW R, NEW S, NEW c, NEW m, NEW N,
           Working(n, s, in, R, S, {}, {}, c, m, N)
    PROVE  Tracks(n, s, N, RunsAfter(Aut(n, s), R, in)) /\ (S = {} => N = {})
  BY DEF Working, Tracks, Complete, From, Through

\* With what F has in location l the list S has become N.
Gains(n, s, S, l, F, N) ==
    \A r : \/ Estimates(s, S, r)
           \/ r.loc = l /\ Holds(F, Point(r)) /\ Accepts(n, s, r)
           => Estimates(s, N, r)

(***************************************************************************)
(* A state that is offered to the new list, cut to the accepting space:    *)
(* its points F tell of runs M, which are among those after the            *)
(* observation.                                                            *)
(***************************************************************************)
LEMMA Offered ==
    ASSUME setup \in DOMAIN Setup, side \in Sides,
           NEW M, Genuine(setup, side, M), NEW R, M \subseteq R, NEW l \in Aut(setup, side).locations,
           NEW F, Copied(setup, side, l, F, M),
           NEW S, Entries(setup, side, S), Topped(S), Sound(setup, side, S, R),
           NEW N, N = AddState(S, l, Accepted(l, F))
    PROVE  /\ Entries(setup, side, N) /\ Topped(N) /\ Sound(setup, side, N, R)
           /\ Setup[setup].inclusion => Gains(setup, side, S, l, F, N)
  <1> DEFINE G == Accepted(l, F)
  <1>1. /\ G \subseteq SUBSET PointsOf(setup, side) /\ {} \notin G
        /\ \A Z \in G : \A p \in Z :
              \E m \in M : Accepts(setup, side, m) /\ Tells(setup, side, p, l, m)
        /\ \A p : Holds(F, p) /\ p.x \in Points(Space(setup, side)[l]) => Holds(G, p)
    BY AcceptedTells
  <1>2. N = AddState(S, l, G)
    OBVIOUS
  <1> HIDE DEF G
  <1>3. /\ Entries(setup, side, N) /\ Topped(N)
        /\ \A e \in N : e \in S \/ (e.loc = l /\ e.fed = G)
        /\ Inclusion => \A r : \/ Estimates(side, S, r)
                               \/ r.loc = l /\ Holds(G, Point(r))
                               => Estimates(side, N, r)
    BY <1>1, <1>2, AddStateIs
  <1>4. Sound(setup, side, N, R)
    <2> SUFFICES ASSUME NEW e \in N, NEW Z \in e.fed, NEW p \in Z
                 PROVE  \E r \in R : Accepts(setup, side, r) /\ Tells(setup, side, p, e.loc, r)
      BY DEF Sound
    <2>1. CASE e \in S
      BY <2>1 DEF Sound
    <2>2. CASE e.loc = l /\ e.fed = G
      BY <1>1, <2>2
    <2> QED
      BY <1>3, <2>1, <2>2
  <1>5. ASSUME NEW r, r.loc = l, Holds(F, Point(r)), Accepts(setup, side, r)
        PROVE  Holds(G, Point(r))
    <2>1. Point(r).x = r.x
      BY DEF Point
    <2> QED
      BY <1>1, <1>5, <2>1 DEF Accepts
  <1> QED
    BY <1>3, <1>4, <1>5 DEF Inclusion, Gains

\* The state e, delayed, with every run that it tells of and that waits.
Delays(A, in, e, F) ==
    \A p, w : Holds(e.fed, p) /\ Waits(A, Moment(e.loc, p.x, p.g), in, w)
                 => w.loc = e.loc /\ Holds(F, Point(w))

\* So is every state of a list that is looked at.
LEMMA FirstDelayed ==
    ASSUME setup \in DOMAIN Setup, side \in Sides,
           NEW in \in Setup[setup].inputs, input = <<in>>,
           NEW R, Genuine(setup, side, R), NEW S, Entries(setup, side, S), Sound(setup, side, S, R),
           NEW e \in S, NEW F, F = Delayed(e)
    PROVE  /\ e.loc \in Aut(setup, side).locations
           /\ Copied(setup, side, e.loc, F, Waited(Aut(setup, side), R, in))
           /\ Within(F, Aut(setup, side).invariant[e.loc])
           /\ Delays(Aut(setup, side), in, e, F)
  <1> DEFINE A == Aut(setup, side)
  <1>1. e.loc \in A.locations /\ Copied(setup, side, e.loc, e.fed, R)
    BY DEF Entries, Sound, Copied
  <1>2. F = restrict_state(delay(e.fed, in), A.invariant[e.loc])
    BY DEF Delayed, Aut, automaton
  <1>3. /\ Copied(setup, side, e.loc, F, Waited(A, R, in))
        /\ \A Z \in F : \A p \in Z : Meets(p.x, A.invariant[e.loc])
    BY <1>1, <1>2, DelayedTells
  <1>4. ASSUME NEW p, NEW w, Holds(e.fed, p), Waits(A, Moment(e.loc, p.x, p.g), in, w)
        PROVE  w.loc = e.loc /\ Holds(F, Point(w))
    <2> DEFINE l == e.loc
               G == e.fed
    <2>1. Holds(G, p) /\ Waits(A, Moment(l, p.x, p.g), in, w)
      BY <1>4
    <2>2. F = restrict_state(delay(G, in), A.invariant[l])
      BY <1>2
    <2> HIDE DEF l, G, A
    <2>3. w.loc = l /\ Holds(restrict_state(delay(G, in), A.invariant[l]), Point(w))
      BY <2>1, DelayedHolds
    <2> QED
      BY <2>2, <2>3 DEF l
  <1> QED
    BY <1>1, <1>3, <1>4 DEF Holds, Within, Delays

-----------------------------------------------------------------------------
(***************************************************************************)
(* The steps of an observation keep the work going: a state is looked at   *)
(* that no edge can leave, a state is delayed, an edge is tried.           *)
(***************************************************************************)
LEMMA AfterOnlyDelay ==
    ASSUME setup \in DOMAIN Setup, side \in Sides,
           NEW in \in Setup[setup].inputs, input = <<in>>, Foreign(Aut(setup, side), in.label),
           NEW R, Genuine(setup, side, R), NEW S, Tracks(setup, side, S, R),
           NEW T, T # {}, NEW c, NEW m, NEW N, Working(setup, side, in, R, S, T, {}, c, m, N),
           NEW e, e = First(T), NEW K, K = AddState(N, e.loc, Accepted(e.loc, Delayed(e)))
    PROVE  Working(setup, side, in, R, S, T \ {e}, {}, c, m, K)
  <1> DEFINE A == Aut(setup, side)
             W == Waited(A, R, in)
             RA == RunsAfter(A, R, in)
             F == Delayed(e)
  <1>1. RA = W
    BY DEF RunsAfter
  <1>2. e \in T /\ e \in S
    BY FirstIs DEF Working, Tracks, Entries
  <1>3. /\ e.loc \in A.locations /\ Copied(setup, side, e.loc, F, W)
        /\ Delays(A, in, e, F)
    BY <1>2, FirstDelayed DEF Tracks
  <1>4. Genuine(setup, side, W)
    BY AfterGenuine
  <1>5. /\ T \subseteq S /\ Entries(setup, side, N) /\ Topped(N) /\ Sound(setup, side, N, RA)
        /\ Setup[setup].inclusion => \A r \in RA : Accepts(setup, side, r) =>
              Estimates(side, N, r) \/ From(setup, side, T, in, r) \/ Through(setup, side, {}, c, r)
    BY DEF Working
  <1>6. K = AddState(N, e.loc, Accepted(e.loc, F))
    OBVIOUS
  <1> DEFINE l == e.loc
  <1> HIDE DEF W, RA, F, l
  <1>7. /\ Entries(setup, side, K) /\ Topped(K) /\ Sound(setup, side, K, RA)
        /\ Setup[setup].inclusion => Gains(setup, side, N, l, F, K)
    <2>1. l \in A.locations /\ Copied(setup, side, l, F, W) /\ K = AddState(N, l, Accepted(l, F))
      BY <1>3, <1>6 DEF l
    <2> QED
      BY <1>1, <1>4, <1>5, <2>1, Offered
  <1>8. ASSUME Setup[setup].inclusion, NEW r \in RA, Accepts(setup, side, r)
        PROVE  Estimates(side, K, r) \/ From(setup, side, T \ {e}, in, r)
    <2>1. CASE Estimates(side, N, r)
      BY <1>7, <1>8, <2>1 DEF Gains
    <2>2. CASE From(setup, side, T, in, r)
      <3>1. PICK f \in T : \E p : Holds(f.fed, p) /\ r \in RunsAfter(A, {Moment(f.loc, p.x, p.g)}, in)
        BY <2>2 DEF From
      <3>2. PICK p : Holds(f.fed, p) /\ r \in RunsAfter(A, {Moment(f.loc, p.x, p.g)}, in)
        BY <3>1
      <3>3. CASE f # e
        BY <3>2, <3>3 DEF From
      <3>4. CASE f = e
        <4>1. Waits(A, Moment(e.loc, p.x, p.g), in, r)
          BY <3>2, <3>4, RunsAfterIs
        <4>2. r.loc = l /\ Holds(F, Point(r))
          BY <1>3, <3>2, <3>4, <4>1 DEF l, Delays
        <4> QED
          BY <1>7, <1>8, <4>2 DEF Gains
      <3> QED
        BY <3>3, <3>4
    <2>3. ~Through(setup, side, {}, c, r)
      BY DEF Through
    <2> QED
      BY <1>5, <1>8, <2>1, <2>2, <2>3
  <1> QED
    BY <1>2, <1>5, <1>7, <1>8 DEF Working, RA

LEMMA AfterDelay ==
    ASSUME setup \in DOMAIN Setup, side \in Sides,
           NEW in \in Setup[setup].inputs, input = <<in>>, ~Foreign(Aut(setup, side), in.label),
           NEW R, Genuine(setup, side, R), NEW S, Tracks(setup, side, S, R),
           NEW T, T # {}, NEW c, NEW m, NEW N, Working(setup, side, in, R, S, T, {}, c, m, N),
           NEW e, e = First(T), NEW F, F = Delayed(e), NEW stay, stay = Accepted(e.loc, F),
           NEW E, E = IF F = {} THEN {} ELSE EdgesOf(e),
           NEW d, d = [loc |-> e.loc, fed |-> F], NEW copy, NEW K,
           \/ in.type = "ONCE" /\ copy = d /\ K = N
           \/ in.type = "OPTIONAL" /\ copy = [loc |-> e.loc, fed |-> stay] /\ K = AddState(N, e.loc, stay)
    PROVE  Working(setup, side, in, R, S, T \ {e}, E, d, copy, K)
  <1> DEFINE A == Aut(setup, side)
             W == Waited(A, R, in)
             RA == RunsAfter(A, R, in)
             l == e.loc
  <1>1. in.type = "OPTIONAL" => W \subseteq RA
    BY DEF RunsAfter
  <1>2. e \in T /\ e \in S
    BY FirstIs DEF Working, Tracks, Entries
  <1>3. /\ l \in A.locations /\ Copied(setup, side, l, F, W)
        /\ Within(F, A.invariant[l]) /\ Delays(A, in, e, F)
    BY <1>2, FirstDelayed DEF Tracks
  <1>4. Genuine(setup, side, W)
    BY AfterGenuine
  <1>5. /\ T \subseteq S /\ Entries(setup, side, N) /\ Topped(N) /\ Sound(setup, side, N, RA)
        /\ Setup[setup].inclusion => \A r \in RA : Accepts(setup, side, r) =>
              Estimates(side, N, r) \/ From(setup, side, T, in, r) \/ Through(setup, side, {}, c, r)
    BY DEF Working
  <1>6. d.loc = l /\ d.fed = F /\ copy.loc = l /\ copy.fed = IF in.type = "ONCE" THEN F ELSE stay
    OBVIOUS
  <1>7. E \subseteq {i \in DOMAIN A.edges : A.edges[i].from = l /\ A.edges[i].label = in.label}
        /\ \A i \in DOMAIN A.edges : F # {} /\ A.edges[i].from = l /\ A.edges[i].label = in.label => i \in E
    BY DEF EdgesOf, automaton, Aut
  <1>8. stay = Accepted(l, F) /\ (in.type = "OPTIONAL" => K = AddState(N, l, stay))
        /\ (in.type = "ONCE" => K = N) /\ in.type \in {"ONCE", "OPTIONAL"}
    OBVIOUS
  <1> HIDE DEF W, RA, l
  <1>9. /\ stay \subseteq SUBSET PointsOf(setup, side)
        /\ \A Z \in stay : \A p \in Z : \E w \in W : Tells(setup, side, p, l, w)
        /\ \A p : Holds(F, p) /\ p.x \in Points(Space(setup, side)[l]) => Holds(stay, p)
    BY <1>3, <1>4, <1>8, AcceptedTells
  <1>10. Copies(setup, side, in, R, E, d, copy)
    BY <1>3, <1>6, <1>7, <1>9 DEF Copies, Copied, Within, W
  <1>11. /\ Entries(setup, side, K) /\ Topped(K) /\ Sound(setup, side, K, RA)
         /\ Setup[setup].inclusion =>
               /\ \A r : Estimates(side, N, r) => Estimates(side, K, r)
               /\ in.type = "OPTIONAL" => Gains(setup, side, N, l, F, K)
    <2>1. CASE in.type = "ONCE"
      BY <1>5, <1>8, <2>1
    <2>2. CASE in.type = "OPTIONAL"
      <3>1. K = AddState(N, l, Accepted(l, F)) /\ W \subseteq RA
        BY <1>1, <1>8, <2>2
      <3>2. Entries(setup, side, N) /\ Topped(N) /\ Sound(setup, side, N, RA)
        BY <1>5
      <3>3. l \in A.locations /\ Copied(setup, side, l, F, W)
        BY <1>3
      <3> QED
        <4>1. /\ Entries(setup, side, K) /\ Topped(K) /\ Sound(setup, side, K, RA)
              /\ Setup[setup].inclusion => Gains(setup, side, N, l, F, K)
          BY <1>4, <3>1, <3>2, <3>3, Offered
        <4> QED
          BY <4>1 DEF Gains
    <2> QED
      BY <1>8, <2>1, <2>2
  <1>12. ASSUME Setup[setup].inclusion, NEW r \in RA, Accepts(setup, side, r)
         PROVE  \/ Estimates(side, K, r) \/ From(setup, side, T \ {e}, in, r)
                \/ Through(setup, side, E, d, r)
    <2>1. CASE Estimates(side, N, r)
      BY <1>11, <1>12, <2>1
    <2>2. CASE From(setup, side, T, in, r)
      <3>1. PICK f \in T : \E p : Holds(f.fed, p) /\ r \in RunsAfter(A, {Moment(f.loc, p.x, p.g)}, in)
        BY <2>2 DEF From
      <3>2. PICK p : Holds(f.fed, p) /\ r \in RunsAfter(A, {Moment(f.loc, p.x, p.g)}, in)
        BY <3>1
      <3>3. CASE f # e
        BY <3>2, <3>3 DEF From
      <3>4. CASE f = e
        <4> DEFINE k == Moment(l, p.x, p.g)
        <4>1. r \in RunsAfter(A, {k}, in)
          BY <3>2, <3>4 DEF l
        <4>2. PICK w : /\ Waits(A, k, in, w)
                       /\ \/ Stays(A, in) /\ r = w
                          \/ Jumps(A, w, in.label, r)
          <5> HIDE DEF k, A
          <5> QED
            BY <4>1, RunsAfterIs
        <4>3. w.loc = l /\ Holds(F, Point(w))
          BY <1>3, <3>2, <3>4, <4>2 DEF l, Delays
        <4>4. CASE Stays(A, in) /\ r = w
          BY <1>11, <1>12, <4>3, <4>4 DEF Stays, Gains
        <4>5. CASE Jumps(A, w, in.label, r)
          <5>1. PICK i \in DOMAIN A.edges : A.edges[i].label = in.label /\ JumpsBy(A, w, A.edges[i], r)
            BY <4>5 DEF Jumps
          <5>2. i \in E
            BY <1>7, <4>3, <5>1 DEF JumpsBy, Holds
          <5>3. w = Moment(w.loc, w.x, w.g)
            BY <4>2 DEF Waits, Moment
          <5>4. Moment(d.loc, Point(w).x, Point(w).g) = w
            BY <1>6, <4>3, <5>3 DEF Point
          <5> QED
            BY <1>6, <4>3, <5>1, <5>2, <5>4 DEF Through
        <4> QED
          BY <4>2, <4>4, <4>5
      <3> QED
        BY <3>3, <3>4
    <2>3. ~Through(setup, side, {}, c, r)
      BY DEF Through
    <2> QED
      BY <1>5, <1>12, <2>1, <2>2, <2>3
  <1> QED
    BY <1>2, <1>5, <1>10, <1>11, <1>12 DEF Working, RA

\* What becomes of G by the edge e is F.
Leads(A, e, G, F) == F = restrict_state(do_transition(G, e), A.invariant[e.to])

LEMMA AfterEdge ==
    ASSUME setup \in DOMAIN Setup, side \in Sides, NEW in \in Setup[setup].inputs,
           NEW R, Genuine(setup, side, R), NEW S,
           NEW T, NEW E, NEW c, NEW m, NEW N, Working(setup, side, in, R, S, T, E, c, m, N),
           NEW i \in E, NEW e, e = Aut(setup, side).edges[i],
           NEW F, Leads(Aut(setup, side), e, m.fed, F),
           NEW K, K = AddState(N, e.to, Accepted(e.to, F)), NEW left, left = E \ {i}
    PROVE  Working(setup, side, in, R, S, T, left, c, c, K)
  <1> DEFINE A == Aut(setup, side)
             W == Waited(A, R, in)
             M == Jumped(A, W, in.label)
             RA == RunsAfter(A, R, in)
             to == e.to
  <1>1. Copies(setup, side, in, R, E, c, m)
    BY DEF Working
  <1>2. /\ ~Foreign(A, in.label) /\ c.loc \in A.locations /\ m.loc = c.loc
        /\ E \subseteq {j \in DOMAIN A.edges : A.edges[j].from = c.loc /\ A.edges[j].label = in.label}
        /\ Copied(setup, side, c.loc, c.fed, W) /\ Copied(setup, side, c.loc, m.fed, W)
        /\ Within(c.fed, A.invariant[c.loc])
        /\ \A p : Holds(c.fed, p) /\ p.x \in Points(Space(setup, side)[c.loc]) => Holds(m.fed, p)
    BY <1>1 DEF Copies
  <1>3. i \in E
    OBVIOUS
  <1>4. i \in DOMAIN A.edges /\ e = A.edges[i] /\ e.from = c.loc /\ e.label = in.label
    BY <1>2, <1>3
  <1>5. to \in A.locations
    BY <1>4, Given, EdgesTyped
  <1>6. M \subseteq RA /\ Genuine(setup, side, W) /\ Genuine(setup, side, M)
    <2>1. M \subseteq RA
      BY <1>2 DEF RunsAfter
    <2>2. Genuine(setup, side, W) /\ Genuine(setup, side, RA)
      BY AfterGenuine
    <2> QED
      BY <2>1, <2>2 DEF Genuine
  <1>7. Copied(setup, side, e.from, m.fed, W) /\ F = restrict_state(do_transition(m.fed, e), A.invariant[e.to])
    BY <1>2, <1>4 DEF Leads
  <1> HIDE DEF W
  <1>8. /\ Copied(setup, side, to, F, M)
        /\ Follows(A, m.fed, e, F)
    <2> DEFINE G == m.fed
    <2>1. Copied(setup, side, e.from, G, W) /\ F = restrict_state(do_transition(G, e), A.invariant[e.to])
      BY <1>7
    <2> HIDE DEF G
    <2>2. /\ Copied(setup, side, e.to, F, Jumped(A, W, e.label))
          /\ Follows(A, G, e, F)
      BY <1>4, <1>6, <2>1, TransitionTells
    <2> QED
      BY <1>4, <2>2 DEF G
  <1>9. /\ Entries(setup, side, N) /\ Topped(N) /\ Sound(setup, side, N, RA)
        /\ Setup[setup].inclusion => \A r \in RA : Accepts(setup, side, r) =>
              Estimates(side, N, r) \/ From(setup, side, T, in, r) \/ Through(setup, side, E, c, r)
    BY DEF Working
  <1>10. K = AddState(N, to, Accepted(to, F))
    OBVIOUS
  <1> HIDE DEF M, RA, to
  <1>11. /\ Entries(setup, side, K) /\ Topped(K) /\ Sound(setup, side, K, RA)
         /\ Setup[setup].inclusion => Gains(setup, side, N, to, F, K)
    BY <1>5, <1>6, <1>8, <1>9, <1>10, Offered
  <1>12. Copies(setup, side, in, R, left, c, c)
    BY <1>2 DEF Copies, W
  <1>13. ASSUME Setup[setup].inclusion, NEW r \in RA, Accepts(setup, side, r)
         PROVE  \/ Estimates(side, K, r) \/ From(setup, side, T, in, r)
                \/ Through(setup, side, left, c, r)
    <2>1. CASE Estimates(side, N, r)
      BY <1>11, <1>13, <2>1 DEF Gains
    <2>2. CASE Through(setup, side, E, c, r)
      <3>1. PICK j \in E : \E p : Holds(c.fed, p) /\ JumpsBy(A, Moment(c.loc, p.x, p.g), A.edges[j], r)
        BY <2>2 DEF Through
      <3>2. PICK p : Holds(c.fed, p) /\ JumpsBy(A, Moment(c.loc, p.x, p.g), A.edges[j], r)
        BY <3>1
      <3>3. CASE j # i
        BY <3>2, <3>3 DEF Through
      <3>4. CASE j = i
        <4> DEFINE w == Moment(c.loc, p.x, p.g)
        <4>1. w.loc = c.loc /\ w.x = p.x /\ JumpsBy(A, w, e, r)
          BY <1>4, <3>2, <3>4 DEF Moment
        <4>2. p \in PointsOf(setup, side)
          BY <1>2, <3>2 DEF Copied, Holds
        <4>3. w \in Moments(setup, side) /\ Meets(w.x, A.invariant[w.loc])
          BY <1>2, <3>2, <4>1, <4>2 DEF Moments, PointsOf, Moment, Within
        <4>4. r.loc = to
          BY <4>1 DEF JumpsBy, Moment, to
        <4>5. Accepts(setup, side, w)
          <5> HIDE DEF w
          <5> QED
            BY <1>4, <1>13, <4>1, <4>3, JumpsOn
        <4>6. Holds(m.fed, p)
          BY <1>2, <3>2, <4>1, <4>5 DEF Accepts
        <4>7. Holds(F, Point(r))
          BY <1>4, <1>8, <4>1, <4>6 DEF Follows
        <4> QED
          BY <1>11, <1>13, <4>4, <4>7 DEF Gains
      <3> QED
        BY <3>3, <3>4
    <2> QED
      BY <1>9, <1>13, <2>1, <2>2
  <1>14. T \subseteq S /\ S # {}
    BY DEF Working
  <1> QED
    BY <1>11, <1>12, <1>13, <1>14 DEF Working, RA

-----------------------------------------------------------------------------
(***************************************************************************)
(* The inductive invariant.  The list of each side tracks the runs of its  *)
(* automaton, on the positive side already those after the observation     *)
(* once the negative monitor handles it; the side that works keeps at it;  *)
(* the verdict follows from who is out, when both have answered.           *)
(***************************************************************************)
Sofar ==
    IF side = "neg" THEN RunsAfter(Aut(setup, "pos"), runs["pos"], input[1]) ELSE runs["pos"]

Framed ==
    /\ setup \in DOMAIN Setup /\ side \in Sides
    /\ (input = << >> /\ side = "pos") \/ (\E in \in Setup[setup].inputs : input = <<in>>)
    /\ DOMAIN states = Sides /\ states = [s \in Sides |-> states[s]]
    /\ status = [s \in Sides |-> StatusOf(states[s])]

Explaining == \A s \in Sides : Genuine(setup, s, runs[s])

Tracking ==
    /\ Tracks(setup, "pos", states["pos"], Sofar)
    /\ Tracks(setup, "neg", states["neg"], runs["neg"])

Handling ==
    Busy => Working(setup, side, input[1], runs[side], states[side],
                    todo, edges, source, moved, next)

Judging ==
    /\ verdict \in {"INCONCLUSIVE", "POSITIVE", "NEGATIVE"}
    /\ verdict = "POSITIVE" <=> states["neg"] = {}
    /\ verdict = "NEGATIVE" => states["pos"] = {}
    /\ side = "pos" /\ states["neg"] # {} /\ states["pos"] = {} => verdict = "NEGATIVE"

Inv == Framed /\ Explaining /\ Tracking /\ Handling /\ Judging

\* The constructor's states track the first runs.
LEMMA FirstTracked ==
    ASSUME setup \in DOMAIN Setup, NEW s \in Sides
    PROVE  /\ Genuine(setup, s, FirstRuns(Aut(setup, s)))
           /\ Tracks(setup, s, initial_states(s), FirstRuns(Aut(setup, s)))
  <1> DEFINE A == Aut(setup, s)
             v == [c \in A.clocks |-> 0]
             zero == [x |-> v, g |-> 0]
             r == Moment(A.initial, v, 0)
             G == Space(setup, s)[A.initial]
             F == intersection({{zero}}, G)
             S == initial_states(s)
  <1>1. CanBegin(A) /\ A.initial \in A.locations /\ Setup[setup].horizon \in Nat
    BY Given
  <1>2. v \in Valuations(A)
    BY CapAssumption DEF Valuations
  <1>3. zero \in PointsOf(setup, s) /\ zero.x = v /\ zero.g = 0
    BY <1>1, <1>2 DEF PointsOf
  <1>4. r.loc = A.initial /\ r.x = v /\ r.g = 0 /\ FirstRuns(A) = {r}
    BY DEF Moment, FirstRuns
  <1>5. r \in Moments(setup, s) /\ Meets(r.x, A.invariant[r.loc])
    BY <1>1, <1>2, <1>4 DEF Moments, Moment, CanBegin
  <1>6. Genuine(setup, s, {r})
    BY <1>5 DEF Genuine
  <1>7. S = IF F = {} THEN {} ELSE {Entry(A.initial, F, 1)}
    BY Zenon DEF initial_states, automaton, accepting_space, Aut, Space
  <1>8. Point(r) = zero
    BY <1>4 DEF Point
  <1>9. Tells(setup, s, zero, A.initial, r)
    BY <1>3, <1>4 DEF Tells
  <1> HIDE DEF zero, r, S, A, G
  <1>10. /\ \A Z \in F : Z # {} /\ \A p \in Z : p = zero /\ p.x \in Points(G)
         /\ zero.x \in Points(G) => Holds(F, zero)
    <2>1. \A p : Holds({{zero}}, p) <=> p = zero
      BY DEF Holds
    <2> QED
      BY <2>1, IntersectionIs
  <1> HIDE DEF F
  <1> DEFINE e == Entry(A.initial, F, 1)
  <1>11. e.loc = A.initial /\ e.fed = F /\ e.at = 1
    BY DEF Entry
  <1>12. F # {} => S = {e}
    BY <1>7
  <1>13. F = {} => S = {}
    BY <1>7
  <1> HIDE DEF e
  <1>14. Entries(setup, s, S) /\ Topped(S)
    BY <1>1, <1>3, <1>10, <1>11, <1>12, <1>13 DEF Entries, Topped, A
  <1>15. Sound(setup, s, S, {r})
    <2> SUFFICES ASSUME NEW f \in S, NEW Z \in f.fed, NEW p \in Z
                 PROVE  Accepts(setup, s, r) /\ Tells(setup, s, p, f.loc, r)
      BY DEF Sound
    <2>1. f = e
      BY <1>12, <1>13
    <2>2. p = zero /\ zero.x \in Points(G)
      BY <1>10, <1>11, <2>1
    <2> QED
      BY <1>3, <1>4, <1>9, <1>11, <2>1, <2>2 DEF Accepts, G
  <1>16. Complete(setup, s, S, {r})
    <2> SUFFICES ASSUME Accepts(setup, s, r) PROVE Estimates(s, S, r)
      BY DEF Complete
    <2>1. Holds(F, zero)
      BY <1>3, <1>4, <1>10 DEF Accepts, G
    <2>2. S = {e}
      BY <1>12, <2>1 DEF Holds
    <2> QED
      BY <1>4, <1>8, <1>11, <2>1, <2>2 DEF Estimates, Holds, Point
  <1> QED
    BY <1>4, <1>6, <1>14, <1>15, <1>16 DEF Tracks, A, S

\* A side whose space has the start of a run begins with a state.
LEMMA FirstOffered ==
    ASSUME setup \in DOMAIN Setup, NEW s \in Sides,
           [c \in Aut(setup, s).clocks |-> 0] \in Points(Space(setup, s)[Aut(setup, s).initial])
    PROVE  initial_states(s) # {}
  <1> DEFINE A == Aut(setup, s)
             zero == [x |-> [c \in A.clocks |-> 0], g |-> 0]
             G == Space(setup, s)[A.initial]
             F == intersection({{zero}}, G)
  <1>1. initial_states(s) = IF F = {} THEN {} ELSE {Entry(A.initial, F, 1)}
    BY Zenon DEF initial_states, automaton, accepting_space, Aut, Space
  <1>2. zero.x \in Points(G)
    OBVIOUS
  <1> HIDE DEF zero, G
  <1>3. Holds(F, zero)
    <2>1. Holds({{zero}}, zero)
      BY DEF Holds
    <2> QED
      BY <1>2, <2>1, IntersectionIs
  <1>4. F # {}
    BY <1>3 DEF Holds
  <1> QED
    BY <1>1, <1>4

LEMMA InvInit == ASSUME Init PROVE Inv
  <1> DEFINE S(s) == initial_states(s)
  <1>1. setup \in DOMAIN Setup /\ side = "pos" /\ input = << >>
    BY DEF Init
  <1>2. states = [s \in Sides |-> S(s)] /\ status = [s \in Sides |-> StatusOf(S(s))]
    BY Zenon DEF Init
  <1>3. verdict = IF S("pos") = {} THEN "NEGATIVE"
                  ELSE IF S("neg") = {} THEN "POSITIVE" ELSE "INCONCLUSIVE"
    BY Zenon DEF Init
  <1>4. runs = [s \in Sides |-> FirstRuns(Aut(setup, s))]
    BY Zenon DEF Init, automaton, Aut
  <1>5. "pos" \in Sides /\ "neg" \in Sides
    BY DEF Sides
  <1>6. ASSUME NEW s \in Sides
        PROVE  /\ Genuine(setup, s, FirstRuns(Aut(setup, s)))
               /\ Tracks(setup, s, S(s), FirstRuns(Aut(setup, s)))
    BY <1>1, FirstTracked
  <1>7. ~ (S("neg") = {} /\ S("pos") = {})
    <2>1. PICK s \in Sides : [c \in Aut(setup, s).clocks |-> 0]
                               \in Points(Space(setup, s)[Aut(setup, s).initial])
      BY <1>1, MismatchAssumption DEF Aut, Space
    <2>2. S(s) # {}
      BY <1>1, <2>1, FirstOffered
    <2> QED
      BY <2>2 DEF Sides
  <1> HIDE DEF S
  <1>8. Framed
    BY <1>1, <1>2, <1>5 DEF Framed
  <1>9. Explaining
    BY <1>4, <1>6 DEF Explaining
  <1>10. Tracking
    BY <1>1, <1>2, <1>4, <1>5, <1>6 DEF Tracking, Sofar
  <1>11. Handling
    BY <1>1 DEF Handling, Busy
  <1>12. Judging
    BY <1>1, <1>2, <1>3, <1>5, <1>7 DEF Judging
  <1> QED
    BY <1>8, <1>9, <1>10, <1>11, <1>12 DEF Inv

(***************************************************************************)
(* Every action keeps it.  First a call arrives.                           *)
(***************************************************************************)
LEMMA InvReceive ==
    ASSUME Inv, NEW in \in Inputs, Receive(in), UNCHANGED setup
    PROVE  Inv'
  <1>1. /\ input = << >> /\ input' = <<in>> /\ side' = "pos" /\ todo' = states["pos"]
        /\ next' = {} /\ edges' = {} /\ UNCHANGED <<states, status, verdict, runs, setup>>
    BY DEF Receive, Begin
  <1>2. setup \in DOMAIN Setup /\ in \in Setup[setup].inputs /\ side = "pos" /\ "pos" \in Sides
    BY <1>1 DEF Inv, Framed, Inputs, Sides
  <1>3. Framed'
    BY <1>1, <1>2 DEF Inv, Framed
  <1>4. Explaining'
    BY <1>1 DEF Inv, Explaining
  <1>5. Tracking'
    BY <1>1, <1>2 DEF Inv, Tracking, Sofar
  <1>6. Handling'
    <2>1. Genuine(setup, "pos", runs["pos"])
      BY <1>2 DEF Inv, Explaining
    <2>2. Tracks(setup, "pos", states["pos"], runs["pos"])
      BY <1>2 DEF Inv, Tracking, Sofar
    <2>3. Working(setup, "pos", in, runs["pos"], states["pos"], states["pos"],
                  {}, source', moved', {})
      BY <1>2, <2>1, <2>2, WorkBegins
    <2> QED
      BY <1>1, <2>3 DEF Handling
  <1>7. Judging'
    BY <1>1, <1>2 DEF Inv, Judging
  <1> QED
    BY <1>3, <1>4, <1>5, <1>6, <1>7 DEF Inv

\* What the invariant says in the middle of a call.
LEMMA InTheMiddle ==
    ASSUME Inv, Busy
    PROVE  \E in \in Setup[setup].inputs :
              /\ setup \in DOMAIN Setup /\ side \in Sides /\ input = <<in>> /\ input[1] = in
              /\ Genuine(setup, side, runs[side])
              /\ Tracks(setup, side, states[side], runs[side])
              /\ Working(setup, side, in, runs[side], states[side],
                         todo, edges, source, moved, next)
  <1>1. setup \in DOMAIN Setup /\ side \in Sides
    BY DEF Inv, Framed
  <1>2. PICK in \in Setup[setup].inputs : input = <<in>>
    BY DEF Inv, Framed, Busy
  <1>3. input[1] = in
    BY <1>2
  <1>4. Genuine(setup, side, runs[side])
    BY <1>1 DEF Inv, Explaining
  <1>5. Tracks(setup, side, states[side], runs[side])
    BY <1>1 DEF Inv, Tracking, Sofar, Sides
  <1>6. Working(setup, side, in, runs[side], states[side], todo, edges, source, moved, next)
    BY <1>3 DEF Inv, Handling
  <1> QED
    BY <1>1, <1>2, <1>3, <1>4, <1>5, <1>6

\* The loops change nothing but the work.
LEMMA InvLoop ==
    ASSUME Inv, UNCHANGED <<setup, states, status, verdict, input, side, runs>>,
           Working(setup, side, input[1], runs[side], states[side], todo', edges', source', moved', next')
    PROVE  Inv'
  <1>1. Framed'
    BY DEF Inv, Framed
  <1>2. Explaining'
    BY DEF Inv, Explaining
  <1>3. Tracking'
    BY DEF Inv, Tracking, Sofar
  <1>4. Handling'
    BY DEF Handling
  <1>5. Judging'
    BY DEF Inv, Judging
  <1> QED
    BY <1>1, <1>2, <1>3, <1>4, <1>5 DEF Inv

LEMMA InvOnlyDelay ==
    ASSUME Inv, OnlyDelay, UNCHANGED setup
    PROVE  Inv'
  <1>1. Busy /\ edges = {} /\ todo # {} /\ Unobservable
        /\ UNCHANGED <<setup, states, status, verdict, input, side, source, moved, edges, runs>>
    BY DEF OnlyDelay
  <1>2. PICK in \in Setup[setup].inputs :
           /\ setup \in DOMAIN Setup /\ side \in Sides /\ input = <<in>> /\ input[1] = in
           /\ Genuine(setup, side, runs[side])
           /\ Tracks(setup, side, states[side], runs[side])
           /\ Working(setup, side, in, runs[side], states[side], todo, edges, source, moved, next)
    BY <1>1, InTheMiddle
  <1>3. Foreign(Aut(setup, side), in.label)
    BY <1>1, <1>2 DEF Unobservable, automaton, Aut
  <1>4. PICK e : e = First(todo)
    OBVIOUS
  <1>5. todo' = todo \ {e} /\ next' = AddState(next, e.loc, Accepted(e.loc, Delayed(e)))
    BY <1>4 DEF OnlyDelay
  <1>6. Working(setup, side, in, runs[side], states[side], todo', {}, source, moved, next')
    BY <1>1, <1>2, <1>3, <1>4, <1>5, AfterOnlyDelay
  <1> QED
    BY <1>1, <1>2, <1>6, InvLoop

LEMMA InvDelay ==
    ASSUME Inv, Delay, UNCHANGED setup
    PROVE  Inv'
  <1>1. Busy /\ edges = {} /\ todo # {} /\ ~Unobservable
        /\ UNCHANGED <<setup, states, status, verdict, input, side, runs>>
    BY DEF Delay
  <1>2. PICK in \in Setup[setup].inputs :
           /\ setup \in DOMAIN Setup /\ side \in Sides /\ input = <<in>> /\ input[1] = in
           /\ Genuine(setup, side, runs[side])
           /\ Tracks(setup, side, states[side], runs[side])
           /\ Working(setup, side, in, runs[side], states[side], todo, edges, source, moved, next)
    BY <1>1, InTheMiddle
  <1>3. ~Foreign(Aut(setup, side), in.label)
    BY <1>1, <1>2 DEF Unobservable, automaton, Aut
  <1>4. PICK e : e = First(todo)
    OBVIOUS
  <1>5. PICK F : F = Delayed(e)
    OBVIOUS
  <1>6. PICK stay : stay = Accepted(e.loc, F)
    OBVIOUS
  <1>7. /\ todo' = todo \ {e} /\ source' = [loc |-> e.loc, fed |-> F]
        /\ edges' = IF F = {} THEN {} ELSE EdgesOf(e)
        /\ \/ /\ in.type = "ONCE" /\ moved' = [loc |-> e.loc, fed |-> F] /\ next' = next
           \/ /\ in.type = "OPTIONAL" /\ moved' = [loc |-> e.loc, fed |-> stay]
              /\ next' = AddState(next, e.loc, stay)
    BY <1>2, <1>4, <1>5, <1>6 DEF Delay
  <1>8. /\ Working(setup, side, in, runs[side], states[side], todo, {}, source, moved, next)
        /\ \/ in.type = "ONCE" /\ moved' = source' /\ next' = next
           \/ in.type = "OPTIONAL" /\ moved' = [loc |-> e.loc, fed |-> stay]
              /\ next' = AddState(next, e.loc, stay)
    BY <1>1, <1>2, <1>7
  <1>9. Working(setup, side, in, runs[side], states[side], todo', edges', source', moved', next')
    BY <1>1, <1>2, <1>3, <1>4, <1>5, <1>6, <1>7, <1>8, AfterDelay
  <1> QED
    BY <1>1, <1>2, <1>9, InvLoop

LEMMA InvTakeEdge ==
    ASSUME Inv, TakeEdge, UNCHANGED setup
    PROVE  Inv'
  <1>1. Busy /\ edges # {} /\ moved' = source
        /\ UNCHANGED <<setup, states, status, verdict, input, side, todo, source, runs>>
    BY DEF TakeEdge
  <1>2. PICK in \in Setup[setup].inputs :
           /\ setup \in DOMAIN Setup /\ side \in Sides /\ input = <<in>> /\ input[1] = in
           /\ Genuine(setup, side, runs[side])
           /\ Tracks(setup, side, states[side], runs[side])
           /\ Working(setup, side, in, runs[side], states[side], todo, edges, source, moved, next)
    BY <1>1, InTheMiddle
  <1>3. PICK i \in edges : i = CHOOSE n \in edges : \A m \in edges : n <= m
    <2>1. edges \subseteq DOMAIN Aut(setup, side).edges /\ IsAutomaton(Aut(setup, side))
      BY <1>1, <1>2, Given DEF Working, Copies
    <2>2. DOMAIN Aut(setup, side).edges \subseteq Nat
      BY <2>1 DEF IsAutomaton
    <2>3. \E j \in edges : \A k \in edges : j <= k
      BY <1>1, <2>1, <2>2, LeastNumber
    <2> QED
      BY <2>3, Zenon
  <1>4. PICK e : e = Aut(setup, side).edges[i]
    OBVIOUS
  <1>5. PICK F : F = restrict_state(do_transition(moved.fed, e), Aut(setup, side).invariant[e.to])
    OBVIOUS
  <1>6. next' = AddState(next, e.to, Accepted(e.to, F)) /\ edges' = edges \ {i}
    BY <1>3, <1>4, <1>5, Zenon DEF TakeEdge, automaton, Aut
  <1>7. Leads(Aut(setup, side), e, moved.fed, F)
    BY <1>5 DEF Leads
  <1>8. Working(setup, side, in, runs[side], states[side], todo, edges', source, source, next')
    BY <1>2, <1>4, <1>6, <1>7, AfterEdge
  <1> QED
    BY <1>1, <1>2, <1>8, InvLoop

\* A list is handed in: its side has then seen the observation.
LEMMA Stored ==
    ASSUME Inv, Store
    PROVE  \E in \in Setup[setup].inputs :
              /\ setup \in DOMAIN Setup /\ side \in Sides /\ input = <<in>> /\ input[1] = in
              /\ Tracks(setup, side, next, RunsAfter(Aut(setup, side), runs[side], in))
              /\ states[side] = {} => next = {}
              /\ DOMAIN states = Sides
              /\ states' = [states EXCEPT ![side] = next]
              /\ status' = [s \in Sides |-> StatusOf(states'[s])]
  <1>1. Busy /\ edges = {} /\ todo = {} /\ states' = [states EXCEPT ![side] = next]
        /\ status' = [status EXCEPT ![side] = StatusOf(next)]
    BY DEF Store
  <1>2. PICK in \in Setup[setup].inputs :
           /\ setup \in DOMAIN Setup /\ side \in Sides /\ input = <<in>> /\ input[1] = in
           /\ Working(setup, side, in, runs[side], states[side], todo, edges, source, moved, next)
    BY <1>1, InTheMiddle
  <1>3. /\ Tracks(setup, side, next, RunsAfter(Aut(setup, side), runs[side], in))
        /\ states[side] = {} => next = {}
    BY <1>1, <1>2, WorkEnds
  <1>4. DOMAIN states = Sides /\ status = [s \in Sides |-> StatusOf(states[s])]
    BY DEF Inv, Framed
  <1>5. status' = [s \in Sides |-> StatusOf(states'[s])]
    BY <1>1, <1>2, <1>4
  <1> QED
    BY <1>1, <1>2, <1>3, <1>4, <1>5

LEMMA InvPositiveDone ==
    ASSUME Inv, PositiveDone, UNCHANGED setup
    PROVE  Inv'
  <1>1. /\ Store /\ side = "pos" /\ side' = "neg" /\ todo' = states["neg"]
        /\ next' = {} /\ edges' = {} /\ UNCHANGED <<setup, verdict, input, runs>>
    BY DEF PositiveDone
  <1>2. PICK in \in Setup[setup].inputs :
           /\ setup \in DOMAIN Setup /\ side \in Sides /\ input = <<in>> /\ input[1] = in
           /\ Tracks(setup, side, next, RunsAfter(Aut(setup, side), runs[side], in))
           /\ states[side] = {} => next = {}
           /\ DOMAIN states = Sides
           /\ states' = [states EXCEPT ![side] = next]
           /\ status' = [s \in Sides |-> StatusOf(states'[s])]
    BY <1>1, Stored
  <1>3. states'["pos"] = next /\ states'["neg"] = states["neg"] /\ DOMAIN states' = Sides
        /\ states' = [s \in Sides |-> states'[s]]
    BY <1>1, <1>2 DEF Sides
  <1>4. Genuine(setup, "neg", runs["neg"]) /\ Tracks(setup, "neg", states["neg"], runs["neg"])
    BY DEF Inv, Explaining, Tracking, Sides
  <1>5. Framed'
    BY <1>1, <1>2, <1>3 DEF Framed, Sides
  <1>6. Explaining'
    BY <1>1 DEF Inv, Explaining
  <1>7. Tracking'
    BY <1>1, <1>2, <1>3, <1>4 DEF Tracking, Sofar
  <1>8. Handling'
    <2>1. Working(setup, "neg", in, runs["neg"], states["neg"], states["neg"],
                  {}, source', moved', {})
      BY <1>2, <1>4, WorkBegins DEF Sides
    <2> QED
      BY <1>1, <1>2, <1>3, <2>1 DEF Handling
  <1>9. Judging'
    BY <1>1, <1>2, <1>3 DEF Inv, Judging
  <1> QED
    BY <1>5, <1>6, <1>7, <1>8, <1>9 DEF Inv

LEMMA InvNegativeDone ==
    ASSUME Inv, NegativeDone, UNCHANGED setup
    PROVE  Inv'
  <1>1. /\ Store /\ side = "neg" /\ side' = "pos" /\ input' = << >>
        /\ verdict' = IF next = {} THEN "POSITIVE"
                      ELSE IF status["pos"] = "OUT" THEN "NEGATIVE" ELSE verdict
        /\ runs' = [s \in Sides |-> RunsAfter(Aut(setup, s), runs[s], input[1])]
        /\ UNCHANGED setup
    BY Zenon DEF NegativeDone, AnswerGiven, automaton, Aut
  <1>2. PICK in \in Setup[setup].inputs :
           /\ setup \in DOMAIN Setup /\ side \in Sides /\ input = <<in>> /\ input[1] = in
           /\ Tracks(setup, side, next, RunsAfter(Aut(setup, side), runs[side], in))
           /\ states[side] = {} => next = {}
           /\ DOMAIN states = Sides
           /\ states' = [states EXCEPT ![side] = next]
           /\ status' = [s \in Sides |-> StatusOf(states'[s])]
    BY <1>1, Stored
  <1>3. states'["neg"] = next /\ states'["pos"] = states["pos"] /\ DOMAIN states' = Sides
        /\ states' = [s \in Sides |-> states'[s]]
    BY <1>1, <1>2 DEF Sides
  <1>4. /\ runs'["pos"] = RunsAfter(Aut(setup, "pos"), runs["pos"], in)
        /\ runs'["neg"] = RunsAfter(Aut(setup, "neg"), runs["neg"], in)
    BY <1>1, <1>2 DEF Sides
  <1>5. Tracks(setup, "pos", states["pos"], runs'["pos"])
    BY <1>1, <1>2, <1>4 DEF Inv, Tracking, Sofar
  <1>6. status["pos"] = "OUT" <=> states["pos"] = {}
    BY DEF Inv, Framed, StatusOf, Sides
  <1>7. Framed'
    BY <1>1, <1>2, <1>3 DEF Framed, Sides
  <1>8. Explaining'
    <2>1. ASSUME NEW s \in Sides PROVE Genuine(setup, s, RunsAfter(Aut(setup, s), runs[s], in))
      BY <1>2, AfterGenuine DEF Inv, Explaining
    <2> QED
      BY <1>1, <1>2, <2>1 DEF Explaining
  <1>9. Tracking'
    BY <1>1, <1>2, <1>3, <1>4, <1>5 DEF Tracking, Sofar
  <1>10. Handling'
    BY <1>1 DEF Handling, Busy
  <1>11. Judging'
    BY <1>1, <1>2, <1>3, <1>6 DEF Inv, Judging
  <1> QED
    BY <1>7, <1>8, <1>9, <1>10, <1>11 DEF Inv

\* And a step that changes nothing.
LEMMA InvStutters ==
    ASSUME Inv, UNCHANGED vars
    PROVE  Inv'
  <1>1. UNCHANGED <<setup, states, status, verdict, input, side, todo, source, moved, edges, next, runs>>
    BY DEF vars, working
  <1> QED
    BY <1>1 DEF Inv, Framed, Explaining, Tracking, Sofar, Handling, Busy, Judging

LEMMA InvNext ==
    ASSUME Inv, [Next]_vars
    PROVE  Inv'
  <1>1. CASE \E in \in Inputs : Receive(in) /\ UNCHANGED setup
    BY <1>1, InvReceive
  <1>2. CASE OnlyDelay /\ UNCHANGED setup
    BY <1>2, InvOnlyDelay
  <1>3. CASE Delay /\ UNCHANGED setup
    BY <1>3, InvDelay
  <1>4. CASE TakeEdge /\ UNCHANGED setup
    BY <1>4, InvTakeEdge
  <1>5. CASE PositiveDone /\ UNCHANGED setup
    BY <1>5, InvPositiveDone
  <1>6. CASE NegativeDone /\ UNCHANGED setup
    BY <1>6, InvNegativeDone
  <1>7. CASE UNCHANGED vars
    BY <1>7, InvStutters
  <1> QED
    BY <1>1, <1>2, <1>3, <1>4, <1>5, <1>6, <1>7 DEF Next

LEMMA Invariance == Spec => []Inv
  BY InvInit, InvNext, PTL DEF Spec

-----------------------------------------------------------------------------
(***************************************************************************)
(* No state estimate has a point that is no run: for all automata and all  *)
(* settings, what Single_monitor keeps tells of runs that the observations *)
(* allow, up to the clocks that were freed.                                *)
(***************************************************************************)
LEMMA InvInventsNothing == ASSUME Inv PROVE NoRunInvented
  <1> SUFFICES ASSUME ~Busy, NEW s \in Sides, NEW e \in states[s], NEW Z \in e.fed, NEW p \in Z
               PROVE  \E r \in runs[s] : /\ r.loc = e.loc /\ r.g = p.g
                                         /\ \A c \in automaton[s].clocks \ Freed(s, e.loc) : r.x[c] = p.x[c]
    BY DEF NoRunInvented
  <1>1. setup \in DOMAIN Setup /\ side = "pos"
    BY DEF Inv, Framed, Busy
  <1>2. Tracks(setup, s, states[s], runs[s])
    BY <1>1 DEF Inv, Tracking, Sofar, Sides
  <1>3. e.loc \in Aut(setup, s).locations
    BY <1>2 DEF Tracks, Entries
  <1>4. PICK r \in runs[s] : Tells(setup, s, p, e.loc, r)
    BY <1>2 DEF Tracks, Sound
  <1>5. Trusted(setup, s)[e.loc] = automaton[s].clocks \ Freed(s, e.loc)
    BY <1>3 DEF Trusted, Freed, Abstracts, Inclusion, ClockAbstraction, inactive_clocks, automaton, Aut
  <1> QED
    BY <1>4, <1>5 DEF Tells

\* Every point of the estimate is a run of the automaton, up to freed clocks.
THEOREM InventsNoRun == Spec => []NoRunInvented
  BY Invariance, InvInventsNothing, PTL

(***************************************************************************)
(* Under inclusion no run is lost that can still be accepted, whatever was *)
(* merged, replaced and abstracted: NoRunLost for all automata.            *)
(***************************************************************************)
LEMMA InvLosesNothing == ASSUME Inv PROVE NoRunLost
  <1> SUFFICES ASSUME ~Busy, Inclusion, NEW s \in Sides, NEW r \in Alive(s, runs[s])
               PROVE  Estimates(s, states[s], r)
    BY DEF NoRunLost
  <1>1. setup \in DOMAIN Setup /\ side = "pos"
    BY DEF Inv, Framed, Busy
  <1>2. Tracks(setup, s, states[s], runs[s])
    BY <1>1 DEF Inv, Tracking, Sofar, Sides
  <1>3. r \in runs[s] /\ Accepts(setup, s, r)
    BY DEF Alive, Accepts, accepting_space, Space
  <1> QED
    BY <1>2, <1>3 DEF Tracks, Complete, Inclusion

\* Between observations, every run that can be accepted is in the estimate.
THEOREM LosesNoRun == Spec => []NoRunLost
  BY Invariance, InvLosesNothing, PTL

(***************************************************************************)
(* So under inclusion a monitor is OUT exactly when no run of its          *)
(* automaton can be accepted any more, and the verdict is the right one.   *)
(***************************************************************************)
LEMMA OutIffDead ==
    ASSUME Inv, ~Busy, Inclusion, NEW s \in Sides
    PROVE  states[s] = {} <=> Alive(s, runs[s]) = {}
  <1>1. setup \in DOMAIN Setup /\ side = "pos"
    BY DEF Inv, Framed, Busy
  <1>2. Tracks(setup, s, states[s], runs[s])
    BY <1>1 DEF Inv, Tracking, Sofar, Sides
  <1>3. ASSUME NEW e \in states[s] PROVE Alive(s, runs[s]) # {}
    <2>1. e.fed # {} /\ {} \notin e.fed
      BY <1>2 DEF Tracks, Entries
    <2>2. PICK Z \in e.fed : Z # {}
      BY <2>1
    <2>3. PICK p \in Z : TRUE
      BY <2>2
    <2>4. PICK r \in runs[s] : Accepts(setup, s, r)
      BY <1>2 DEF Tracks, Sound
    <2> QED
      BY <2>4 DEF Alive, Accepts, accepting_space, Space
  <1>4. ASSUME NEW r \in Alive(s, runs[s]) PROVE states[s] # {}
    <2>1. Estimates(s, states[s], r)
      BY InvLosesNothing DEF NoRunLost
    <2> QED
      BY <2>1 DEF Estimates
  <1> QED
    BY <1>3, <1>4

LEMMA JudgeIs ==
    ASSUME NEW R
    PROVE  Promise!Judge(R) = IF Alive("neg", R["neg"]) = {} THEN "POSITIVE"
                              ELSE IF Alive("pos", R["pos"]) = {} THEN "NEGATIVE"
                              ELSE "INCONCLUSIVE"
  BY DEF Promise!Judge, Promise!Alive, Alive, Promise!accepting_space, accepting_space,
         Promise!Points, Points

LEMMA InvJudges == ASSUME Inv, Inclusion PROVE VerdictIsExact
  <1> SUFFICES ASSUME ~Busy PROVE verdict = Promise!Judge(runs)
    BY DEF VerdictIsExact
  <1>1. side = "pos"
    BY DEF Inv, Framed, Busy
  <1>2. states["neg"] = {} <=> Alive("neg", runs["neg"]) = {}
    BY OutIffDead DEF Sides
  <1>3. states["pos"] = {} <=> Alive("pos", runs["pos"]) = {}
    BY OutIffDead DEF Sides
  <1> QED
    BY <1>1, <1>2, <1>3, JudgeIs DEF Inv, Judging

LEMMA SameRuns ==
    ASSUME NEW A, NEW R, NEW in
    PROVE  Promise!RunsAfter(A, R, in) = RunsAfter(A, R, in) /\ Promise!FirstRuns(A) = FirstRuns(A)
  BY DEF Promise!RunsAfter, RunsAfter, Promise!Foreign, Foreign, Promise!labels, labels,
         Promise!Edges, Edges, Promise!Waited, Waited, Promise!Jumped, Jumped,
         Promise!Moment, Moment, Promise!Elapse, Elapse, Promise!Saturate, Saturate,
         Promise!Reset, Reset, Promise!Meets, Meets, Promise!Satisfies, Satisfies,
         Promise!FirstRuns, FirstRuns

(***************************************************************************)
(* Under inclusion the monitor implements its promise: handing in the      *)
(* negative list is one observation with the right answer, and to whoever  *)
(* only sees the verdict the steps of the loops are none.                  *)
(***************************************************************************)
LEMMA PromiseBegins ==
    ASSUME Init, Inclusion
    PROVE  Promise!Init
  <1>1. Inv /\ VerdictIsExact /\ input = << >>
    BY InvInit, InvJudges DEF Init
  <1>2. verdict = Promise!Judge(runs)
    BY <1>1 DEF VerdictIsExact, Busy
  <1>3. runs = [s \in Sides |-> FirstRuns(automaton[s])] /\ setup \in DOMAIN Setup
    BY Zenon DEF Init
  <1>4. runs = [s \in Promise!Sides |-> Promise!FirstRuns(Promise!automaton[s])]
    BY <1>3, SameRuns DEF Promise!Sides, Sides, Promise!automaton, automaton
  <1> QED
    BY <1>2, <1>3, <1>4 DEF Promise!Init

LEMMA PromiseStays ==
    ASSUME Inclusion, [Next]_vars
    PROVE  Inclusion'
  BY DEF Next, vars, Inclusion

LEMMA PromiseStep ==
    ASSUME Inv, Inclusion, [Next]_vars
    PROVE  [Promise!Next]_<<setup, runs, verdict>>
  <1>1. CASE \E in \in Inputs : Receive(in) /\ UNCHANGED setup
    BY <1>1 DEF Receive
  <1>2. CASE OnlyDelay /\ UNCHANGED setup
    BY <1>2 DEF OnlyDelay
  <1>3. CASE Delay /\ UNCHANGED setup
    BY <1>3 DEF Delay
  <1>4. CASE TakeEdge /\ UNCHANGED setup
    BY <1>4 DEF TakeEdge
  <1>5. CASE PositiveDone /\ UNCHANGED setup
    BY <1>5 DEF PositiveDone
  <1>6. CASE NegativeDone /\ UNCHANGED setup
    <2>1. Inv' /\ Inclusion'
      BY <1>6, InvNegativeDone DEF Inclusion
    <2>2. VerdictIsExact'
      <3>1. (Inv /\ Inclusion => VerdictIsExact)'
        BY InvJudges, PTL
      <3> QED
        BY <2>1, <3>1
    <2>3. Store /\ input' = << >> /\ UNCHANGED setup
          /\ runs' = [s \in Sides |-> RunsAfter(automaton[s], runs[s], input[1])]
      BY <1>6, Zenon DEF NegativeDone, AnswerGiven
    <2>4. PICK in \in Setup[setup].inputs : input[1] = in
      BY <2>3, Stored
    <2>5. verdict' = Promise!Judge(runs')
      <3>1. verdict' = (Promise!Judge(runs))'
        BY <2>2, <2>3 DEF VerdictIsExact, Busy
      <3> QED
        BY <2>3, <3>1 DEF Promise!Judge, Promise!Alive, Promise!accepting_space
    <2>6. runs' = [s \in Promise!Sides |-> Promise!RunsAfter(Promise!automaton[s], runs[s], in)]
      BY <2>3, <2>4, SameRuns DEF Promise!Sides, Sides, Promise!automaton, automaton
    <2>7. Promise!Judge(runs') \in Promise!Verdicts
      BY JudgeIs DEF Promise!Verdicts
    <2>8. Promise!Observe(in)
      BY <2>3, <2>5, <2>6, <2>7 DEF Promise!Observe
    <2> QED
      BY <2>4, <2>8 DEF Promise!Next, Promise!Inputs
  <1>7. CASE UNCHANGED vars
    BY <1>7 DEF vars
  <1> QED
    BY <1>1, <1>2, <1>3, <1>4, <1>5, <1>6, <1>7 DEF Next

\* Every step of the monitor under inclusion is one of OnlineVerdict, or a stutter.
THEOREM KeepsThePromise == Spec /\ Inclusion => Implements
  <1>1. Spec /\ Inclusion => [](Inv /\ Inclusion)
    <2>1. Spec => []Inv
      BY Invariance
    <2>2. Inclusion /\ [Next]_vars => Inclusion'
      BY PromiseStays
    <2> QED
      BY <2>1, <2>2, PTL DEF Spec
  <1>2. Init /\ Inclusion => Promise!Init
    BY PromiseBegins
  <1>3. Inv /\ Inclusion /\ [Next]_vars => [Promise!Next]_<<setup, runs, verdict>>
    BY PromiseStep
  <1> QED
    BY <1>1, <1>2, <1>3, PTL DEF Spec, Implements, Promise!Spec

(***************************************************************************)
(* And its verdict is the right one between any two observations.          *)
(***************************************************************************)
THEOREM JudgesExactly == Spec => [](Inclusion => VerdictIsExact)
  BY Invariance, InvJudges, PTL

(***************************************************************************)
(* The accepting spaces are those of the fixpoint, whose members have runs *)
(* that are accepted (BuchiConfigurationsHaveRuns in FixpointProofs); so   *)
(* the verdict speaks of all infinite extensions of what was observed.     *)
(***************************************************************************)
LEMMA GivenSpace ==
    ASSUME NEW n \in DOMAIN Setup, NEW s \in Sides
    PROVE  /\ AcceptedFrom[n][s] \subseteq InSpace(Aut(n, s), Space(n, s))
           /\ NoInvariants(Aut(n, s)) => InSpace(Aut(n, s), Space(n, s)) \subseteq AcceptedFrom[n][s]
  BY TimedWordsAssumption DEF Aut, Space, IsSpace, AcceptedFrom

LEMMA FutureIsAlive ==
    ASSUME Inv, NEW s \in Sides
    PROVE  /\ HasFuture(s) => Alive(s, runs[s]) # {}
           /\ NoInvariants(automaton[s]) /\ Alive(s, runs[s]) # {} => HasFuture(s)
  <1>1. setup \in DOMAIN Setup
    BY DEF Inv, Framed
  <1>2. Genuine(setup, s, runs[s])
    BY DEF Inv, Explaining
  <1> DEFINE p(r) == [l |-> r.loc, v |-> r.x]
  <1>3. ASSUME NEW r \in runs[s], p(r) \in AcceptedFrom[setup][s]
        PROVE  r \in Alive(s, runs[s])
    <2>1. p(r) \in InSpace(Aut(setup, s), Space(setup, s))
      BY <1>1, <1>3, GivenSpace
    <2>2. p(r).v \in Points(Space(setup, s)[p(r).l])
      BY <2>1 DEF InSpace
    <2> QED
      BY <2>2 DEF Alive, accepting_space, Space
  <1>4. ASSUME NoInvariants(automaton[s]), NEW r \in Alive(s, runs[s])
        PROVE  r \in runs[s] /\ p(r) \in AcceptedFrom[setup][s]
    <2>1. r \in runs[s] /\ r.x \in Points(Space(setup, s)[r.loc])
      BY DEF Alive, accepting_space, Space
    <2>2. r.loc \in Aut(setup, s).locations /\ r.x \in Valuations(Aut(setup, s))
      BY <1>2, <2>1 DEF Genuine, Moments
    <2>3. p(r) \in InSpace(Aut(setup, s), Space(setup, s))
      BY <2>1, <2>2 DEF InSpace, Configurations
    <2>4. NoInvariants(Aut(setup, s))
      BY <1>4 DEF automaton, Aut
    <2> QED
      BY <1>1, <2>1, <2>3, <2>4, GivenSpace
  <1> QED
    BY <1>3, <1>4 DEF HasFuture

\* What a verdict rules out has no run that can go on to be accepted.
THEOREM VerdictsAreJust == Spec => []VerdictIsJust
  <1>1. Inv => VerdictIsJust
    <2> SUFFICES ASSUME Inv, ~Busy, Inclusion
                 PROVE  /\ verdict = "POSITIVE" => ~HasFuture("neg")
                        /\ verdict = "NEGATIVE" => ~HasFuture("pos")
      BY DEF VerdictIsJust
    <2>1. verdict = Promise!Judge(runs)
      BY InvJudges DEF VerdictIsExact
    <2>2. HasFuture("neg") => Alive("neg", runs["neg"]) # {}
      BY FutureIsAlive DEF Sides
    <2>3. HasFuture("pos") => Alive("pos", runs["pos"]) # {}
      BY FutureIsAlive DEF Sides
    <2> QED
      BY <2>1, <2>2, <2>3, JudgeIs
  <1> QED
    BY <1>1, Invariance, PTL

\* As long as it is open, an automaton without invariants has such a run.
THEOREM VerdictsArePrompt == Spec => []VerdictIsPrompt
  <1>1. Inv => VerdictIsPrompt
    <2> SUFFICES ASSUME Inv, ~Busy, Inclusion, verdict = "INCONCLUSIVE",
                        NEW s \in Sides, NoInvariants(automaton[s])
                 PROVE  HasFuture(s)
      BY DEF VerdictIsPrompt
    <2>1. verdict = Promise!Judge(runs)
      BY InvJudges DEF VerdictIsExact
    <2>2. \A t \in Sides : Alive(t, runs[t]) # {}
      BY <2>1, JudgeIs DEF Sides
    <2> QED
      BY <2>2, FutureIsAlive
  <1> QED
    BY <1>1, Invariance, PTL

\* So the verdict is right in the terms of the promise: what it rules out has no
\* future, and what it leaves open has one.
THEOREM VerdictsAreRight == Spec => []VerdictIsRight
  <1>1. VerdictIsJust /\ VerdictIsPrompt => VerdictIsRight
    BY DEF VerdictIsRight
  <1> QED
    BY <1>1, VerdictsAreJust, VerdictsArePrompt, PTL

(***************************************************************************)
(* The assertion of Monitor::input, from what makes a pair of automata one *)
(* of a property and its negation: of every timed word that is observed    *)
(* one of them has a run that can be accepted.                             *)
(***************************************************************************)
THEOREM OneStaysIn ==
    Spec /\ Inclusion /\ [](~Busy /\ Explained(runs) => \E s \in Sides : Alive(s, runs[s]) # {})
        => []NeverBothOut
  <1> DEFINE Complementary == ~Busy /\ Explained(runs) => \E s \in Sides : Alive(s, runs[s]) # {}
  <1>1. Spec /\ Inclusion => [](Inv /\ Inclusion)
    <2>1. Inclusion /\ [Next]_vars => Inclusion'
      BY PromiseStays
    <2> QED
      BY <2>1, Invariance, PTL DEF Spec
  <1>2. Inv /\ Inclusion /\ Complementary => NeverBothOut
    <2> SUFFICES ASSUME Inv, Inclusion, Complementary, ~Busy, Explained(runs)
                 PROVE  \E s \in Sides : status[s] = "ACTIVE"
      BY DEF NeverBothOut
    <2>1. PICK s \in Sides : Alive(s, runs[s]) # {}
      OBVIOUS
    <2>2. states[s] # {}
      BY <2>1, OutIffDead
    <2> QED
      BY <2>2 DEF Inv, Framed, StatusOf
  <1> HIDE DEF Complementary
  <1>3. Spec /\ Inclusion /\ []Complementary => []NeverBothOut
    BY <1>1, <1>2, PTL
  <1> QED
    BY <1>3 DEF Complementary

-----------------------------------------------------------------------------
(***************************************************************************)
(* ConcreteMonitor, over the same automata, spaces and observations.  Its  *)
(* operators are those of the instance; what it has in common with Monitor *)
(* is TimedWords.                                                          *)
(***************************************************************************)
CONSTANT Modulus
VARIABLE refused

Concrete == INSTANCE ConcreteMonitor

LEMMA SharedValuations ==
    /\ \A n : Concrete!Saturate(n) = Saturate(n)
    /\ \A v, d : Concrete!Elapse(v, d) = Elapse(v, d)
    /\ \A v, R : Concrete!Reset(v, R) = Reset(v, R)
    /\ \A v, constraints : Concrete!Meets(v, constraints) <=> Meets(v, constraints)
    /\ \A F : Concrete!Points(F) = Points(F)
    /\ \A l, x, g : Concrete!Moment(l, x, g) = Moment(l, x, g)
    /\ \A A : Concrete!BelowCap(A) <=>
                 /\ \A l \in A.locations : \A c \in A.invariant[l] : c.bound < Cap
                 /\ \A e \in Edges(A) : \A c \in e.guard : c.bound < Cap
  BY DEF Concrete!Saturate, Saturate, Concrete!Elapse, Elapse, Concrete!Reset, Reset,
         Concrete!Meets, Meets, Concrete!Satisfies, Satisfies, Concrete!Points, Points,
         Concrete!Moment, Moment, Concrete!BelowCap, Concrete!Edges, Edges

LEMMA SharedRuns ==
    /\ Concrete!automaton = automaton /\ Concrete!accepting_space = accepting_space
    /\ Concrete!Sides = Sides /\ Concrete!Inputs = Inputs
    /\ Concrete!Horizon = Horizon /\ Concrete!Inclusion = Inclusion
    /\ \A A : Concrete!FirstRuns(A) = FirstRuns(A)
    /\ \A A, label : Concrete!Foreign(A, label) <=> Foreign(A, label)
    /\ \A s, R : Concrete!Alive(s, R) = Alive(s, R)
    /\ \A R : Concrete!Explained(R) <=> Explained(R)
  BY DEF Concrete!automaton, automaton, Concrete!accepting_space, accepting_space,
         Concrete!Sides, Sides, Concrete!Inputs, Inputs, Concrete!Horizon, Horizon,
         Concrete!Inclusion, Inclusion, Concrete!FirstRuns, FirstRuns,
         Concrete!Foreign, Foreign, Concrete!labels, labels, Concrete!Edges, Edges,
         Concrete!Alive, Alive, Concrete!Points, Points, Concrete!Explained, Explained,
         Concrete!Moment, Moment

LEMMA SharedSteps ==
    ASSUME NEW A, NEW R, NEW in
    PROVE  Concrete!RunsAfter(A, R, in) = RunsAfter(A, R, in)
  BY DEF Concrete!RunsAfter, RunsAfter, Concrete!Waited, Waited, Concrete!Jumped, Jumped,
         Concrete!Foreign, Foreign, Concrete!labels, labels, Concrete!Edges, Edges,
         Concrete!Moment, Moment, Concrete!Saturate, Saturate, Concrete!Elapse, Elapse,
         Concrete!Reset, Reset, Concrete!Meets, Meets, Concrete!Satisfies, Satisfies

(***************************************************************************)
(* The states: all, those that no clock has wrapped in at time t, and of a *)
(* set B of states those the accepting space keeps.                        *)
(***************************************************************************)
Counted(n, s) ==
    [loc : Aut(n, s).locations, x : [Aut(n, s).clocks -> 0 .. Modulus - 1], g : 0 .. Modulus - 1]

Unwrapped(n, s, t) == [loc : Aut(n, s).locations, x : [Aut(n, s).clocks -> 0 .. t], g : {t}]

Kept(s, B) == {p \in B : Concrete!in_accepting_space(s, p)}

Run(p) == Concrete!Run(p)

Told(list) == {Run(list[i]) : i \in DOMAIN list}

Jump(p, e) == Concrete!State(e.to, Concrete!Reset(p.x, e.reset), p.g)

\* What edges lead to from B is in B.
EdgesStayIn(B, n, s) ==
    \A p \in B : \A i \in DOMAIN Aut(n, s).edges : Jump(p, Aut(n, s).edges[i]) \in B

LEMMA CountedJumps ==
    ASSUME NEW n \in DOMAIN Setup, NEW s \in Sides, Concrete!ClocksFit
    PROVE  EdgesStayIn(Counted(n, s), n, s)
  <1> DEFINE A == Aut(n, s)
  <1>1. IsAutomaton(A) /\ Modulus \in Nat /\ 2 * Setup[n].horizon < Modulus /\ Setup[n].horizon \in Nat
    BY Given DEF Concrete!ClocksFit
  <1>2. ASSUME NEW p \in Counted(n, s), NEW i \in DOMAIN A.edges
        PROVE  Jump(p, A.edges[i]) \in Counted(n, s)
    <2>1. A.edges[i].to \in A.locations
      BY <1>1, EdgesTyped
    <2> DEFINE y == Reset(p.x, A.edges[i].reset)
    <2>2. y \in [A.clocks -> 0 .. Modulus - 1]
      <3>1. 0 \in 0 .. Modulus - 1
        BY <1>1
      <3> QED
        BY <3>1 DEF Counted, Reset
    <2>3. p.g \in 0 .. Modulus - 1
      BY DEF Counted
    <2>4. Jump(p, A.edges[i]) = [loc |-> A.edges[i].to, x |-> y, g |-> p.g]
      BY SharedValuations DEF Jump, Concrete!State
    <2> HIDE DEF y
    <2> QED
      BY <2>1, <2>2, <2>3, <2>4 DEF Counted
  <1> QED
    BY <1>2 DEF EdgesStayIn

LEMMA UnwrappedJumps ==
    ASSUME NEW n \in DOMAIN Setup, NEW s \in Sides, NEW t \in Nat
    PROVE  EdgesStayIn(Unwrapped(n, s, t), n, s)
  <1> DEFINE A == Aut(n, s)
  <1>1. IsAutomaton(A)
    BY Given
  <1>2. ASSUME NEW p \in Unwrapped(n, s, t), NEW i \in DOMAIN A.edges
        PROVE  Jump(p, A.edges[i]) \in Unwrapped(n, s, t)
    <2>1. A.edges[i].to \in A.locations
      BY <1>1, EdgesTyped
    <2> DEFINE y == Reset(p.x, A.edges[i].reset)
    <2>2. y \in [A.clocks -> 0 .. t]
      BY DEF Unwrapped, Reset
    <2>3. p.g \in {t}
      BY DEF Unwrapped
    <2>4. Jump(p, A.edges[i]) = [loc |-> A.edges[i].to, x |-> y, g |-> p.g]
      BY SharedValuations DEF Jump, Concrete!State
    <2> HIDE DEF y
    <2> QED
      BY <2>1, <2>2, <2>3, <2>4 DEF Unwrapped
  <1> QED
    BY <1>2 DEF EdgesStayIn

(***************************************************************************)
(* A loop over a list that leaves only the states elsewhere.               *)
(***************************************************************************)
Leaving(f, list, l) ==
    f = [S \in SUBSET DOMAIN list |->
            IF S = {} THEN << >>
            ELSE IF list[Concrete!Max(S)].loc = l THEN f[S \ {Concrete!Max(S)}]
                 ELSE Append(f[S \ {Concrete!Max(S)}], list[Concrete!Max(S)])]

(***************************************************************************)
(* How FoldLeft goes through a list of n: a function of the sets of the    *)
(* places, that takes away the greatest.                                   *)
(***************************************************************************)
FoldsOver(g, n, V, base, step) ==
    /\ g \in [SUBSET (1 .. n) -> V] /\ g[{}] = base
    /\ \A S \in SUBSET (1 .. n) : S # {} =>
          LET x == Concrete!Max(S)
          IN  x \in 1 .. n /\ g[S \ {x}] \in V /\ g[S] = step[<<g[S \ {x}], x>>]

LEMMA FoldIs ==
    ASSUME NEW n \in Nat, NEW V, NEW base \in V, NEW step \in [V \X (1 .. n) -> V]
    PROVE  \E g : FoldsOver(g, n, V, base, step)
  <1>1. PICK g \in [SUBSET (1 .. n) -> V] : FoldsTo(g, n, base, step)
    BY FoldExists DEF CanFold
  <1>2. ASSUME NEW S \in SUBSET (1 .. n), S # {}
        PROVE  LET x == Concrete!Max(S)
               IN  x \in 1 .. n /\ g[S \ {x}] \in V /\ g[S] = step[<<g[S \ {x}], x>>]
    <2>1. PICK x : IsGreatest(x, S)
      BY <1>2, GreatestExists
    <2>2. S \in SUBSET Int
      OBVIOUS
    <2>3. Concrete!Max(S) = x
      BY <2>1, <2>2, GreatestIs, Zenon DEF Concrete!Max
    <2>4. x \in 1 .. n /\ S \ {x} \in SUBSET (1 .. n)
      BY <2>1 DEF IsGreatest
    <2>5. g[S] = step[<<g[S \ {x}], x>>]
      BY <1>1, <2>1 DEF FoldsTo
    <2> QED
      BY <2>3, <2>4, <2>5
  <1>3. g[{}] = base
    BY <1>1 DEF FoldsTo
  <1> QED
    BY <1>2, <1>3 DEF FoldsOver

LEMMA UpTo ==
    ASSUME NEW n \in Nat, NEW k \in 1 .. n
    PROVE  /\ 1 .. k \in SUBSET (1 .. n) /\ 1 .. k # {} /\ (1 .. k) \ {k} = 1 .. k - 1
           /\ Concrete!Max(1 .. k) = k
  <1>1. k \in Nat \ {0} /\ k <= n /\ 1 .. k \in SUBSET (1 .. n) /\ 1 .. k \in SUBSET Int
    OBVIOUS
  <1>2. 1 .. k # {} /\ (1 .. k) \ {k} = 1 .. k - 1 /\ IsGreatest(k, 1 .. k)
    BY <1>1, WithoutLast
  <1>3. Concrete!Max(1 .. k) = k
    BY <1>1, <1>2, GreatestIs, Zenon DEF Concrete!Max
  <1> QED
    BY <1>1, <1>2, <1>3

Leaves(f, list, l) ==
    /\ f[0] = << >>
    /\ \A k \in 1 .. Len(list) :
          f[k] = IF list[k].loc = l THEN f[k - 1] ELSE Append(f[k - 1], list[k])
    /\ Concrete!Elsewhere(list, l) = f[Len(list)]

LEMMA ElsewhereRuns ==
    ASSUME NEW B, NEW list \in Seq(B), NEW l
    PROVE  \E f : Leaves(f, list, l)
  <1> DEFINE n == Len(list)
             iter == CHOOSE f : Leaving(f, list, l)
             step == [z \in Seq(B) \X (1 .. n) |->
                         IF list[z[2]].loc = l THEN z[1] ELSE Append(z[1], list[z[2]])]
  <1>1. n \in Nat /\ DOMAIN list = 1 .. n /\ \A k \in 1 .. n : list[k] \in B
    BY LenProperties, ElementOfSeq
  <1>2. Concrete!Elsewhere(list, l) = iter[DOMAIN list]
    BY Zenon DEF Concrete!Elsewhere, Concrete!FoldLeft, Concrete!MapThenFoldSet, Leaving
  <1>3. Leaving(iter, list, l)
    <2>1. step \in [Seq(B) \X (1 .. n) -> Seq(B)]
      BY <1>1, AppendProperties
    <2>2. << >> \in Seq(B)
      OBVIOUS
    <2>3. \A y \in Seq(B) : \A x \in 1 .. n :
             step[<<y, x>>] = IF list[x].loc = l THEN y ELSE Append(y, list[x])
      OBVIOUS
    <2> HIDE DEF step, n
    <2>4. PICK g : FoldsOver(g, n, Seq(B), << >>, step)
      BY <1>1, <2>1, <2>2, FoldIs
    <2>5. ASSUME NEW S \in SUBSET DOMAIN list
          PROVE  g[S] = IF S = {} THEN << >>
                        ELSE IF list[Concrete!Max(S)].loc = l THEN g[S \ {Concrete!Max(S)}]
                             ELSE Append(g[S \ {Concrete!Max(S)}], list[Concrete!Max(S)])
      BY <1>1, <2>3, <2>4 DEF FoldsOver
    <2>6. g = [S \in SUBSET DOMAIN list |-> g[S]]
      BY <1>1, <2>4 DEF FoldsOver
    <2>7. Leaving(g, list, l)
      BY <2>5, <2>6, Zenon DEF Leaving
    <2> QED
      BY <2>7, Zenon
  <1> HIDE DEF iter, step
  <1> DEFINE f == [k \in 0 .. n |-> iter[1 .. k]]
  <1>4. f[0] = << >>
    <2>1. 1 .. 0 = {} /\ {} \in SUBSET DOMAIN list /\ f[0] = iter[1 .. 0]
      BY <1>1
    <2> HIDE DEF f
    <2> QED
      BY <1>3, <2>1, Zenon DEF Leaving
  <1>5. ASSUME NEW k \in 1 .. Len(list)
        PROVE  f[k] = IF list[k].loc = l THEN f[k - 1] ELSE Append(f[k - 1], list[k])
    <2>1. f[k] = iter[1 .. k] /\ f[k - 1] = iter[1 .. k - 1]
      BY <1>1
    <2>2. 1 .. k \in SUBSET DOMAIN list /\ 1 .. k # {} /\ (1 .. k) \ {k} = 1 .. k - 1
          /\ Concrete!Max(1 .. k) = k
      BY <1>1, UpTo
    <2>3. iter[1 .. k] = IF list[Concrete!Max(1 .. k)].loc = l
                         THEN iter[(1 .. k) \ {Concrete!Max(1 .. k)}]
                         ELSE Append(iter[(1 .. k) \ {Concrete!Max(1 .. k)}], list[Concrete!Max(1 .. k)])
      BY <1>3, <2>2, Zenon DEF Leaving
    <2> HIDE DEF f
    <2> QED
      BY <2>1, <2>2, <2>3
  <1>6. Concrete!Elsewhere(list, l) = f[Len(list)]
    BY <1>1, <1>2
  <1> HIDE DEF f
  <1> QED
    BY <1>4, <1>5, <1>6 DEF Leaves

Elements(list) == {list[i] : i \in DOMAIN list}

LEMMA AppendElements ==
    ASSUME NEW B, NEW list \in Seq(B), NEW p \in B
    PROVE  Append(list, p) \in Seq(B) /\ Elements(Append(list, p)) = Elements(list) \cup {p}
  <1> DEFINE new == Append(list, p)
             n == Len(list)
  <1>1. /\ new \in Seq(B) /\ Len(new) = n + 1 /\ new[n + 1] = p
        /\ \A i \in 1 .. n : new[i] = list[i]
    BY AppendProperties
  <1>2. n \in Nat /\ DOMAIN list = 1 .. n /\ DOMAIN new = 1 .. n + 1
    BY <1>1, LenProperties
  <1>3. 1 .. n + 1 = (1 .. n) \cup {n + 1}
    BY <1>2
  <1> HIDE DEF new, n
  <1>4. Elements(new) = Elements(list) \cup {p}
    BY <1>1, <1>2, <1>3 DEF Elements
  <1> QED
    BY <1>1, <1>4 DEF new

LEMMA ElsewhereIs ==
    ASSUME NEW B, NEW list \in Seq(B), NEW l
    PROVE  /\ Concrete!Elsewhere(list, l) \in Seq(B)
           /\ Elements(Concrete!Elsewhere(list, l)) = {p \in Elements(list) : p.loc # l}
  <1> DEFINE n == Len(list)
  <1>1. n \in Nat /\ DOMAIN list = 1 .. n /\ \A k \in 1 .. n : list[k] \in B
    BY LenProperties, ElementOfSeq
  <1>2. PICK f : Leaves(f, list, l)
    BY ElsewhereRuns
  <1> DEFINE upto(k) == {p \in {list[i] : i \in 1 .. k} : p.loc # l}
             T == {k \in Nat : k <= n => f[k] \in Seq(B) /\ Elements(f[k]) = upto(k)}
  <1>3. 0 \in T
    <2>1. f[0] = << >> /\ upto(0) = {}
      BY <1>2 DEF Leaves
    <2>2. << >> \in Seq(B) /\ Elements(<< >>) = {}
      BY DEF Elements
    <2> QED
      BY <2>1, <2>2
  <1>4. ASSUME NEW k \in Nat, k \in T PROVE k + 1 \in T
    <2> SUFFICES ASSUME k + 1 <= n
                 PROVE  f[k + 1] \in Seq(B) /\ Elements(f[k + 1]) = upto(k + 1)
      OBVIOUS
    <2>1. k + 1 \in 1 .. n /\ k + 1 - 1 = k /\ k <= n
      BY <1>1
    <2>2. f[k + 1] = IF list[k + 1].loc = l THEN f[k] ELSE Append(f[k], list[k + 1])
      BY <1>2, <2>1 DEF Leaves
    <2>3. f[k] \in Seq(B) /\ Elements(f[k]) = upto(k) /\ list[k + 1] \in B
      BY <1>1, <1>4, <2>1
    <2>4. {list[i] : i \in 1 .. k + 1} = {list[i] : i \in 1 .. k} \cup {list[k + 1]}
      <3>1. 1 .. k + 1 = (1 .. k) \cup {k + 1}
        OBVIOUS
      <3> QED
        BY <3>1
    <2>5. CASE list[k + 1].loc = l
      BY <2>2, <2>3, <2>4, <2>5
    <2>6. CASE list[k + 1].loc # l
      <3>1. upto(k + 1) = upto(k) \cup {list[k + 1]}
        BY <2>4, <2>6
      <3>2. f[k + 1] = Append(f[k], list[k + 1])
        BY <2>2, <2>6
      <3>3. /\ Append(f[k], list[k + 1]) \in Seq(B)
            /\ Elements(Append(f[k], list[k + 1])) = Elements(f[k]) \cup {list[k + 1]}
        BY <2>3, AppendElements
      <3> HIDE DEF upto
      <3> QED
        BY <2>3, <3>1, <3>2, <3>3
    <2> QED
      BY <2>5, <2>6
  <1>5. n \in T
    <2> HIDE DEF T
    <2> QED
      BY <1>1, <1>3, <1>4, SetInduction
  <1>6. Concrete!Elsewhere(list, l) = f[n]
    BY <1>2 DEF Leaves
  <1>7. f[n] \in Seq(B) /\ Elements(f[n]) = upto(n)
    BY <1>1, <1>5
  <1>8. upto(n) = {p \in Elements(list) : p.loc # l}
    BY <1>1 DEF Elements
  <1> QED
    BY <1>6, <1>7, <1>8

-----------------------------------------------------------------------------
(***************************************************************************)
(* What a list becomes when runs X are added: no others are told of, and   *)
(* under inclusion all of them are, if no runs of M confuse it.            *)
(***************************************************************************)
Adds(M, new, list, X) ==
    /\ Told(new) \subseteq Told(list) \cup X
    /\ Inclusion /\ Concrete!TellsApart(M) /\ Told(list) \cup X \subseteq M =>
          Told(list) \cup X \subseteq Told(new)

LEMMA AddsNothing ==
    ASSUME NEW M, NEW list
    PROVE  Adds(M, list, list, {})
  BY DEF Adds

LEMMA AddsMore ==
    ASSUME NEW M, NEW list, NEW middle, NEW new, NEW X, NEW Y,
           Adds(M, middle, list, X), Adds(M, new, middle, Y)
    PROVE  Adds(M, new, list, X \cup Y)
  BY DEF Adds

LEMMA ToldElements ==
    ASSUME NEW list
    PROVE  Told(list) = {Run(p) : p \in Elements(list)}
  BY DEF Told, Elements

\* The run of a state, at the accepting space.
Shown(s, p) == {r \in {Run(p)} : Concrete!in_accepting_space(s, p)}

LEMMA AddStateTyped ==
    ASSUME NEW s, NEW B, NEW list \in Seq(Kept(s, B)), NEW p \in B
    PROVE  Concrete!add_state(s, list, p) \in Seq(Kept(s, B))
  <1> DEFINE C == Kept(s, B)
             kept == Concrete!Elsewhere(list, p.loc)
  <1>1. kept \in Seq(C)
    BY ElsewhereIs
  <1>2. Concrete!add_state(s, list, p) = list
        \/ /\ Concrete!in_accepting_space(s, p)
           /\ \/ Concrete!add_state(s, list, p) = Append(list, p)
              \/ Concrete!add_state(s, list, p) = Append(kept, p)
    BY DEF Concrete!add_state
  <1>3. Concrete!in_accepting_space(s, p) => p \in C
    BY DEF Kept
  <1>4. list \in Seq(C)
    OBVIOUS
  <1> HIDE DEF C, kept
  <1>5. ASSUME p \in C PROVE Append(list, p) \in Seq(C) /\ Append(kept, p) \in Seq(C)
    BY <1>1, <1>4, <1>5, AppendElements
  <1>6. Concrete!add_state(s, list, p) \in Seq(C)
    BY <1>2, <1>3, <1>4, <1>5
  <1> QED
    BY <1>6 DEF C

LEMMA RunFields ==
    ASSUME NEW p, NEW q
    PROVE  /\ Run(p).loc = p.loc /\ Run(p).g = p.g
           /\ p.x = q.x => Run(p).x = Run(q).x
           /\ Run(p).x = Run(q).x /\ p.loc = q.loc /\ p.g = q.g => Run(p) = Run(q)
  BY DEF Run, Concrete!Run, Concrete!Moment

LEMMA AddStateAdds ==
    ASSUME NEW s, NEW B, NEW t, \A q \in B : q.g = t,
           NEW list \in Seq(B), NEW p \in B, NEW M
    PROVE  Adds(M, Concrete!add_state(s, list, p), list, Shown(s, p))
  <1> DEFINE new == Concrete!add_state(s, list, p)
             kept == Concrete!Elsewhere(list, p.loc)
             add == Inclusion => \A i \in DOMAIN list : ~Concrete!Equal(p, list[i])
             replace == Inclusion =>
                \A i \in DOMAIN list : list[i].loc = p.loc => Concrete!Equal(p, list[i])
  <1>1. CASE ~Concrete!in_accepting_space(s, p)
    <2>1. new = list /\ Shown(s, p) = {}
      BY <1>1 DEF Concrete!add_state, Shown
    <2> QED
      BY <2>1, AddsNothing
  <1>2. CASE Concrete!in_accepting_space(s, p)
    <2>1. Shown(s, p) = {Run(p)}
      BY <1>2 DEF Shown
    <2>2. new = IF add \/ replace THEN Append(IF replace THEN kept ELSE list, p) ELSE list
      BY <1>2, SharedRuns DEF Concrete!add_state
    <2>3. kept \in Seq(B) /\ Elements(kept) = {q \in Elements(list) : q.loc # p.loc}
      BY ElsewhereIs
    <2>4. \A q \in Elements(list) : q \in B
      BY ElementOfSeq, LenProperties DEF Elements
    <2>5. ASSUME replace, NEW q \in Elements(list), q.loc = p.loc, Inclusion PROVE Run(q) = Run(p)
      <3>1. PICK i \in DOMAIN list : q = list[i]
        BY DEF Elements
      <3>2. p.x = q.x /\ p.g = q.g
        BY <2>5, <3>1 DEF Concrete!Equal
      <3> QED
        BY <2>5, <3>2, RunFields
    <2>6. CASE replace
      <3>1. new = Append(kept, p)
        BY <2>2, <2>6
      <3>2. Elements(new) = {q \in Elements(list) : q.loc # p.loc} \cup {p}
        BY <2>3, <3>1, AppendElements
      <3> HIDE DEF new, replace
      <3>3. Told(new) \subseteq Told(list) \cup {Run(p)}
        BY <3>2, ToldElements
      <3>4. Inclusion => Told(list) \cup {Run(p)} \subseteq Told(new)
        BY <2>5, <2>6, <3>2, ToldElements
      <3> QED
        BY <2>1, <3>3, <3>4 DEF Adds, new
    <2>7. CASE ~replace /\ add
      <3>1. new = Append(list, p)
        BY <2>2, <2>7
      <3>2. Elements(new) = Elements(list) \cup {p}
        BY <3>1, AppendElements
      <3> HIDE DEF new
      <3>3. Told(new) = Told(list) \cup {Run(p)}
        BY <3>2, ToldElements
      <3> QED
        BY <2>1, <3>3 DEF Adds, new
    <2>8. CASE ~replace /\ ~add
      <3>1. new = list
        BY <2>2, <2>8
      <3>2. PICK q \in Elements(list) : Concrete!Equal(p, q)
        BY <2>8 DEF Elements
      <3>3. PICK r \in Elements(list) : r.loc = p.loc
        BY <2>8 DEF Elements
      <3> HIDE DEF new
      <3>4. ASSUME Concrete!TellsApart(M), Told(list) \cup {Run(p)} \subseteq M
            PROVE  Run(p) \in Told(list)
        <4>1. Run(q) \in Told(list) /\ Run(r) \in Told(list)
          BY ToldElements
        <4>2. Run(q).x = Run(p).x /\ q.g = p.g /\ r.g = p.g
          BY <2>4, <3>2, RunFields DEF Concrete!Equal
        <4>3. CASE q.loc = p.loc
          BY <4>1, <4>2, <4>3, RunFields
        <4>4. CASE q.loc # p.loc
          <5>1. Run(p).loc # Run(q).loc /\ Run(r).loc = Run(p).loc
            BY <3>3, <4>4, RunFields
          <5>2. Run(r).x = Run(p).x
            BY <3>4, <4>1, <4>2, <5>1 DEF Concrete!TellsApart
          <5> QED
            BY <3>3, <4>1, <4>2, <5>2, RunFields
        <4> QED
          BY <4>3, <4>4
      <3> QED
        BY <2>1, <3>1, <3>4 DEF Adds, new
    <2> QED
      BY <2>6, <2>7, <2>8
  <1> QED
    BY <1>1, <1>2

-----------------------------------------------------------------------------
(***************************************************************************)
(* A state that no clock has wrapped in, and its run.                      *)
(***************************************************************************)
LEMMA RunIs ==
    ASSUME NEW n \in DOMAIN Setup, NEW s \in Sides, Concrete!ClocksFit,
           NEW t \in 0 .. Setup[n].horizon, NEW p \in Unwrapped(n, s, t)
    PROVE  /\ Run(p) \in Moments(n, s) /\ Run(p).loc = p.loc /\ Run(p).g = t
           /\ p.loc \in Aut(n, s).locations
           /\ Run(p).x = [c \in Aut(n, s).clocks |-> Saturate(p.x[c])]
           /\ DOMAIN p.x = Aut(n, s).clocks
           /\ \A c \in Aut(n, s).clocks : p.x[c] \in 0 .. t /\ Concrete!Signed(p.x[c]) = p.x[c]
  <1> DEFINE A == Aut(n, s)
             h == Setup[n].horizon
             y == [c \in A.clocks |-> Saturate(p.x[c])]
  <1>1. h \in Nat /\ Modulus \in Nat /\ 2 * h < Modulus
    BY Given DEF Concrete!ClocksFit
  <1>2. p.loc \in A.locations /\ p.x \in [A.clocks -> 0 .. t] /\ p.g = t
    BY DEF Unwrapped
  <1>3. \A k \in 0 .. t : Concrete!Signed(k) = k /\ Saturate(k) \in 0 .. Cap
    BY <1>1, CapAssumption DEF Concrete!Signed, Saturate
  <1>4. \A c \in A.clocks : p.x[c] \in 0 .. t /\ Concrete!Signed(p.x[c]) = p.x[c]
    BY <1>2, <1>3
  <1>5. DOMAIN p.x = A.clocks
    BY <1>2
  <1>6. Run(p) = [loc |-> p.loc, x |-> y, g |-> t]
    <2>1. [c \in DOMAIN p.x |-> Concrete!Saturate(Concrete!Signed(p.x[c]))] = y
      BY <1>4, <1>5, SharedValuations
    <2> HIDE DEF y
    <2> QED
      BY <1>2, <2>1 DEF Run, Concrete!Run, Concrete!Moment
  <1>7. y \in Valuations(A)
    BY <1>3, <1>4 DEF Valuations
  <1> HIDE DEF y
  <1> QED
    BY <1>2, <1>4, <1>5, <1>6, <1>7 DEF Moments, y

Bounded(A, constraints) ==
    \A c \in constraints : c \in Constraints(A.clocks) /\ c.bound < Cap

LEMMA GuardsBounded ==
    ASSUME NEW n \in DOMAIN Setup, NEW s \in Sides, Concrete!ClocksFit
    PROVE  /\ \A l \in Aut(n, s).locations : Bounded(Aut(n, s), Aut(n, s).invariant[l])
           /\ \A i \in DOMAIN Aut(n, s).edges : Bounded(Aut(n, s), Aut(n, s).edges[i].guard)
  <1> DEFINE A == Aut(n, s)
  <1>1. IsAutomaton(A) /\ Concrete!BelowCap(A)
    BY Given, SharedRuns DEF Concrete!ClocksFit, Aut
  <1> HIDE DEF A
  <1>2. /\ \A l \in A.locations : \A c \in A.invariant[l] : c.bound < Cap
        /\ \A e \in Edges(A) : \A c \in e.guard : c.bound < Cap
    BY <1>1, SharedValuations
  <1>3. ASSUME NEW l \in A.locations PROVE A.invariant[l] \subseteq Constraints(A.clocks)
    BY <1>1 DEF IsAutomaton
  <1>4. ASSUME NEW i \in DOMAIN A.edges
        PROVE  A.edges[i] \in Edges(A) /\ A.edges[i].guard \subseteq Constraints(A.clocks)
    <2>1. A.edges \in Seq(EdgesOver(A.locations, A.clocks))
      BY <1>1 DEF IsAutomaton
    <2>2. A.edges[i] \in EdgesOver(A.locations, A.clocks)
      BY <2>1
    <2> QED
      BY <2>2 DEF EdgesOver, Edges
  <1>5. \A l \in A.locations : Bounded(A, A.invariant[l])
    BY <1>2, <1>3 DEF Bounded
  <1>6. \A i \in DOMAIN A.edges : Bounded(A, A.edges[i].guard)
    BY <1>2, <1>4 DEF Bounded
  <1> QED
    BY <1>5, <1>6 DEF A

\* Beyond Cap no constraint tells values apart.
LEMMA SatisfiesIs ==
    ASSUME NEW n \in DOMAIN Setup, NEW s \in Sides, Concrete!ClocksFit,
           NEW t \in 0 .. Setup[n].horizon, NEW p \in Unwrapped(n, s, t),
           NEW constraints, Bounded(Aut(n, s), constraints)
    PROVE  Concrete!satisfies(p, constraints) <=> Meets(Run(p).x, constraints)
  <1> DEFINE A == Aut(n, s)
  <1>1. /\ Run(p).x = [c \in A.clocks |-> Saturate(p.x[c])] /\ DOMAIN p.x = A.clocks
        /\ \A c \in A.clocks : p.x[c] \in 0 .. t /\ Concrete!Signed(p.x[c]) = p.x[c]
    BY RunIs
  <1>2. Setup[n].horizon \in Nat
    BY Given
  <1>3. Concrete!satisfies(p, constraints) <=> Meets(Concrete!Read(p.x), constraints)
    BY SharedValuations DEF Concrete!satisfies
  <1>4. ASSUME NEW c \in constraints
        PROVE  Satisfies(Concrete!Read(p.x), c) <=> Satisfies(Run(p).x, c)
    <2>1. c.clock \in A.clocks /\ c.bound \in Int /\ c.bound < Cap
      BY DEF Bounded, Constraints
    <2>2. /\ Concrete!Read(p.x)[c.clock] = p.x[c.clock] /\ p.x[c.clock] \in Nat
          /\ Run(p).x[c.clock] = Saturate(p.x[c.clock])
      BY <1>1, <1>2, <2>1 DEF Concrete!Read
    <2>3. ASSUME NEW k \in Nat, NEW b \in Int, b < Cap
          PROVE  /\ (k < b <=> Saturate(k) < b) /\ (k <= b <=> Saturate(k) <= b)
                 /\ (k > b <=> Saturate(k) > b) /\ (k >= b <=> Saturate(k) >= b)
      BY <2>3, CapAssumption DEF Saturate
    <2> QED
      BY <2>1, <2>2, <2>3 DEF Satisfies
  <1> QED
    BY <1>3, <1>4 DEF Meets

LEMMA KeptIs ==
    ASSUME setup \in DOMAIN Setup, NEW s \in Sides, Concrete!ClocksFit,
           NEW t \in 0 .. Setup[setup].horizon, NEW p \in Unwrapped(setup, s, t)
    PROVE  Concrete!in_accepting_space(s, p) <=> Accepts(setup, s, Run(p))
  <1> DEFINE A == Aut(setup, s)
  <1>1. /\ Run(p).x = [c \in A.clocks |-> Saturate(p.x[c])] /\ DOMAIN p.x = A.clocks
        /\ \A c \in A.clocks : p.x[c] \in 0 .. t /\ Concrete!Signed(p.x[c]) = p.x[c]
        /\ Run(p).loc = p.loc
    BY RunIs
  <1>2. DOMAIN Concrete!Read(p.x) = A.clocks /\ \A c \in A.clocks : Concrete!Read(p.x)[c] = p.x[c]
    BY <1>1 DEF Concrete!Read
  <1>3. [c \in DOMAIN Concrete!Read(p.x) |-> Concrete!Saturate(Concrete!Read(p.x)[c])] = Run(p).x
    BY <1>1, <1>2, SharedValuations
  <1>4. \A c \in DOMAIN Concrete!Read(p.x) : Concrete!Read(p.x)[c] >= 0
    BY <1>1, <1>2
  <1>5. Concrete!accepting_space[s] = Space(setup, s)
    BY SharedRuns DEF accepting_space, Space
  <1> QED
    BY <1>1, <1>3, <1>4, <1>5, SharedValuations DEF Concrete!in_accepting_space, Accepts

LEMMA DelayedRun ==
    ASSUME NEW n \in DOMAIN Setup, NEW s \in Sides, Concrete!ClocksFit,
           NEW t \in 0 .. Setup[n].horizon, NEW u \in t .. Setup[n].horizon,
           NEW p \in Unwrapped(n, s, t)
    PROVE  /\ Concrete!delay(p, u) \in Unwrapped(n, s, u)
           /\ Run(Concrete!delay(p, u)) = Moment(p.loc, Elapse(Run(p).x, u - t), u)
  <1> DEFINE A == Aut(n, s)
             h == Setup[n].horizon
             y == [c \in A.clocks |-> p.x[c] + (u - t)]
             q == Concrete!delay(p, u)
  <1>1. h \in Nat /\ Modulus \in Nat /\ 2 * h < Modulus
    BY Given DEF Concrete!ClocksFit
  <1>2. p.loc \in A.locations /\ p.x \in [A.clocks -> 0 .. t] /\ p.g = t
    BY DEF Unwrapped
  <1>3. t \in Nat /\ u \in Nat /\ u - t \in Nat /\ u < Modulus /\ t + (u - t) = u /\ u \in 0 .. h
    BY <1>1
  <1>4. (u - t) % Modulus = u - t
    BY <1>1, <1>3
  <1>5. \A k \in 0 .. t : k + (u - t) \in 0 .. u /\ (k + (u - t)) % Modulus = k + (u - t)
    BY <1>1, <1>3
  <1>6. q = [loc |-> p.loc, x |-> y, g |-> u]
    <2>1. [c \in DOMAIN p.x |-> (p.x[c] + (u - t)) % Modulus] = y
      BY <1>2, <1>5
    <2>2. (p.g + (u - t)) % Modulus = u
      BY <1>1, <1>2, <1>3
    <2> HIDE DEF y
    <2> QED
      BY <1>2, <1>4, <2>1, <2>2 DEF Concrete!delay, Concrete!State
  <1>7. y \in [A.clocks -> 0 .. u]
    BY <1>2, <1>5
  <1>8. q \in Unwrapped(n, s, u)
    <2> HIDE DEF y, q
    <2> QED
      BY <1>2, <1>6, <1>7 DEF Unwrapped
  <1>9. Run(q).loc = q.loc /\ Run(q).g = u /\ Run(q) \in Moments(n, s)
        /\ Run(q).x = [c \in A.clocks |-> Saturate(q.x[c])]
    <2> HIDE DEF q
    <2> QED
      BY <1>3, <1>8, RunIs
  <1>10. Run(p).x = [c \in A.clocks |-> Saturate(p.x[c])]
    BY RunIs
  <1>11. Run(q).x = Elapse(Run(p).x, u - t)
    <2>1. \A k \in 0 .. t : Saturate(k + (u - t)) = Saturate(Saturate(k) + (u - t))
      BY <1>3, CapAssumption DEF Saturate
    <2>2. \A c \in A.clocks : q.x[c] = p.x[c] + (u - t) /\ p.x[c] \in 0 .. t
      BY <1>2, <1>6
    <2> HIDE DEF q, y
    <2>3. \A c \in A.clocks : Saturate(q.x[c]) = Saturate(Saturate(p.x[c]) + (u - t))
      BY <2>1, <2>2
    <2> QED
      BY <1>9, <1>10, <2>3 DEF Elapse
  <1> QED
    <2>1. q.loc = p.loc
      BY <1>6
    <2> HIDE DEF q
    <2>2. Run(q) = [loc |-> Run(q).loc, x |-> Run(q).x, g |-> Run(q).g]
      BY <1>9 DEF Moments
    <2>3. Run(q) = Moment(p.loc, Elapse(Run(p).x, u - t), u)
      BY <1>9, <1>11, <2>1, <2>2 DEF Moment
    <2> QED
      BY <1>8, <2>3 DEF q

LEMMA JumpedRun ==
    ASSUME NEW n \in DOMAIN Setup, NEW s \in Sides, Concrete!ClocksFit,
           NEW t \in 0 .. Setup[n].horizon, NEW p \in Unwrapped(n, s, t),
           NEW i \in DOMAIN Aut(n, s).edges
    PROVE  /\ Jump(p, Aut(n, s).edges[i]) \in Unwrapped(n, s, t)
           /\ Run(Jump(p, Aut(n, s).edges[i])) =
                 Moment(Aut(n, s).edges[i].to, Reset(Run(p).x, Aut(n, s).edges[i].reset), t)
  <1> DEFINE A == Aut(n, s)
             e == A.edges[i]
             q == Jump(p, e)
  <1>1. t \in Nat /\ q \in Unwrapped(n, s, t)
    <2>1. t \in Nat
      BY Given
    <2> QED
      BY <2>1, UnwrappedJumps DEF EdgesStayIn
  <1>2. q = [loc |-> e.to, x |-> Reset(p.x, e.reset), g |-> p.g]
    BY SharedValuations DEF Jump, Concrete!State
  <1>3. Run(q).loc = q.loc /\ Run(q).g = t /\ Run(q) \in Moments(n, s)
        /\ Run(q).x = [c \in A.clocks |-> Saturate(q.x[c])]
    <2> HIDE DEF q
    <2> QED
      BY <1>1, RunIs
  <1>4. Run(p).x = [c \in A.clocks |-> Saturate(p.x[c])] /\ DOMAIN p.x = A.clocks
    BY RunIs
  <1>5. Saturate(0) = 0
    BY CapAssumption DEF Saturate
  <1>6. q.loc = e.to /\ \A c \in A.clocks : q.x[c] = IF c \in e.reset THEN 0 ELSE p.x[c]
    BY <1>2, <1>4 DEF Reset
  <1> HIDE DEF q, e
  <1>7. Run(q).x = Reset(Run(p).x, e.reset)
    BY <1>3, <1>4, <1>5, <1>6 DEF Reset
  <1>8. Run(q) = [loc |-> Run(q).loc, x |-> Run(q).x, g |-> Run(q).g]
    BY <1>3 DEF Moments
  <1>9. Run(q) = Moment(e.to, Reset(Run(p).x, e.reset), t)
    BY <1>3, <1>6, <1>7, <1>8 DEF Moment
  <1> QED
    BY <1>1, <1>9 DEF q, e

-----------------------------------------------------------------------------
(***************************************************************************)
(* One edge on one state: it adds the run that takes the edge, if that is  *)
(* a run and the space keeps it.                                           *)
(***************************************************************************)
Reached(s, w, i) ==
    LET e == Aut(setup, s).edges[i]
    IN  {r \in {Moment(e.to, Reset(w.x, e.reset), w.g)} :
            /\ Meets(w.x, e.guard) /\ Meets(r.x, Aut(setup, s).invariant[r.loc])
            /\ Accepts(setup, s, r)}

LEMMA TakeEdgeTyped ==
    ASSUME NEW s \in Sides, NEW B, EdgesStayIn(B, setup, s), NEW p \in B,
           NEW list \in Seq(Kept(s, B)), NEW i \in DOMAIN Aut(setup, s).edges
    PROVE  Concrete!take_edge(s, p, list, Aut(setup, s).edges[i]) \in Seq(Kept(s, B))
  <1> DEFINE e == Aut(setup, s).edges[i]
  <1>1. Jump(p, e) \in B
    BY DEF EdgesStayIn
  <1>2. Concrete!take_edge(s, p, list, e) \in {list, Concrete!add_state(s, list, Jump(p, e))}
    BY DEF Concrete!take_edge, Jump
  <1> HIDE DEF e
  <1>3. Concrete!take_edge(s, p, list, e) \in Seq(Kept(s, B))
    BY <1>1, <1>2, AddStateTyped
  <1> QED
    BY <1>3 DEF e

LEMMA TakeEdgeAdds ==
    ASSUME setup \in DOMAIN Setup, NEW s \in Sides, Concrete!ClocksFit,
           NEW t \in 0 .. Setup[setup].horizon, NEW p \in Unwrapped(setup, s, t),
           NEW list \in Seq(Unwrapped(setup, s, t)), NEW i \in DOMAIN Aut(setup, s).edges, NEW M
    PROVE  Adds(M, Concrete!take_edge(s, p, list, Aut(setup, s).edges[i]), list, Reached(s, Run(p), i))
  <1> DEFINE A == Aut(setup, s)
             e == A.edges[i]
             q == Jump(p, e)
             new == Concrete!take_edge(s, p, list, e)
             r == Moment(e.to, Reset(Run(p).x, e.reset), t)
  <1>1. q \in Unwrapped(setup, s, t) /\ Run(q) = r
    BY JumpedRun
  <1>2. Run(p).g = t
    <2>1. p.g = t
      BY DEF Unwrapped
    <2> QED
      BY <2>1, RunFields
  <1>3. e.to \in A.locations /\ Bounded(A, e.guard) /\ Bounded(A, A.invariant[e.to])
    <2>1. IsAutomaton(A)
      BY Given
    <2>2. e.to \in A.locations
      BY <2>1, EdgesTyped
    <2> QED
      BY <2>2, GuardsBounded
  <1>4. Concrete!satisfies(p, e.guard) <=> Meets(Run(p).x, e.guard)
    <2> HIDE DEF e
    <2> QED
      BY <1>3, SatisfiesIs
  <1>5. Concrete!satisfies(q, A.invariant[e.to]) <=> Meets(r.x, A.invariant[r.loc])
    <2>1. r.loc = e.to
      BY DEF Moment
    <2> HIDE DEF e, q, r
    <2> QED
      BY <1>1, <1>3, <2>1, SatisfiesIs
  <1>6. Concrete!in_accepting_space(s, q) <=> Accepts(setup, s, r)
    <2> HIDE DEF e, q, r
    <2> QED
      BY <1>1, KeptIs
  <1>7. new = IF Concrete!satisfies(p, e.guard) /\ Concrete!satisfies(q, A.invariant[e.to])
              THEN Concrete!add_state(s, list, q) ELSE list
    BY SharedRuns DEF Concrete!take_edge, Jump, automaton, Aut
  <1>8. Reached(s, Run(p), i) =
           {x \in {r} : /\ Meets(Run(p).x, e.guard) /\ Meets(x.x, A.invariant[x.loc])
                        /\ Accepts(setup, s, x)}
    BY <1>2 DEF Reached
  <1>9. Adds(M, Concrete!add_state(s, list, q), list, Shown(s, q))
    <2>1. \A b \in Unwrapped(setup, s, t) : b.g = t
      BY DEF Unwrapped
    <2> HIDE DEF q, e
    <2> QED
      BY <1>1, <2>1, AddStateAdds
  <1>10. Shown(s, q) = {x \in {r} : Accepts(setup, s, x)}
    BY <1>1, <1>6 DEF Shown
  <1> HIDE DEF q, r, e, new, A
  <1>11. CASE Concrete!satisfies(p, e.guard) /\ Concrete!satisfies(q, A.invariant[e.to])
    <2>1. Reached(s, Run(p), i) = Shown(s, q)
      BY <1>4, <1>5, <1>8, <1>10, <1>11
    <2> QED
      BY <1>7, <1>9, <1>11, <2>1 DEF new, e, A
  <1>12. CASE ~(Concrete!satisfies(p, e.guard) /\ Concrete!satisfies(q, A.invariant[e.to]))
    <2>1. Reached(s, Run(p), i) = {}
      BY <1>4, <1>5, <1>8, <1>12
    <2> QED
      BY <1>7, <1>12, <2>1, AddsNothing DEF new, e, A
  <1> QED
    BY <1>11, <1>12

(***************************************************************************)
(* The loop over the edges.                                                *)
(***************************************************************************)
Trying(g, s, q, begun, edges_of, tried) ==
    LET places == [i \in DOMAIN edges_of |-> i]
    IN  g = [S \in SUBSET DOMAIN places |->
                IF S = {} THEN begun
                ELSE IF places[Concrete!Max(S)] \in tried
                     THEN Concrete!take_edge(s, q, g[S \ {Concrete!Max(S)}],
                                             edges_of[places[Concrete!Max(S)]])
                     ELSE g[S \ {Concrete!Max(S)}]]

Tries(f, s, q, begun, tried) ==
    /\ f[0] = begun
    /\ \A k \in 1 .. Len(Aut(setup, s).edges) :
          f[k] = IF k \in tried THEN Concrete!take_edge(s, q, f[k - 1], Aut(setup, s).edges[k])
                 ELSE f[k - 1]

\* The edges of a state that are tried, and the list before they are.
Matched(s, q, in) ==
    IF Foreign(Aut(setup, s), in.label) THEN {}
    ELSE Concrete!Matching(Aut(setup, s), q.loc, in.label)

Tried(s, q, in) ==
    IF Stays(Aut(setup, s), in) /\ ~Concrete!in_accepting_space(s, q)
    THEN {i \in Matched(s, q, in) : \E j \in Matched(s, q, in) : j < i}
    ELSE Matched(s, q, in)

Begun(s, list, q, in) ==
    IF Stays(Aut(setup, s), in) THEN Concrete!add_state(s, list, q) ELSE list

Handled(s, q, begun, tried) ==
    (CHOOSE g : Trying(g, s, q, begun, Aut(setup, s).edges, tried))
        [DOMAIN [i \in DOMAIN Aut(setup, s).edges |-> i]]

LEMMA AdvanceIs ==
    ASSUME NEW s, NEW list, NEW p, NEW in
    PROVE  LET q == Concrete!delay(p, in.first)
           IN  Concrete!advance(s, list, p, in) =
                  IF Concrete!satisfies(q, Aut(setup, s).invariant[q.loc])
                  THEN Handled(s, q, Begun(s, list, q, in), Tried(s, q, in))
                  ELSE list
  <1> DEFINE A == Concrete!automaton[s]
             q == Concrete!delay(p, in.first)
             stays == Concrete!Foreign(A, in.label) \/ in.type = "OPTIONAL"
             matching == IF Concrete!Foreign(A, in.label) THEN {}
                         ELSE Concrete!Matching(A, q.loc, in.label)
             tried == IF stays /\ ~Concrete!in_accepting_space(s, q)
                      THEN {i \in matching : \E j \in matching : j < i}
                      ELSE matching
             begun == IF stays THEN Concrete!add_state(s, list, q) ELSE list
  <1>1. Concrete!advance(s, list, p, in) =
           IF Concrete!satisfies(q, A.invariant[q.loc])
           THEN (CHOOSE g : Trying(g, s, q, begun, A.edges, tried))[DOMAIN [i \in DOMAIN A.edges |-> i]]
           ELSE list
    BY Zenon DEF Concrete!advance, Concrete!FoldLeftDomain, Concrete!FoldLeft,
         Concrete!MapThenFoldSet, Trying
  <1>2. A = Aut(setup, s)
    BY SharedRuns DEF automaton, Aut
  <1>3. stays <=> Stays(Aut(setup, s), in)
    BY <1>2, SharedRuns DEF Stays
  <1>4. matching = Matched(s, q, in)
    BY <1>2, SharedRuns DEF Matched
  <1> HIDE DEF A, q, stays, matching
  <1>5. tried = Tried(s, q, in)
    BY <1>3, <1>4 DEF Tried
  <1>6. begun = Begun(s, list, q, in)
    BY <1>3 DEF Begun
  <1> HIDE DEF tried, begun
  <1> QED
    BY <1>1, <1>2, <1>5, <1>6 DEF q, Handled

LEMMA EdgesRun ==
    ASSUME NEW s \in Sides, IsAutomaton(Aut(setup, s)), NEW B, EdgesStayIn(B, setup, s), NEW q \in B,
           NEW begun \in Seq(Kept(s, B)), NEW tried
    PROVE  \E f \in [0 .. Len(Aut(setup, s).edges) -> Seq(Kept(s, B))] :
              /\ Tries(f, s, q, begun, tried)
              /\ Handled(s, q, begun, tried) = f[Len(Aut(setup, s).edges)]
  <1> DEFINE A == Aut(setup, s)
             n == Len(A.edges)
             V == Seq(Kept(s, B))
             places == [i \in DOMAIN A.edges |-> i]
             iter == CHOOSE g : Trying(g, s, q, begun, A.edges, tried)
             step == [z \in V \X (1 .. n) |->
                         IF z[2] \in tried THEN Concrete!take_edge(s, q, z[1], A.edges[z[2]]) ELSE z[1]]
  <1>1. n \in Nat /\ DOMAIN A.edges = 1 .. n
    BY LenProperties DEF IsAutomaton
  <1>2. DOMAIN places = 1 .. n /\ \A k \in 1 .. n : places[k] = k
    BY <1>1
  <1>3. \E g \in [SUBSET (1 .. n) -> V] : Trying(g, s, q, begun, A.edges, tried)
    <2>1. step \in [V \X (1 .. n) -> V]
      BY <1>1, TakeEdgeTyped
    <2>2. \A y \in V : \A x \in 1 .. n :
             step[<<y, x>>] = IF x \in tried THEN Concrete!take_edge(s, q, y, A.edges[x]) ELSE y
      OBVIOUS
    <2> HIDE DEF step, n, V, places
    <2>3. begun \in V
      BY DEF V
    <2>4. PICK g : FoldsOver(g, n, V, begun, step)
      BY <1>1, <2>1, <2>3, FoldIs
    <2>5. ASSUME NEW S \in SUBSET DOMAIN places
          PROVE  g[S] = IF S = {} THEN begun
                        ELSE IF places[Concrete!Max(S)] \in tried
                             THEN Concrete!take_edge(s, q, g[S \ {Concrete!Max(S)}],
                                                     A.edges[places[Concrete!Max(S)]])
                             ELSE g[S \ {Concrete!Max(S)}]
      <3>1. CASE S = {}
        BY <2>4, <3>1 DEF FoldsOver
      <3>2. CASE S # {}
        <4>1. PICK x : x = Concrete!Max(S)
          OBVIOUS
        <4>2. x \in 1 .. n /\ g[S \ {x}] \in V /\ g[S] = step[<<g[S \ {x}], x>>]
          BY <1>2, <2>4, <3>2, <4>1 DEF FoldsOver
        <4>3. g[S] = IF x \in tried THEN Concrete!take_edge(s, q, g[S \ {x}], A.edges[x])
                     ELSE g[S \ {x}]
          BY <2>2, <4>2
        <4> QED
          BY <1>2, <3>2, <4>1, <4>2, <4>3
      <3> QED
        BY <3>1, <3>2
    <2>6. g = [S \in SUBSET DOMAIN places |-> g[S]]
      BY <1>2, <2>4 DEF FoldsOver
    <2>7. Trying(g, s, q, begun, A.edges, tried)
      BY <2>5, <2>6, Zenon DEF Trying, places
    <2> QED
      BY <2>4, <2>7 DEF FoldsOver
  <1> HIDE DEF step
  <1>4. Trying(iter, s, q, begun, A.edges, tried)
    BY <1>3, Zenon
  <1> HIDE DEF iter
  <1>5. iter = [S \in SUBSET DOMAIN places |->
                IF S = {} THEN begun
                ELSE IF places[Concrete!Max(S)] \in tried
                     THEN Concrete!take_edge(s, q, iter[S \ {Concrete!Max(S)}],
                                             A.edges[places[Concrete!Max(S)]])
                     ELSE iter[S \ {Concrete!Max(S)}]]
    BY <1>4, Zenon DEF Trying
  <1> DEFINE f == [k \in 0 .. n |-> iter[1 .. k]]
  <1> HIDE DEF places
  <1>6. f[0] = begun
    <2>1. 1 .. 0 = {} /\ {} \in SUBSET DOMAIN places /\ f[0] = iter[1 .. 0]
      BY <1>1
    <2> HIDE DEF f
    <2> QED
      BY <1>5, <2>1, Zenon
  <1>7. ASSUME NEW k \in 1 .. n
        PROVE  f[k] = IF k \in tried THEN Concrete!take_edge(s, q, f[k - 1], A.edges[k]) ELSE f[k - 1]
    <2>1. f[k] = iter[1 .. k] /\ f[k - 1] = iter[1 .. k - 1]
      BY <1>1
    <2>2. 1 .. k \in SUBSET DOMAIN places /\ 1 .. k # {} /\ (1 .. k) \ {k} = 1 .. k - 1
          /\ Concrete!Max(1 .. k) = k /\ places[k] = k
      BY <1>1, <1>2, UpTo
    <2> HIDE DEF f
    <2>3. iter[1 .. k] = IF places[Concrete!Max(1 .. k)] \in tried
                         THEN Concrete!take_edge(s, q, iter[(1 .. k) \ {Concrete!Max(1 .. k)}],
                                                 A.edges[places[Concrete!Max(1 .. k)]])
                         ELSE iter[(1 .. k) \ {Concrete!Max(1 .. k)}]
      BY <1>5, <2>2, Zenon
    <2> QED
      BY <2>1, <2>2, <2>3
  <1>8. iter[DOMAIN places] = f[n]
    BY <1>1, <1>2
  <1>9. f \in [0 .. n -> V]
    <2> DEFINE T == {k \in Nat : k <= n => f[k] \in V}
    <2>1. 0 \in T
      BY <1>6
    <2>2. ASSUME NEW k \in Nat, k \in T PROVE k + 1 \in T
      <3> SUFFICES ASSUME k + 1 <= n PROVE f[k + 1] \in V
        OBVIOUS
      <3>1. k + 1 \in 1 .. n /\ k + 1 - 1 = k /\ f[k] \in V
        BY <1>1, <2>2
      <3> HIDE DEF f
      <3>2. f[k + 1] = IF k + 1 \in tried THEN Concrete!take_edge(s, q, f[k], A.edges[k + 1]) ELSE f[k]
        BY <1>7, <3>1
      <3>3. Concrete!take_edge(s, q, f[k], A.edges[k + 1]) \in V
        BY <1>1, <3>1, TakeEdgeTyped
      <3> QED
        BY <3>1, <3>2, <3>3
    <2>3. \A k \in 0 .. n : f[k] \in V
      <3>1. Nat \subseteq T
        <4> HIDE DEF T
        <4> QED
          BY <2>1, <2>2, SetInduction
      <3> QED
        BY <1>1, <3>1
    <2>4. f = [k \in 0 .. n |-> f[k]]
      OBVIOUS
    <2> HIDE DEF f, V
    <2> QED
      BY <2>3, <2>4
  <1> HIDE DEF f
  <1>10. Tries(f, s, q, begun, tried)
    BY <1>6, <1>7 DEF Tries
  <1> QED
    BY <1>8, <1>9, <1>10 DEF iter, places, Handled

LEMMA TriesAdd ==
    ASSUME setup \in DOMAIN Setup, NEW s \in Sides, Concrete!ClocksFit,
           NEW t \in 0 .. Setup[setup].horizon, NEW q \in Unwrapped(setup, s, t),
           NEW begun, NEW tried, tried \subseteq DOMAIN Aut(setup, s).edges, NEW M,
           NEW f \in [0 .. Len(Aut(setup, s).edges) -> Seq(Unwrapped(setup, s, t))],
           Tries(f, s, q, begun, tried)
    PROVE  Adds(M, f[Len(Aut(setup, s).edges)], begun,
                UNION {Reached(s, Run(q), i) : i \in tried})
  <1> DEFINE A == Aut(setup, s)
             n == Len(A.edges)
             upto(k) == UNION {Reached(s, Run(q), i) : i \in tried \cap (1 .. k)}
             T == {k \in Nat : k <= n => Adds(M, f[k], begun, upto(k))}
  <1>1. n \in Nat /\ DOMAIN A.edges = 1 .. n
    <2>1. IsAutomaton(A)
      BY Given
    <2> QED
      BY <2>1, LenProperties DEF IsAutomaton
  <1>2. 0 \in T
    <2>1. f[0] = begun /\ upto(0) = {}
      BY DEF Tries
    <2> HIDE DEF upto
    <2> QED
      BY <2>1, AddsNothing
  <1>3. ASSUME NEW k \in Nat, k \in T PROVE k + 1 \in T
    <2> SUFFICES ASSUME k + 1 <= n PROVE Adds(M, f[k + 1], begun, upto(k + 1))
      OBVIOUS
    <2>1. k + 1 \in 1 .. n /\ k + 1 - 1 = k /\ k \in 0 .. n /\ Adds(M, f[k], begun, upto(k))
      BY <1>1, <1>3
    <2>2. f[k + 1] = IF k + 1 \in tried THEN Concrete!take_edge(s, q, f[k], A.edges[k + 1]) ELSE f[k]
      BY <2>1 DEF Tries
    <2>3. tried \cap (1 .. k + 1) = (tried \cap (1 .. k)) \cup (tried \cap {k + 1})
      <3>1. 1 .. k + 1 = (1 .. k) \cup {k + 1}
        OBVIOUS
      <3> QED
        BY <3>1
    <2>4. CASE k + 1 \in tried
      <3>1. upto(k + 1) = upto(k) \cup Reached(s, Run(q), k + 1)
        BY <2>3, <2>4
      <3>2. f[k] \in Seq(Unwrapped(setup, s, t))
        BY <2>1
      <3>3. Adds(M, Concrete!take_edge(s, q, f[k], A.edges[k + 1]), f[k], Reached(s, Run(q), k + 1))
        BY <1>1, <2>1, <3>2, TakeEdgeAdds
      <3> HIDE DEF upto
      <3> QED
        BY <2>1, <2>2, <2>4, <3>1, <3>3, AddsMore
    <2>5. CASE k + 1 \notin tried
      <3>1. upto(k + 1) = upto(k)
        BY <2>3, <2>5
      <3> HIDE DEF upto
      <3> QED
        BY <2>1, <2>2, <2>5, <3>1
    <2> QED
      BY <2>4, <2>5
  <1>4. n \in T
    <2> HIDE DEF T
    <2> QED
      BY <1>1, <1>2, <1>3, SetInduction
  <1>5. tried \cap (1 .. n) = tried
    BY <1>1
  <1>6. Adds(M, f[n], begun, upto(n))
    <2> HIDE DEF upto
    <2>1. n <= n => Adds(M, f[n], begun, upto(n))
      BY <1>4
    <2> HIDE DEF n
    <2> QED
      BY <1>1, <2>1
  <1>7. upto(n) = UNION {Reached(s, Run(q), i) : i \in tried}
    BY <1>5
  <1> HIDE DEF upto
  <1> QED
    BY <1>6, <1>7

LEMMA MatchedIs ==
    ASSUME NEW s, NEW q, NEW in
    PROVE  /\ Matched(s, q, in) \subseteq DOMAIN Aut(setup, s).edges
           /\ Tried(s, q, in) \subseteq Matched(s, q, in)
           /\ \A i \in DOMAIN Aut(setup, s).edges :
                 i \in Matched(s, q, in) <=>
                    /\ ~Foreign(Aut(setup, s), in.label)
                    /\ Aut(setup, s).edges[i].from = q.loc /\ Aut(setup, s).edges[i].label = in.label
  BY DEF Matched, Tried, Concrete!Matching

LEMMA AdvanceTyped ==
    ASSUME setup \in DOMAIN Setup, NEW s \in Sides, NEW B, EdgesStayIn(B, setup, s),
           NEW list \in Seq(Kept(s, B)), NEW p, NEW in, Concrete!delay(p, in.first) \in B
    PROVE  Concrete!advance(s, list, p, in) \in Seq(Kept(s, B))
  <1> DEFINE A == Aut(setup, s)
             q == Concrete!delay(p, in.first)
             begun == Begun(s, list, q, in)
             tried == Tried(s, q, in)
  <1>1. IsAutomaton(A)
    BY Given
  <1>2. begun \in Seq(Kept(s, B))
    BY AddStateTyped DEF Begun
  <1>3. PICK f \in [0 .. Len(A.edges) -> Seq(Kept(s, B))] :
           Handled(s, q, begun, tried) = f[Len(A.edges)]
    <2> HIDE DEF begun, tried, q
    <2>1. q \in B
      BY DEF q
    <2> QED
      BY <1>1, <1>2, <2>1, EdgesRun
  <1>4. Len(A.edges) \in Nat
    BY <1>1, LenProperties DEF IsAutomaton
  <1>5. Concrete!advance(s, list, p, in) \in {list, f[Len(A.edges)]}
    BY <1>3, AdvanceIs
  <1> QED
    BY <1>4, <1>5

LEMMA RunTyped ==
    ASSUME NEW n \in DOMAIN Setup, NEW s \in Sides, Concrete!ClocksFit,
           NEW t \in 0 .. Setup[n].horizon, NEW p \in Unwrapped(n, s, t)
    PROVE  /\ Run(p) \in Moments(n, s) /\ Run(p).loc = p.loc /\ Run(p).g = t
           /\ p.loc \in Aut(n, s).locations
  <1>1. Run(p).loc = p.loc /\ Run(p).g = t
    <2>1. p.g = t
      BY DEF Unwrapped
    <2> QED
      BY <2>1, RunFields
  <1>2. p.loc \in Aut(n, s).locations
    BY DEF Unwrapped
  <1>3. Run(p) \in Moments(n, s)
    BY RunIs, Zenon
  <1> QED
    BY <1>1, <1>2, <1>3

LEMMA StateIs ==
    ASSUME setup \in DOMAIN Setup, NEW s \in Sides, Concrete!ClocksFit,
           NEW u \in 0 .. Setup[setup].horizon, NEW q \in Unwrapped(setup, s, u)
    PROVE  /\ Run(q) \in Moments(setup, s) /\ Run(q).loc = q.loc /\ Run(q).g = u
           /\ q.loc \in Aut(setup, s).locations
           /\ Concrete!in_accepting_space(s, q) <=> Accepts(setup, s, Run(q))
           /\ Concrete!satisfies(q, Aut(setup, s).invariant[q.loc]) <=>
                 Meets(Run(q).x, Aut(setup, s).invariant[Run(q).loc])
  <1>1. /\ Run(q) \in Moments(setup, s) /\ Run(q).loc = q.loc /\ Run(q).g = u
        /\ q.loc \in Aut(setup, s).locations
    BY RunTyped
  <1>2. Bounded(Aut(setup, s), Aut(setup, s).invariant[q.loc])
    BY <1>1, GuardsBounded
  <1>3. Concrete!satisfies(q, Aut(setup, s).invariant[q.loc]) <=>
           Meets(Run(q).x, Aut(setup, s).invariant[q.loc])
    BY <1>2, SatisfiesIs
  <1>4. Concrete!in_accepting_space(s, q) <=> Accepts(setup, s, Run(q))
    BY KeptIs
  <1> QED
    BY <1>1, <1>3, <1>4

\* The runs of R that the accepting space keeps after an observation.
KeptAfter(s, R, in) == {r \in RunsAfter(Aut(setup, s), R, in) : Accepts(setup, s, r)}

LEMMA AdvanceAdds ==
    ASSUME setup \in DOMAIN Setup, NEW s \in Sides, Concrete!ClocksFit,
           NEW in \in Setup[setup].inputs, in.first = in.second,
           NEW t \in 0 .. in.first, NEW p \in Unwrapped(setup, s, t),
           NEW list \in Seq(Kept(s, Unwrapped(setup, s, in.first))), NEW M
    PROVE  Adds(M, Concrete!advance(s, list, p, in), list, KeptAfter(s, {Run(p)}, in))
  <1> DEFINE A == Aut(setup, s)
             u == in.first
             U == Unwrapped(setup, s, u)
             q == Concrete!delay(p, u)
             w == Run(q)
             X == KeptAfter(s, {Run(p)}, in)
             begun == Begun(s, list, q, in)
             tried == Tried(s, q, in)
             new == Concrete!advance(s, list, p, in)
  <1>1. /\ IsAutomaton(A) /\ u \in 0 .. Setup[setup].horizon /\ u \in Nat
        /\ t \in 0 .. Setup[setup].horizon /\ u \in t .. Setup[setup].horizon
    BY Given DEF IsInput
  <1>2. q \in U /\ w = Moment(p.loc, Elapse(Run(p).x, u - t), u)
    BY <1>1, DelayedRun
  <1>3. /\ w \in Moments(setup, s) /\ w.loc = q.loc /\ w.g = u /\ q.loc \in A.locations
        /\ Concrete!in_accepting_space(s, q) <=> Accepts(setup, s, w)
        /\ Concrete!satisfies(q, A.invariant[q.loc]) <=> Meets(w.x, A.invariant[w.loc])
    <2> HIDE DEF q, u
    <2>1. q \in Unwrapped(setup, s, u) /\ u \in 0 .. Setup[setup].horizon
      BY <1>1, <1>2
    <2> HIDE DEF U
    <2> QED
      BY <2>1, StateIs
  <1>4. EdgesStayIn(U, setup, s)
    BY <1>1, UnwrappedJumps
  <1>5. list \in Seq(U) /\ \A b \in U : b.g = u
    <2>1. Kept(s, U) \subseteq U
      BY DEF Kept
    <2>2. \A b \in U : b.g = u
      BY DEF Unwrapped
    <2> HIDE DEF U
    <2>3. list \in Seq(Kept(s, U))
      BY DEF U
    <2> QED
      BY <2>1, <2>2, <2>3, SeqMonotonic
  <1>6. begun \in Seq(Kept(s, U)) /\ begun \in Seq(U)
    <2>1. Kept(s, U) \subseteq U
      BY DEF Kept
    <2>2. begun \in Seq(Kept(s, U))
      BY <1>2, AddStateTyped DEF Begun
    <2> HIDE DEF U, begun
    <2> QED
      BY <2>1, <2>2, SeqMonotonic
  <1> DEFINE Y == IF Stays(A, in) THEN Shown(s, q) ELSE {}
             Z == UNION {Reached(s, w, i) : i \in tried}
  <1>7. Adds(M, begun, list, Y)
    <2>1. CASE Stays(A, in)
      <3>1. begun = Concrete!add_state(s, list, q) /\ Y = Shown(s, q)
        BY <2>1 DEF Begun
      <3> HIDE DEF q, U, begun, Y
      <3> QED
        BY <1>2, <1>5, <3>1, AddStateAdds
    <2>2. CASE ~Stays(A, in)
      <3>1. begun = list /\ Y = {}
        BY <2>2 DEF Begun
      <3> HIDE DEF begun, Y
      <3> QED
        BY <3>1, AddsNothing
    <2> QED
      BY <2>1, <2>2
  <1>8. Adds(M, Handled(s, q, begun, tried), begun, Z)
    <2>1. PICK f \in [0 .. Len(A.edges) -> Seq(Kept(s, U))] :
             Tries(f, s, q, begun, tried) /\ Handled(s, q, begun, tried) = f[Len(A.edges)]
      <3> HIDE DEF begun, tried, q, U
      <3> QED
        BY <1>1, <1>2, <1>4, <1>6, EdgesRun
    <2>2. f \in [0 .. Len(A.edges) -> Seq(U)]
      <3>1. Kept(s, U) \subseteq U
        BY DEF Kept
      <3> HIDE DEF U
      <3>2. Seq(Kept(s, U)) \subseteq Seq(U)
        BY <3>1, SeqMonotonic
      <3> QED
        BY <2>1, <3>2
    <2>3. tried \subseteq DOMAIN A.edges
      BY MatchedIs
    <2>4. in.first \in 0 .. Setup[setup].horizon
      BY <1>1
    <2>5. q \in Unwrapped(setup, s, in.first)
      BY <1>2
    <2>6. f \in [0 .. Len(A.edges) -> Seq(Unwrapped(setup, s, in.first))]
      BY <2>2
    <2> HIDE DEF begun, tried, q
    <2>7. Adds(M, f[Len(A.edges)], begun, UNION {Reached(s, Run(q), i) : i \in tried})
      BY <2>1, <2>3, <2>4, <2>5, <2>6, TriesAdd
    <2> HIDE DEF U, u
    <2> QED
      BY <2>1, <2>7
  <1>9. Concrete!in_accepting_space(s, q) <=> Accepts(setup, s, w)
    BY <1>3
  <1>10. Concrete!satisfies(q, A.invariant[q.loc]) <=> Meets(w.x, A.invariant[w.loc])
    BY <1>3
  <1>11. \A x : Waits(A, Run(p), in, x) <=> x = w /\ Meets(w.x, A.invariant[w.loc])
    <2>1. in.first .. in.second = {u} /\ Run(p).loc = p.loc /\ Run(p).g = t /\ t <= u
      <3>1. p.g = t
        BY DEF Unwrapped
      <3> QED
        BY <1>1, <3>1, RunFields
    <2> HIDE DEF w
    <2> QED
      BY <1>2, <2>1 DEF Waits
  <1>12. \A r : r \in X <=>
            /\ Meets(w.x, A.invariant[w.loc]) /\ Accepts(setup, s, r)
            /\ \/ Stays(A, in) /\ r = w
               \/ ~Foreign(A, in.label) /\ Jumps(A, w, in.label, r)
    <2>1. \A r : r \in RunsAfter(A, {Run(p)}, in) <=>
               \E m \in {Run(p)} : \E x : /\ Waits(A, m, in, x)
                                   /\ \/ Stays(A, in) /\ r = x
                                      \/ ~Foreign(A, in.label) /\ Jumps(A, x, in.label, r)
      BY RunsAfterIs
    <2> HIDE DEF w, A, q, u, U
    <2>2. \A r : r \in RunsAfter(A, {Run(p)}, in) <=>
               /\ Meets(w.x, A.invariant[w.loc])
               /\ \/ Stays(A, in) /\ r = w
                  \/ ~Foreign(A, in.label) /\ Jumps(A, w, in.label, r)
      <3>1. ASSUME NEW r, r \in RunsAfter(A, {Run(p)}, in)
            PROVE  /\ Meets(w.x, A.invariant[w.loc])
                   /\ \/ Stays(A, in) /\ r = w
                      \/ ~Foreign(A, in.label) /\ Jumps(A, w, in.label, r)
        <4>1. PICK x : /\ Waits(A, Run(p), in, x)
                       /\ \/ Stays(A, in) /\ r = x
                          \/ ~Foreign(A, in.label) /\ Jumps(A, x, in.label, r)
          BY <2>1, <3>1
        <4> QED
          BY <1>11, <4>1
      <3>2. ASSUME NEW r, Meets(w.x, A.invariant[w.loc]),
                   \/ Stays(A, in) /\ r = w
                   \/ ~Foreign(A, in.label) /\ Jumps(A, w, in.label, r)
            PROVE  r \in RunsAfter(A, {Run(p)}, in)
        <4>1. Waits(A, Run(p), in, w)
          BY <1>11, <3>2
        <4> QED
          BY <2>1, <3>2, <4>1
      <3> QED
        BY <3>1, <3>2
    <2>3. X = {r \in RunsAfter(A, {Run(p)}, in) : Accepts(setup, s, r)}
      BY DEF KeptAfter, A
    <2> HIDE DEF X
    <2> QED
      BY <2>2, <2>3
  <1>13. CASE ~Meets(w.x, A.invariant[w.loc])
    <2>1. X = {}
      BY <1>12, <1>13
    <2>2. new = list
      BY <1>10, <1>13, AdvanceIs
    <2> HIDE DEF X, new
    <2> QED
      BY <2>1, <2>2, AddsNothing DEF X, new
  <1>14. CASE Meets(w.x, A.invariant[w.loc])
    <2>1. new = Handled(s, q, begun, tried)
      BY <1>10, <1>14, AdvanceIs
    <2>2. Adds(M, new, list, Y \cup Z)
      <3> HIDE DEF begun, tried, q, Y, Z, new
      <3> QED
        BY <1>7, <1>8, <2>1, AddsMore
    <2>3. Y = IF Stays(A, in) THEN {r \in {w} : Accepts(setup, s, r)} ELSE {}
      <3> HIDE DEF q
      <3> QED
        BY <1>9 DEF Shown
    <2>4. \A i \in DOMAIN A.edges : \A r :
             r \in Reached(s, w, i) <=>
                /\ r = Moment(A.edges[i].to, Reset(w.x, A.edges[i].reset), w.g)
                /\ Meets(w.x, A.edges[i].guard) /\ Meets(r.x, A.invariant[r.loc])
                /\ Accepts(setup, s, r)
      <3> HIDE DEF w
      <3> QED
        BY DEF Reached
    <2>5. ASSUME NEW r \in X PROVE r \in Y \cup Z
      <3>1. Accepts(setup, s, r)
            /\ \/ Stays(A, in) /\ r = w
               \/ ~Foreign(A, in.label) /\ Jumps(A, w, in.label, r)
        BY <1>12, <2>5
      <3>2. CASE Stays(A, in) /\ r = w
        BY <2>3, <3>1, <3>2
      <3>3. CASE ~Foreign(A, in.label) /\ Jumps(A, w, in.label, r)
        <4>1. PICK i \in DOMAIN A.edges : A.edges[i].label = in.label /\ JumpsBy(A, w, A.edges[i], r)
          BY <3>3 DEF Jumps
        <4>2. i \in Matched(s, q, in)
          <5>1. A.edges[i].from = q.loc
            BY <1>3, <4>1 DEF JumpsBy
          <5> HIDE DEF q
          <5> QED
            BY <3>3, <4>1, <5>1, MatchedIs
        <4>3. Accepts(setup, s, w)
          <5> HIDE DEF w
          <5> QED
            BY <1>3, <1>14, <3>1, <4>1, JumpsOn
        <4>4. i \in tried
          <5> HIDE DEF q, w
          <5> QED
            BY <1>9, <4>2, <4>3 DEF Tried
        <4>5. r \in Reached(s, w, i)
          <5> HIDE DEF w
          <5> QED
            BY <2>4, <3>1, <4>1 DEF JumpsBy
        <4> HIDE DEF w, tried
        <4> QED
          BY <4>4, <4>5
      <3> QED
        BY <3>1, <3>2, <3>3
    <2>6. ASSUME NEW r \in Y \cup Z PROVE r \in X
      <3>1. CASE r \in Y
        <4>1. Stays(A, in) /\ r = w /\ Accepts(setup, s, r)
          BY <2>3, <3>1
        <4> HIDE DEF w, X, Y
        <4> QED
          BY <1>12, <1>14, <4>1
      <3>2. CASE r \in Z
        <4>1. PICK i \in tried : r \in Reached(s, w, i)
          BY <3>2
        <4>2. i \in DOMAIN A.edges /\ ~Foreign(A, in.label)
              /\ A.edges[i].from = q.loc /\ A.edges[i].label = in.label
          <5> HIDE DEF q
          <5> QED
            BY MatchedIs
        <4>3. Accepts(setup, s, r) /\ JumpsBy(A, w, A.edges[i], r)
          <5> HIDE DEF w
          <5> QED
            BY <1>3, <2>4, <4>1, <4>2 DEF JumpsBy, w
        <4>4. Jumps(A, w, in.label, r)
          BY <4>2, <4>3 DEF Jumps
        <4> HIDE DEF w, X
        <4> QED
          BY <1>12, <1>14, <4>2, <4>3, <4>4
      <3> QED
        BY <2>6, <3>1, <3>2
    <2>7. Y \cup Z = X
      <3> HIDE DEF X, Y, Z
      <3> QED
        BY <2>5, <2>6
    <2> QED
      BY <2>2, <2>7
  <1> QED
    BY <1>13, <1>14

(***************************************************************************)
(* The loop over the states.                                               *)
(***************************************************************************)
Handing(g, s, list, in) ==
    g = [S \in SUBSET DOMAIN list |->
            IF S = {} THEN << >>
            ELSE Concrete!advance(s, g[S \ {Concrete!Max(S)}], list[Concrete!Max(S)], in)]

Hands(f, s, list, in) ==
    /\ f[0] = << >>
    /\ \A k \in 1 .. Len(list) : f[k] = Concrete!advance(s, f[k - 1], list[k], in)

LEMMA StatesRun ==
    ASSUME setup \in DOMAIN Setup, NEW s \in Sides, NEW B, EdgesStayIn(B, setup, s),
           NEW in, NEW C, \A p \in C : Concrete!delay(p, in.first) \in B,
           NEW list \in Seq(C), states[s] = list
    PROVE  \E f \in [0 .. Len(list) -> Seq(Kept(s, B))] :
              Hands(f, s, list, in) /\ Concrete!next_states(s, in) = f[Len(list)]
  <1> DEFINE n == Len(list)
             V == Seq(Kept(s, B))
             iter == CHOOSE g : Handing(g, s, list, in)
             step == [z \in V \X (1 .. n) |-> Concrete!advance(s, z[1], list[z[2]], in)]
  <1>1. n \in Nat /\ DOMAIN list = 1 .. n /\ \A k \in 1 .. n : list[k] \in C
    BY LenProperties, ElementOfSeq
  <1>2. Concrete!next_states(s, in) = iter[DOMAIN list]
    BY Zenon DEF Concrete!next_states, Concrete!FoldLeft, Concrete!MapThenFoldSet, Handing
  <1>3. ASSUME NEW y \in V, NEW k \in 1 .. n PROVE Concrete!advance(s, y, list[k], in) \in V
    <2>1. list[k] \in C
      BY <1>1
    <2>2. Concrete!delay(list[k], in.first) \in B
      BY <2>1
    <2> QED
      BY <2>2, AdvanceTyped
  <1>4. \E g \in [SUBSET (1 .. n) -> V] : Handing(g, s, list, in)
    <2> HIDE DEF V, n
    <2>1. step \in [V \X (1 .. n) -> V]
      BY <1>3
    <2>2. \A y \in V : \A x \in 1 .. n : step[<<y, x>>] = Concrete!advance(s, y, list[x], in)
      OBVIOUS
    <2> HIDE DEF step
    <2>3. << >> \in V
      BY DEF V
    <2>4. PICK g : FoldsOver(g, n, V, << >>, step)
      BY <1>1, <2>1, <2>3, FoldIs
    <2>5. ASSUME NEW S \in SUBSET DOMAIN list
          PROVE  g[S] = IF S = {} THEN << >>
                        ELSE Concrete!advance(s, g[S \ {Concrete!Max(S)}], list[Concrete!Max(S)], in)
      BY <1>1, <2>2, <2>4 DEF FoldsOver
    <2>6. g = [S \in SUBSET DOMAIN list |-> g[S]]
      BY <1>1, <2>4 DEF FoldsOver
    <2>7. Handing(g, s, list, in)
      BY <2>5, <2>6, Zenon DEF Handing
    <2> QED
      BY <2>4, <2>7 DEF FoldsOver
  <1> HIDE DEF step
  <1>5. Handing(iter, s, list, in)
    BY <1>4, Zenon
  <1> HIDE DEF iter
  <1> DEFINE f == [k \in 0 .. n |-> iter[1 .. k]]
  <1>6. f[0] = << >>
    <2>1. 1 .. 0 = {} /\ {} \in SUBSET DOMAIN list /\ f[0] = iter[1 .. 0]
      BY <1>1
    <2> HIDE DEF f
    <2> QED
      BY <1>5, <2>1, Zenon DEF Handing
  <1>7. ASSUME NEW k \in 1 .. n
        PROVE  f[k] = Concrete!advance(s, f[k - 1], list[k], in)
    <2>1. f[k] = iter[1 .. k] /\ f[k - 1] = iter[1 .. k - 1]
      BY <1>1
    <2>2. 1 .. k \in SUBSET DOMAIN list /\ 1 .. k # {} /\ (1 .. k) \ {k} = 1 .. k - 1
          /\ Concrete!Max(1 .. k) = k
      BY <1>1, UpTo
    <2> HIDE DEF f
    <2>3. iter[1 .. k] = Concrete!advance(s, iter[(1 .. k) \ {Concrete!Max(1 .. k)}],
                                          list[Concrete!Max(1 .. k)], in)
      BY <1>5, <2>2, Zenon DEF Handing
    <2> QED
      BY <2>1, <2>2, <2>3
  <1>8. iter[DOMAIN list] = f[n]
    BY <1>1
  <1>9. f \in [0 .. n -> V]
    <2> DEFINE T == {k \in Nat : k <= n => f[k] \in V}
    <2>1. 0 \in T
      <3>1. << >> \in V
        OBVIOUS
      <3> HIDE DEF f, V
      <3> QED
        BY <1>6, <3>1
    <2>2. ASSUME NEW k \in Nat, k \in T PROVE k + 1 \in T
      <3> SUFFICES ASSUME k + 1 <= n PROVE f[k + 1] \in V
        OBVIOUS
      <3>1. k + 1 \in 1 .. n /\ k + 1 - 1 = k /\ f[k] \in V
        BY <1>1, <2>2
      <3> HIDE DEF f, V
      <3>2. f[k + 1] = Concrete!advance(s, f[k], list[k + 1], in)
        BY <1>7, <3>1
      <3> QED
        BY <1>3, <3>1, <3>2
    <2>3. \A k \in 0 .. n : f[k] \in V
      <3>1. Nat \subseteq T
        <4> HIDE DEF T
        <4> QED
          BY <2>1, <2>2, SetInduction
      <3> HIDE DEF f, V
      <3> QED
        BY <1>1, <3>1
    <2>4. f = [k \in 0 .. n |-> f[k]]
      OBVIOUS
    <2> HIDE DEF f, V
    <2> QED
      BY <2>3, <2>4
  <1> HIDE DEF f
  <1>10. Hands(f, s, list, in)
    BY <1>6, <1>7 DEF Hands
  <1> QED
    BY <1>2, <1>8, <1>9, <1>10

LEMMA KeptAfterUnion ==
    ASSUME NEW s, NEW R, NEW w, NEW in
    PROVE  /\ KeptAfter(s, {}, in) = {}
           /\ KeptAfter(s, R \cup {w}, in) = KeptAfter(s, R, in) \cup KeptAfter(s, {w}, in)
  <1> DEFINE A == Aut(setup, s)
             leads(m, r) == \E x : /\ Waits(A, m, in, x)
                                   /\ \/ Stays(A, in) /\ r = x
                                      \/ ~Foreign(A, in.label) /\ Jumps(A, x, in.label, r)
  <1>1. \A Q : \A r : r \in RunsAfter(A, Q, in) <=> \E m \in Q : leads(m, r)
    BY RunsAfterIs
  <1> HIDE DEF leads
  <1>2. RunsAfter(A, {}, in) = {}
    BY <1>1
  <1>3. RunsAfter(A, R \cup {w}, in) = RunsAfter(A, R, in) \cup RunsAfter(A, {w}, in)
    BY <1>1
  <1> QED
    BY <1>2, <1>3 DEF KeptAfter

LEMMA StatesAdd ==
    ASSUME setup \in DOMAIN Setup, NEW s \in Sides, Concrete!ClocksFit,
           NEW in \in Setup[setup].inputs, in.first = in.second,
           NEW t \in 0 .. in.first, states[s] \in Seq(Kept(s, Unwrapped(setup, s, t))), NEW M
    PROVE  /\ Concrete!next_states(s, in) \in Seq(Kept(s, Unwrapped(setup, s, in.first)))
           /\ Adds(M, Concrete!next_states(s, in), << >>, KeptAfter(s, Told(states[s]), in))
  <1> DEFINE C == Kept(s, Unwrapped(setup, s, t))
             U == Unwrapped(setup, s, in.first)
             list == states[s]
             n == Len(list)
  <1>1. /\ in.first \in 0 .. Setup[setup].horizon /\ in.first \in Nat
        /\ t \in 0 .. Setup[setup].horizon /\ in.first \in t .. Setup[setup].horizon
    BY Given DEF IsInput
  <1>2. \A p \in C : p \in Unwrapped(setup, s, t) /\ Concrete!delay(p, in.first) \in U
    <2>1. \A p \in C : p \in Unwrapped(setup, s, t)
      BY DEF Kept
    <2> HIDE DEF C
    <2> QED
      BY <1>1, <2>1, DelayedRun
  <1>3. EdgesStayIn(U, setup, s)
    BY <1>1, UnwrappedJumps
  <1>4. n \in Nat /\ DOMAIN list = 1 .. n /\ \A k \in 1 .. n : list[k] \in C
    BY LenProperties, ElementOfSeq
  <1>5. PICK f \in [0 .. n -> Seq(Kept(s, U))] :
           Hands(f, s, list, in) /\ Concrete!next_states(s, in) = f[n]
    <2>1. list \in Seq(C)
      OBVIOUS
    <2> HIDE DEF C, U
    <2> QED
      BY <1>2, <1>3, <2>1, StatesRun
  <1> DEFINE upto(k) == KeptAfter(s, {Run(list[i]) : i \in 1 .. k}, in)
             T == {k \in Nat : k <= n => Adds(M, f[k], << >>, upto(k))}
  <1>6. 0 \in T
    <2>1. f[0] = << >> /\ {Run(list[i]) : i \in 1 .. 0} = {}
      BY <1>5 DEF Hands
    <2>2. upto(0) = {}
      BY <2>1, KeptAfterUnion
    <2> HIDE DEF upto
    <2> QED
      BY <2>1, <2>2, AddsNothing
  <1>7. ASSUME NEW k \in Nat, k \in T PROVE k + 1 \in T
    <2> SUFFICES ASSUME k + 1 <= n PROVE Adds(M, f[k + 1], << >>, upto(k + 1))
      OBVIOUS
    <2>1. k + 1 \in 1 .. n /\ k + 1 - 1 = k /\ k \in 0 .. n /\ Adds(M, f[k], << >>, upto(k))
      BY <1>4, <1>7
    <2>2. f[k + 1] = Concrete!advance(s, f[k], list[k + 1], in)
      BY <1>5, <2>1 DEF Hands
    <2>3. {Run(list[i]) : i \in 1 .. k + 1} = {Run(list[i]) : i \in 1 .. k} \cup {Run(list[k + 1])}
      <3>1. 1 .. k + 1 = (1 .. k) \cup {k + 1}
        OBVIOUS
      <3> QED
        BY <3>1
    <2>4. upto(k + 1) = upto(k) \cup KeptAfter(s, {Run(list[k + 1])}, in)
      <3> DEFINE R == {Run(list[i]) : i \in 1 .. k}
      <3>1. upto(k + 1) = KeptAfter(s, R \cup {Run(list[k + 1])}, in)
        BY <2>3
      <3>2. upto(k) = KeptAfter(s, R, in)
        OBVIOUS
      <3> HIDE DEF upto, R
      <3> QED
        BY <3>1, <3>2, KeptAfterUnion
    <2>5. list[k + 1] \in Unwrapped(setup, s, t) /\ f[k] \in Seq(Kept(s, Unwrapped(setup, s, in.first)))
      BY <1>2, <1>4, <1>5, <2>1
    <2>6. Adds(M, Concrete!advance(s, f[k], list[k + 1], in), f[k], KeptAfter(s, {Run(list[k + 1])}, in))
      <3> HIDE DEF list, n
      <3> QED
        BY <2>5, AdvanceAdds
    <2> HIDE DEF upto
    <2> QED
      BY <2>1, <2>2, <2>4, <2>6, AddsMore
  <1>8. n \in T
    <2> HIDE DEF T
    <2> QED
      BY <1>4, <1>6, <1>7, SetInduction
  <1>9. upto(n) = KeptAfter(s, Told(list), in)
    BY <1>4 DEF Told
  <1>10. Adds(M, f[n], << >>, upto(n))
    <2> HIDE DEF upto
    <2>1. n <= n => Adds(M, f[n], << >>, upto(n))
      BY <1>8
    <2> HIDE DEF n
    <2> QED
      BY <1>4, <2>1
  <1>11. f[n] \in Seq(Kept(s, U))
    BY <1>4, <1>5
  <1> HIDE DEF upto, T, n
  <1> QED
    BY <1>5, <1>9, <1>10, <1>11

-----------------------------------------------------------------------------
(***************************************************************************)
(* What holds of the lists: whatever was observed they have states that    *)
(* are kept; and of a timed word either they are empty, or they have the   *)
(* time of the last observation and tell of runs.                          *)
(***************************************************************************)
Telling(s) ==
    /\ \A r \in runs[s] : r.g = last
    /\ states[s] \in Seq(Kept(s, Unwrapped(setup, s, last)))
    /\ Told(states[s]) \subseteq Alive(s, runs[s])

Truthful == Explained(runs) => Concrete!NothingToDelay \/ \A s \in Sides : Telling(s)

Undecided ==
    /\ verdict \in {"INCONCLUSIVE", "POSITIVE", "NEGATIVE"}
    /\ (\A s \in Sides : states[s] # << >>) => verdict = "INCONCLUSIVE"

ConcreteInv ==
    /\ setup \in DOMAIN Setup /\ last \in 0 .. Setup[setup].horizon /\ Explaining
    /\ \A s \in Sides : states[s] \in Seq(Kept(s, Counted(setup, s)))
    /\ Truthful /\ Undecided

\* Under inclusion they tell of every run that is kept.
Whole == Explained(runs) /\ Inclusion => \A s \in Sides : Alive(s, runs[s]) \subseteq Told(states[s])

LEMMA AliveIs ==
    ASSUME NEW s, NEW R
    PROVE  Alive(s, R) = {r \in R : Accepts(setup, s, r)}
  BY DEF Alive, Accepts, accepting_space, Space

LEMMA FirstState ==
    ASSUME setup \in DOMAIN Setup, NEW s \in Sides, Concrete!ClocksFit
    PROVE  /\ Concrete!initial_states(s) \in Seq(Kept(s, Unwrapped(setup, s, 0)))
           /\ Concrete!initial_states(s) \in Seq(Kept(s, Counted(setup, s)))
           /\ Told(Concrete!initial_states(s)) = Alive(s, FirstRuns(Aut(setup, s)))
           /\ \A r \in FirstRuns(Aut(setup, s)) : r.g = 0
  <1> DEFINE A == Aut(setup, s)
             v == [c \in A.clocks |-> 0]
             p == [loc |-> A.initial, x |-> v, g |-> 0]
             list == Concrete!initial_states(s)
  <1>1. A.initial \in A.locations /\ Setup[setup].horizon \in Nat
        /\ Modulus \in Nat /\ 2 * Setup[setup].horizon < Modulus
    BY Given DEF Concrete!ClocksFit
  <1>2. 0 \in 0 .. Modulus - 1 /\ 0 \in 0 .. 0 /\ 0 \in 0 .. Setup[setup].horizon
    BY <1>1
  <1>3. p \in Unwrapped(setup, s, 0) /\ p \in Counted(setup, s)
    BY <1>1, <1>2 DEF Unwrapped, Counted
  <1>4. list = IF Concrete!in_accepting_space(s, p) THEN <<p>> ELSE << >>
    BY SharedRuns DEF Concrete!initial_states, Concrete!State, automaton, Aut
  <1>5. Run(p) = Moment(A.initial, v, 0)
    <2>1. Run(p).x = [c \in A.clocks |-> Saturate(p.x[c])]
      BY <1>2, <1>3, RunIs
    <2>2. Run(p) \in Moments(setup, s) /\ Run(p).loc = p.loc /\ Run(p).g = 0
      BY <1>2, <1>3, RunTyped
    <2>3. Saturate(0) = 0
      BY CapAssumption DEF Saturate
    <2>4. Run(p).x = v
      BY <2>1, <2>3
    <2>5. Run(p) = [loc |-> Run(p).loc, x |-> Run(p).x, g |-> Run(p).g]
      BY <2>2 DEF Moments
    <2>6. p.loc = A.initial
      OBVIOUS
    <2> HIDE DEF p, v
    <2> QED
      BY <2>2, <2>4, <2>5, <2>6 DEF Moment
  <1>6. FirstRuns(A) = {Run(p)}
    BY <1>5 DEF FirstRuns
  <1>7. Concrete!in_accepting_space(s, p) <=> Accepts(setup, s, Run(p))
    BY <1>2, <1>3, KeptIs
  <1>8. Run(p).g = 0
    BY <1>5 DEF Moment
  <1>9. Told(<<p>>) = {Run(p)} /\ Told(<< >>) = {}
    <2>1. DOMAIN <<p>> = {1} /\ <<p>>[1] = p /\ DOMAIN << >> = {}
      OBVIOUS
    <2> HIDE DEF p
    <2> QED
      BY <2>1 DEF Told
  <1> HIDE DEF p, v, A
  <1>10. CASE Concrete!in_accepting_space(s, p)
    <2>1. p \in Kept(s, Unwrapped(setup, s, 0)) /\ p \in Kept(s, Counted(setup, s))
      BY <1>3, <1>10 DEF Kept
    <2>2. <<p>> \in Seq(Kept(s, Unwrapped(setup, s, 0))) /\ <<p>> \in Seq(Kept(s, Counted(setup, s)))
      BY <2>1
    <2>3. Alive(s, FirstRuns(A)) = {Run(p)}
      BY <1>6, <1>7, <1>10, AliveIs
    <2> QED
      BY <1>4, <1>6, <1>8, <1>9, <1>10, <2>2, <2>3 DEF A
  <1>11. CASE ~Concrete!in_accepting_space(s, p)
    <2>1. Alive(s, FirstRuns(A)) = {}
      BY <1>6, <1>7, <1>11, AliveIs
    <2>2. \A S : << >> \in Seq(S)
      OBVIOUS
    <2> QED
      BY <1>4, <1>6, <1>8, <1>9, <1>11, <2>1, <2>2 DEF A
  <1> QED
    BY <1>10, <1>11

LEMMA DelayCounted ==
    ASSUME NEW n \in DOMAIN Setup, NEW s \in Sides, Concrete!ClocksFit,
           NEW u \in Nat, NEW p \in Counted(n, s)
    PROVE  Concrete!delay(p, u) \in Counted(n, s)
  <1> DEFINE A == Aut(n, s)
             d == (u - p.g) % Modulus
             y == [c \in DOMAIN p.x |-> (p.x[c] + d) % Modulus]
             g == (p.g + d) % Modulus
  <1>1. Modulus \in Nat /\ Modulus > 0
    <2>1. Setup[n].horizon \in Nat /\ Modulus \in Nat /\ 2 * Setup[n].horizon < Modulus
      BY Given DEF Concrete!ClocksFit
    <2> QED
      BY <2>1
  <1>2. p.loc \in A.locations /\ p.x \in [A.clocks -> 0 .. Modulus - 1] /\ p.g \in 0 .. Modulus - 1
    BY DEF Counted
  <1>3. \A k \in Int : k % Modulus \in 0 .. Modulus - 1
    BY <1>1
  <1>4. d \in 0 .. Modulus - 1
    BY <1>1, <1>2, <1>3
  <1> HIDE DEF d
  <1>5. y \in [A.clocks -> 0 .. Modulus - 1]
    <2>1. \A c \in A.clocks : p.x[c] + d \in Int
      BY <1>1, <1>2, <1>4
    <2>2. \A c \in A.clocks : (p.x[c] + d) % Modulus \in 0 .. Modulus - 1
      BY <1>3, <2>1
    <2> QED
      BY <1>2, <2>2
  <1>6. g \in 0 .. Modulus - 1
    BY <1>1, <1>2, <1>3, <1>4
  <1>7. Concrete!delay(p, u) = [loc |-> p.loc, x |-> y, g |-> g]
    BY Zenon DEF Concrete!delay, Concrete!State, d
  <1> HIDE DEF y, g
  <1> QED
    BY <1>2, <1>5, <1>6, <1>7 DEF Counted

LEMMA NextCounted ==
    ASSUME setup \in DOMAIN Setup, NEW s \in Sides, Concrete!ClocksFit,
           NEW in \in Setup[setup].inputs, states[s] \in Seq(Kept(s, Counted(setup, s)))
    PROVE  /\ Concrete!next_states(s, in) \in Seq(Kept(s, Counted(setup, s)))
           /\ states[s] = << >> => Concrete!next_states(s, in) = << >>
  <1> DEFINE B == Counted(setup, s)
             list == states[s]
  <1>1. in.first \in Nat
    BY Given DEF IsInput
  <1>2. \A p \in Kept(s, B) : Concrete!delay(p, in.first) \in B
    BY <1>1, DelayCounted DEF Kept
  <1>3. EdgesStayIn(B, setup, s)
    BY CountedJumps
  <1>4. PICK f \in [0 .. Len(list) -> Seq(Kept(s, B))] :
           Hands(f, s, list, in) /\ Concrete!next_states(s, in) = f[Len(list)]
    <2>1. list \in Seq(Kept(s, B))
      OBVIOUS
    <2> HIDE DEF B
    <2> QED
      BY <1>2, <1>3, <2>1, StatesRun
  <1>5. Len(list) \in Nat
    BY LenProperties
  <1>6. list = << >> => Len(list) = 0
    OBVIOUS
  <1> HIDE DEF list, B
  <1>7. f[Len(list)] \in Seq(Kept(s, B))
    BY <1>4, <1>5
  <1> QED
    BY <1>4, <1>6, <1>7 DEF Hands, list, B

LEMMA ConcreteInit ==
    ASSUME Concrete!Init, Concrete!ClocksFit
    PROVE  ConcreteInv /\ Whole
  <1>1. /\ setup \in DOMAIN Setup /\ last = 0
        /\ states = [s \in Sides |-> Concrete!initial_states(s)]
        /\ runs = [s \in Sides |-> FirstRuns(Aut(setup, s))]
        /\ verdict = IF Concrete!initial_states("pos") = << >> THEN "NEGATIVE"
                     ELSE IF Concrete!initial_states("neg") = << >> THEN "POSITIVE"
                     ELSE "INCONCLUSIVE"
    BY SharedRuns DEF Concrete!Init, automaton, Aut
  <1>2. ASSUME NEW s \in Sides
        PROVE  /\ states[s] = Concrete!initial_states(s) /\ runs[s] = FirstRuns(Aut(setup, s))
               /\ Genuine(setup, s, runs[s])
               /\ states[s] \in Seq(Kept(s, Unwrapped(setup, s, last)))
               /\ states[s] \in Seq(Kept(s, Counted(setup, s)))
               /\ Told(states[s]) = Alive(s, runs[s]) /\ \A r \in runs[s] : r.g = last
    <2>1. states[s] = Concrete!initial_states(s) /\ runs[s] = FirstRuns(Aut(setup, s))
      BY <1>1
    <2>2. Genuine(setup, s, FirstRuns(Aut(setup, s)))
      BY <1>1, FirstTracked
    <2> QED
      BY <1>1, <2>1, <2>2, FirstState
  <1>3. \A s \in Sides : Telling(s)
    BY <1>2 DEF Telling
  <1>4. Explaining /\ Whole /\ Truthful
    BY <1>2, <1>3 DEF Explaining, Whole, Truthful
  <1>5. Undecided
    BY <1>1, <1>2 DEF Undecided, Sides
  <1>6. last \in 0 .. Setup[setup].horizon
    <2>1. \A s \in Sides : Setup[setup].horizon \in Nat
      BY <1>1, Given
    <2> QED
      BY <1>1, <2>1 DEF Sides
  <1> QED
    BY <1>1, <1>2, <1>4, <1>5, <1>6 DEF ConcreteInv

LEMMA InputIs ==
    ASSUME NEW in, Concrete!Input(in)
    PROVE  /\ in.first = in.second \/ Concrete!NothingToDelay
           /\ runs' = [s \in Sides |-> RunsAfter(Aut(setup, s), runs[s], in)]
           /\ states' = [s \in Sides |-> Concrete!next_states(s, in)] /\ last' = in.first
           /\ verdict' = IF states'["neg"] = << >> THEN "POSITIVE"
                         ELSE IF states'["pos"] = << >> THEN "NEGATIVE"
                         ELSE verdict
  <1>1. Concrete!Sides = Sides /\ \A s : Concrete!automaton[s] = Aut(setup, s)
    BY SharedRuns DEF automaton, Aut
  <1>2. states' = [s \in Sides |-> Concrete!next_states(s, in)] /\ last' = in.first
        /\ (in.first = in.second \/ Concrete!NothingToDelay)
    BY <1>1 DEF Concrete!Input, Concrete!IsPoint
  <1>3. runs' = [s \in Sides |-> RunsAfter(Aut(setup, s), runs[s], in)]
    <2>1. runs' = [s \in Concrete!Sides |-> Concrete!RunsAfter(Concrete!automaton[s], runs[s], in)]
      BY Zenon DEF Concrete!Input
    <2> QED
      BY <1>1, <2>1, SharedSteps
  <1>4. verdict' = IF Concrete!next_states("neg", in) = << >> THEN "POSITIVE"
                   ELSE IF Concrete!next_states("pos", in) = << >> THEN "NEGATIVE"
                   ELSE verdict
    BY Zenon DEF Concrete!Input
  <1>5. states'["neg"] = Concrete!next_states("neg", in) /\ states'["pos"] = Concrete!next_states("pos", in)
    BY <1>2 DEF Sides
  <1> QED
    BY <1>2, <1>3, <1>4, <1>5

\* After an observation at a point all runs are there.
LEMMA RunsAt ==
    ASSUME NEW A, NEW R, NEW in, in.first = in.second, in.first \in Nat,
           NEW r \in RunsAfter(A, R, in)
    PROVE  r.g = in.first /\ \E m \in R : m.g <= in.first
  <1>1. PICK m \in R : \E w : /\ Waits(A, m, in, w)
                              /\ \/ Stays(A, in) /\ r = w
                                 \/ ~Foreign(A, in.label) /\ Jumps(A, w, in.label, r)
    BY RunsAfterIs
  <1>2. PICK w : /\ Waits(A, m, in, w)
                 /\ \/ Stays(A, in) /\ r = w
                    \/ ~Foreign(A, in.label) /\ Jumps(A, w, in.label, r)
    BY <1>1
  <1>3. in.first .. in.second = {in.first}
    OBVIOUS
  <1>4. m.g <= in.first /\ w.g = in.first
    BY <1>2, <1>3 DEF Waits, Moment
  <1>5. r.g = w.g
    <2>1. CASE Jumps(A, w, in.label, r)
      BY <2>1 DEF Jumps, JumpsBy, Moment
    <2> QED
      BY <1>2, <2>1
  <1> QED
    BY <1>4, <1>5

LEMMA AliveAfter ==
    ASSUME setup \in DOMAIN Setup, NEW s \in Sides, NEW in \in Setup[setup].inputs,
           NEW R, Genuine(setup, s, R)
    PROVE  Alive(s, RunsAfter(Aut(setup, s), R, in)) = KeptAfter(s, Alive(s, R), in)
  <1> DEFINE A == Aut(setup, s)
  <1>1. \A Q : Alive(s, Q) = {r \in Q : Accepts(setup, s, r)}
    BY AliveIs
  <1>2. ASSUME NEW r \in RunsAfter(A, R, in), Accepts(setup, s, r)
        PROVE  r \in KeptAfter(s, Alive(s, R), in)
    <2>1. PICK m \in R : Accepts(setup, s, m) /\ r \in RunsAfter(A, {m}, in)
      BY <1>2, AcceptedBefore
    <2>2. m \in Alive(s, R)
      BY <1>1, <2>1
    <2>3. r \in RunsAfter(A, Alive(s, R), in)
      BY <2>1, <2>2, RunsAfterIs
    <2> QED
      BY <1>2, <2>3 DEF KeptAfter
  <1>3. ASSUME NEW r \in KeptAfter(s, Alive(s, R), in)
        PROVE  r \in RunsAfter(A, R, in) /\ Accepts(setup, s, r)
    <2>1. r \in RunsAfter(A, Alive(s, R), in) /\ Accepts(setup, s, r)
      BY DEF KeptAfter
    <2>2. Alive(s, R) \subseteq R
      BY <1>1
    <2> QED
      BY <2>1, <2>2, RunsAfterIs
  <1> QED
    BY <1>1, <1>2, <1>3

LEMMA KeptAfterMore ==
    ASSUME NEW s, NEW in, NEW R, NEW Q, R \subseteq Q
    PROVE  KeptAfter(s, R, in) \subseteq KeptAfter(s, Q, in)
  <1> DEFINE A == Aut(setup, s)
  <1>1. RunsAfter(A, R, in) \subseteq RunsAfter(A, Q, in)
    BY RunsAfterIs
  <1> QED
    BY <1>1 DEF KeptAfter

\* What an observation of a timed word at a point does to one list.
LEMMA TellingStays ==
    ASSUME setup \in DOMAIN Setup, NEW s \in Sides, Concrete!ClocksFit,
           last \in 0 .. Setup[setup].horizon, Genuine(setup, s, runs[s]), Telling(s),
           NEW in \in Setup[setup].inputs, in.first = in.second, last <= in.first,
           NEW R, R = RunsAfter(Aut(setup, s), runs[s], in),
           NEW new, new = Concrete!next_states(s, in)
    PROVE  /\ \A r \in R : r.g = in.first
           /\ new \in Seq(Kept(s, Unwrapped(setup, s, in.first)))
           /\ Told(new) \subseteq Alive(s, R)
           /\ /\ Inclusion /\ Concrete!TellsApart(Alive(s, R))
              /\ Alive(s, runs[s]) \subseteq Told(states[s])
              => Alive(s, R) \subseteq Told(new)
  <1>1. in.first \in Nat /\ last \in 0 .. in.first
    <2>1. IsInput(in, Setup[setup].horizon) /\ Setup[setup].horizon \in Nat
      BY Given
    <2> QED
      BY <2>1 DEF IsInput
  <1>2. states[s] \in Seq(Kept(s, Unwrapped(setup, s, last)))
        /\ Told(states[s]) \subseteq Alive(s, runs[s])
    BY DEF Telling
  <1>3. /\ new \in Seq(Kept(s, Unwrapped(setup, s, in.first)))
        /\ Adds(Alive(s, R), new, << >>, KeptAfter(s, Told(states[s]), in))
    BY <1>1, <1>2, StatesAdd
  <1>4. Alive(s, R) = KeptAfter(s, Alive(s, runs[s]), in)
    BY AliveAfter
  <1>5. KeptAfter(s, Told(states[s]), in) \subseteq Alive(s, R)
    BY <1>2, <1>4, KeptAfterMore
  <1>6. Told(<< >>) = {}
    BY DEF Told
  <1>7. Told(new) \subseteq Alive(s, R)
    BY <1>3, <1>5, <1>6 DEF Adds
  <1>8. ASSUME Inclusion, Concrete!TellsApart(Alive(s, R)), Alive(s, runs[s]) \subseteq Told(states[s])
        PROVE  Alive(s, R) \subseteq Told(new)
    <2>1. Alive(s, R) \subseteq KeptAfter(s, Told(states[s]), in)
      BY <1>4, <1>8, KeptAfterMore
    <2> QED
      BY <1>3, <1>5, <1>6, <1>8, <2>1 DEF Adds
  <1>9. \A r \in R : r.g = in.first
    BY <1>1, RunsAt
  <1> QED
    BY <1>3, <1>7, <1>8, <1>9

LEMMA ConcreteInput ==
    ASSUME ConcreteInv, Concrete!ClocksFit, NEW in \in Setup[setup].inputs,
           Concrete!Input(in), UNCHANGED setup
    PROVE  ConcreteInv' /\ (Whole /\ Concrete!ToldApart' => Whole')
  <1>1. /\ setup \in DOMAIN Setup /\ last \in 0 .. Setup[setup].horizon /\ Explaining
        /\ \A s \in Sides : states[s] \in Seq(Kept(s, Counted(setup, s)))
        /\ Truthful /\ Undecided
    BY DEF ConcreteInv
  <1>2. /\ in.first = in.second \/ Concrete!NothingToDelay
        /\ runs' = [s \in Sides |-> RunsAfter(Aut(setup, s), runs[s], in)]
        /\ states' = [s \in Sides |-> Concrete!next_states(s, in)] /\ last' = in.first
        /\ verdict' = IF states'["neg"] = << >> THEN "POSITIVE"
                      ELSE IF states'["pos"] = << >> THEN "NEGATIVE"
                      ELSE verdict
    BY InputIs
  <1>3. \A s \in Sides : states'[s] = Concrete!next_states(s, in)
                         /\ runs'[s] = RunsAfter(Aut(setup, s), runs[s], in)
    BY <1>2
  <1>4. in.first \in 0 .. Setup[setup].horizon
    <2>1. \A s \in Sides : IsInput(in, Setup[setup].horizon)
      BY <1>1, Given
    <2> QED
      BY <2>1 DEF Sides, IsInput
  <1>5. \A s \in Sides : Genuine(setup, s, runs[s])
    BY <1>1 DEF Explaining
  <1>6. Explaining'
    <2>1. \A s \in Sides : Genuine(setup, s, runs'[s])
      BY <1>1, <1>3, <1>5, AfterGenuine
    <2> QED
      BY <2>1 DEF Explaining
  <1>7. \A s \in Sides : /\ states'[s] \in Seq(Kept(s, Counted(setup, s)))
                         /\ states[s] = << >> => states'[s] = << >>
    BY <1>1, <1>3, NextCounted
  <1>8. (\A s \in Sides : states[s] \in Seq(Kept(s, Counted(setup, s))))'
    <2>1. \A s : (Kept(s, Counted(setup, s)))' = Kept(s, Counted(setup, s))
      BY DEF Kept, Counted, Concrete!in_accepting_space, Concrete!accepting_space
    <2> QED
      BY <1>7, <2>1
  <1>9. Undecided'
    BY <1>1, <1>2, <1>7 DEF Undecided, Sides
  <1>10. CASE ~Explained(runs)'
    BY <1>1, <1>2, <1>4, <1>6, <1>8, <1>9, <1>10 DEF ConcreteInv, Truthful, Whole
  <1>11. CASE Explained(runs)'
    <2>1. PICK s1 \in Sides : runs'[s1] # {}
      BY <1>11 DEF Explained
    <2>2. PICK r1 : r1 \in RunsAfter(Aut(setup, s1), runs[s1], in)
      BY <1>3, <2>1
    <2>3. Explained(runs)
      BY <2>2, RunsAfterIs DEF Explained
    <2>4. CASE Concrete!NothingToDelay
      <3>1. \A s \in Sides : states[s] = << >> /\ states'[s] = << >>
        BY <1>7, <2>4, SharedRuns DEF Concrete!NothingToDelay
      <3>2. Concrete!NothingToDelay'
        BY <3>1, SharedRuns DEF Concrete!NothingToDelay
      <3>3. ASSUME Whole, Inclusion, NEW s \in Sides PROVE Alive(s, runs'[s]) = {}
        <4>1. Told(states[s]) = {}
          BY <3>1 DEF Told
        <4>2. Alive(s, runs[s]) = {}
          BY <2>3, <3>3, <4>1 DEF Whole
        <4>3. Alive(s, runs'[s]) = KeptAfter(s, {}, in)
          BY <1>1, <1>3, <1>5, <4>2, AliveAfter
        <4> QED
          BY <4>3, KeptAfterUnion
      <3>4. Whole => Whole'
        BY <3>3 DEF Whole, Inclusion, Alive, accepting_space
      <3> QED
        BY <1>1, <1>2, <1>4, <1>6, <1>8, <1>9, <3>2, <3>4 DEF ConcreteInv, Truthful
    <2>5. CASE ~Concrete!NothingToDelay
      <3>1. in.first = in.second /\ \A s \in Sides : Telling(s)
        BY <1>1, <1>2, <2>3, <2>5 DEF Truthful
      <3>2. last <= in.first
        <4>1. PICK m \in runs[s1] : m.g <= in.first
          BY <1>4, <2>2, <3>1, RunsAt
        <4> QED
          BY <3>1, <4>1 DEF Telling
      <3>3. ASSUME NEW s \in Sides
            PROVE  /\ \A r \in runs'[s] : r.g = in.first
                   /\ states'[s] \in Seq(Kept(s, Unwrapped(setup, s, in.first)))
                   /\ Told(states'[s]) \subseteq Alive(s, runs'[s])
                   /\ /\ Inclusion /\ Concrete!TellsApart(Alive(s, runs'[s]))
                      /\ Alive(s, runs[s]) \subseteq Told(states[s])
                      => Alive(s, runs'[s]) \subseteq Told(states'[s])
        BY <1>1, <1>3, <1>5, <3>1, <3>2, <3>3, TellingStays
      <3>4. \A s \in Sides : Telling(s)'
        <4>1. \A s : (Kept(s, Unwrapped(setup, s, last)))' = Kept(s, Unwrapped(setup, s, in.first))
          BY <1>2 DEF Kept, Unwrapped, Concrete!in_accepting_space, Concrete!accepting_space
        <4>2. \A s \in Sides : (Alive(s, runs[s]))' = Alive(s, runs'[s])
          BY DEF Alive, accepting_space
        <4> QED
          BY <1>2, <3>3, <4>1, <4>2 DEF Telling
      <3>5. Truthful'
        BY <3>4 DEF Truthful
      <3>6. ASSUME Whole, Concrete!ToldApart', Inclusion
            PROVE  \A s \in Sides : Alive(s, runs'[s]) \subseteq Told(states'[s])
        <4>1. \A s \in Sides : Concrete!TellsApart(Alive(s, runs'[s]))
          BY <3>6, SharedRuns DEF Concrete!ToldApart, Inclusion, Concrete!Inclusion, Concrete!Alive, Alive, Concrete!accepting_space, accepting_space, Concrete!Points, Points
        <4> QED
          BY <2>3, <3>3, <3>6, <4>1 DEF Whole
      <3>7. Whole /\ Concrete!ToldApart' => Whole'
        BY <3>6 DEF Whole, Inclusion, Alive, accepting_space
      <3> QED
        BY <1>1, <1>2, <1>4, <1>6, <1>8, <1>9, <3>5, <3>7 DEF ConcreteInv
    <2> QED
      BY <2>4, <2>5
  <1> QED
    BY <1>10, <1>11

LEMMA ConcreteStutters ==
    ASSUME ConcreteInv, UNCHANGED <<setup, states, verdict, runs, last>>
    PROVE  ConcreteInv' /\ (Whole => Whole')
  <1>1. \A s : \A R : (Alive(s, R))' = Alive(s, R')
    BY DEF Alive, accepting_space
  <1>2. /\ \A s : (Kept(s, Counted(setup, s)))' = Kept(s, Counted(setup, s))
        /\ \A s : (Kept(s, Unwrapped(setup, s, last)))' = Kept(s, Unwrapped(setup, s, last))
    BY DEF Kept, Counted, Unwrapped, Concrete!in_accepting_space, Concrete!accepting_space
  <1>3. Explaining'
    BY DEF ConcreteInv, Explaining
  <1>4. Truthful'
    <2>1. Truthful
      BY DEF ConcreteInv
    <2> QED
      BY <1>1, <1>2, <2>1 DEF Truthful, Telling, Concrete!NothingToDelay, Concrete!Sides, Sides
  <1>5. Undecided'
    BY DEF ConcreteInv, Undecided
  <1>6. Whole => Whole'
    BY <1>1 DEF Whole, Inclusion
  <1> QED
    BY <1>2, <1>3, <1>4, <1>5, <1>6 DEF ConcreteInv

LEMMA ConcreteNext ==
    ASSUME ConcreteInv, Concrete!ClocksFit, [Concrete!Next]_(Concrete!vars)
    PROVE  ConcreteInv' /\ (Whole /\ Concrete!ToldApart' => Whole')
  <1>1. CASE \E in \in Concrete!Inputs : Concrete!Input(in) /\ UNCHANGED setup
    <2>1. PICK in \in Setup[setup].inputs : Concrete!Input(in) /\ UNCHANGED setup
      BY <1>1, SharedRuns DEF Inputs
    <2> QED
      BY <2>1, ConcreteInput
  <1>2. CASE \E in \in Concrete!Inputs : Concrete!Refuse(in) /\ UNCHANGED setup
    <2>1. UNCHANGED <<setup, states, verdict, runs, last>>
      BY <1>2 DEF Concrete!Refuse
    <2> QED
      BY <2>1, ConcreteStutters
  <1>3. CASE UNCHANGED Concrete!vars
    <2>1. UNCHANGED <<setup, states, verdict, runs, last>>
      BY <1>3 DEF Concrete!vars
    <2> QED
      BY <2>1, ConcreteStutters
  <1> QED
    BY <1>1, <1>2, <1>3 DEF Concrete!Next

LEMMA ConcreteInvariance ==
    ASSUME Concrete!ClocksFit
    PROVE  Concrete!Spec => []ConcreteInv
  <1>1. Concrete!Init => ConcreteInv
    BY ConcreteInit
  <1>2. ConcreteInv /\ [Concrete!Next]_(Concrete!vars) => ConcreteInv'
    BY ConcreteNext
  <1> QED
    BY <1>1, <1>2, PTL DEF Concrete!Spec

LEMMA ConcreteWhole ==
    ASSUME Concrete!ClocksFit
    PROVE  Concrete!Spec /\ []Concrete!ToldApart => [](ConcreteInv /\ Whole)
  <1>1. Concrete!Init => Whole
    BY ConcreteInit
  <1>2. ConcreteInv /\ Whole /\ Concrete!ToldApart' /\ [Concrete!Next]_(Concrete!vars) => Whole'
    BY ConcreteNext
  <1>3. Concrete!Spec => []ConcreteInv
    BY ConcreteInvariance
  <1> QED
    BY <1>1, <1>2, <1>3, PTL DEF Concrete!Spec

-----------------------------------------------------------------------------
(***************************************************************************)
(* Whatever is observed, in or out of order, no listed clock has wrapped.  *)
(***************************************************************************)
THEOREM WrappedNeverKept ==
    ASSUME Concrete!ClocksFit
    PROVE  Concrete!Spec => []Concrete!NoWrappedClock
  <1>1. ConcreteInv => Concrete!NoWrappedClock
    <2> SUFFICES ASSUME ConcreteInv, NEW s \in Sides, NEW i \in DOMAIN states[s],
                        NEW c \in Aut(setup, s).clocks
                 PROVE  Concrete!Signed(states[s][i].x[c]) >= 0
      BY SharedRuns DEF Concrete!NoWrappedClock, automaton, Aut
    <2> DEFINE C == Kept(s, Counted(setup, s))
               p == states[s][i]
    <2>1. states[s] \in Seq(C)
      BY DEF ConcreteInv
    <2>2. p \in C
      <3> HIDE DEF C
      <3> QED
        BY <2>1, LenProperties, ElementOfSeq
    <2> HIDE DEF p
    <2>3. DOMAIN p.x = Aut(setup, s).clocks /\ Concrete!in_accepting_space(s, p)
      BY <2>2 DEF Kept, Counted
    <2>4. Concrete!Read(p.x)[c] >= 0 /\ Concrete!Read(p.x)[c] = Concrete!Signed(p.x[c])
      BY <2>3 DEF Concrete!in_accepting_space, Concrete!Read
    <2> QED
      BY <2>4 DEF p
  <1> QED
    BY <1>1, ConcreteInvariance, PTL

(***************************************************************************)
(* Of a timed word no list has a state that is no run, with inclusion and  *)
(* without, in any setting.                                                *)
(***************************************************************************)
NoStateInvented ==
    Explained(runs) => \A s \in Sides : Told(states[s]) \subseteq Alive(s, runs[s])

LEMMA ConcreteInvents == ASSUME ConcreteInv PROVE NoStateInvented
  <1> SUFFICES ASSUME Explained(runs), NEW s \in Sides
               PROVE  Told(states[s]) \subseteq Alive(s, runs[s])
    BY DEF NoStateInvented
  <1>1. CASE Concrete!NothingToDelay
    <2>1. states[s] = << >>
      BY <1>1, SharedRuns DEF Concrete!NothingToDelay
    <2> QED
      BY <2>1 DEF Told
  <1>2. CASE ~Concrete!NothingToDelay
    BY <1>2 DEF ConcreteInv, Truthful, Telling
  <1> QED
    BY <1>1, <1>2

\* Every state of a list is a run that the accepting space keeps.
THEOREM InventsNoState ==
    ASSUME Concrete!ClocksFit
    PROVE  Concrete!Spec => []NoStateInvented
  BY ConcreteInvariance, ConcreteInvents, PTL

(***************************************************************************)
(* And under inclusion it is exactly the runs that are listed, as long as  *)
(* relation tells their states apart: EstimateIsExact.                     *)
(***************************************************************************)
LEMMA ConcreteExact ==
    ASSUME ConcreteInv, Whole
    PROVE  Concrete!EstimateIsExact
  <1> SUFFICES ASSUME Explained(runs), Inclusion, NEW s \in Sides
               PROVE  Told(states[s]) = Alive(s, runs[s])
    BY SharedRuns DEF Concrete!EstimateIsExact, Told, Run
  <1>1. Told(states[s]) \subseteq Alive(s, runs[s])
    BY ConcreteInvents DEF NoStateInvented
  <1>2. Alive(s, runs[s]) \subseteq Told(states[s])
    BY DEF Whole
  <1> QED
    BY <1>1, <1>2

\* Nothing that was skipped, replaced or refused on the way is missing.
THEOREM ListsAreTheRuns ==
    ASSUME Concrete!ClocksFit
    PROVE  Concrete!Spec /\ []Concrete!ToldApart => []Concrete!EstimateIsExact
  BY ConcreteWhole, ConcreteExact, PTL

(***************************************************************************)
(* Then a list is empty exactly when no run is kept, and the verdict is    *)
(* the promised one: to whoever sees it a refusal is no step.              *)
(***************************************************************************)
LEMMA EmptyList ==
    ASSUME NEW B, NEW list \in Seq(B)
    PROVE  list = << >> <=> Told(list) = {}
  <1>1. list = << >> <=> DOMAIN list = {}
    OBVIOUS
  <1> QED
    BY <1>1 DEF Told

EmptyIffDead == \A s \in Sides : states[s] = << >> <=> Alive(s, runs[s]) = {}

LEMMA ConcreteOut ==
    ASSUME ConcreteInv, Whole, Inclusion, Explained(runs)
    PROVE  EmptyIffDead
  <1> SUFFICES ASSUME NEW s \in Sides PROVE states[s] = << >> <=> Alive(s, runs[s]) = {}
    BY DEF EmptyIffDead
  <1>1. Told(states[s]) = Alive(s, runs[s])
    BY ConcreteInvents DEF NoStateInvented, Whole
  <1>2. states[s] \in Seq(Kept(s, Counted(setup, s)))
    BY DEF ConcreteInv
  <1> QED
    BY <1>1, <1>2, EmptyList

LEMMA SameJudge ==
    ASSUME NEW R
    PROVE  Concrete!Promise!Judge(R) = IF Alive("neg", R["neg"]) = {} THEN "POSITIVE"
                                       ELSE IF Alive("pos", R["pos"]) = {} THEN "NEGATIVE"
                                       ELSE "INCONCLUSIVE"
  BY DEF Concrete!Promise!Judge, Concrete!Promise!Alive, Alive, Concrete!Promise!accepting_space,
         accepting_space, Concrete!Promise!Points, Points

LEMMA SamePromise ==
    ASSUME NEW A, NEW R, NEW in
    PROVE  /\ Concrete!Promise!RunsAfter(A, R, in) = RunsAfter(A, R, in)
           /\ Concrete!Promise!FirstRuns(A) = FirstRuns(A)
           /\ Concrete!Promise!Explained(R) <=> Explained(R)
  BY DEF Concrete!Promise!RunsAfter, RunsAfter, Concrete!Promise!Foreign, Foreign,
         Concrete!Promise!labels, labels, Concrete!Promise!Edges, Edges,
         Concrete!Promise!Waited, Waited, Concrete!Promise!Jumped, Jumped,
         Concrete!Promise!Moment, Moment, Concrete!Promise!Elapse, Elapse,
         Concrete!Promise!Saturate, Saturate, Concrete!Promise!Reset, Reset,
         Concrete!Promise!Meets, Meets, Concrete!Promise!Satisfies, Satisfies,
         Concrete!Promise!FirstRuns, FirstRuns, Concrete!Promise!Explained, Explained,
         Concrete!Promise!Sides, Sides

\* One of the two lists has a state when the monitor is made.
LEMMA OneBegins ==
    ASSUME Concrete!Init, Concrete!ClocksFit
    PROVE  verdict = Concrete!Promise!Judge(runs)
  <1>1. /\ setup \in DOMAIN Setup
        /\ runs = [s \in Sides |-> FirstRuns(Aut(setup, s))]
        /\ verdict = IF Concrete!initial_states("pos") = << >> THEN "NEGATIVE"
                     ELSE IF Concrete!initial_states("neg") = << >> THEN "POSITIVE"
                     ELSE "INCONCLUSIVE"
    BY SharedRuns DEF Concrete!Init, automaton, Aut
  <1>2. ASSUME NEW s \in Sides
        PROVE  /\ Concrete!initial_states(s) = << >> <=> Alive(s, runs[s]) = {}
               /\ runs[s] = FirstRuns(Aut(setup, s))
    <2>1. Told(Concrete!initial_states(s)) = Alive(s, FirstRuns(Aut(setup, s)))
          /\ Concrete!initial_states(s) \in Seq(Kept(s, Counted(setup, s)))
      BY <1>1, FirstState
    <2>2. runs[s] = FirstRuns(Aut(setup, s))
      BY <1>1
    <2> QED
      BY <2>1, <2>2, EmptyList
  <1>3. \E s \in Sides : Alive(s, runs[s]) # {}
    <2>1. PICK s \in Sides : [c \in Aut(setup, s).clocks |-> 0] \in Points(Space(setup, s)[Aut(setup, s).initial])
      BY <1>1, MismatchAssumption DEF Aut, Space
    <2> DEFINE r == Moment(Aut(setup, s).initial, [c \in Aut(setup, s).clocks |-> 0], 0)
    <2>2. Accepts(setup, s, r)
      BY <2>1 DEF Accepts, Moment
    <2>3. r \in runs[s]
      BY <1>2 DEF FirstRuns
    <2> HIDE DEF r
    <2> QED
      BY <2>2, <2>3, AliveIs
  <1> QED
    BY <1>1, <1>2, <1>3, SameJudge DEF Sides

LEMMA ConcretePromiseStep ==
    ASSUME ConcreteInv, ConcreteInv', Whole', Concrete!ClocksFit, Inclusion,
           [Concrete!Next]_(Concrete!vars)
    PROVE  [Concrete!Promise!Next]_<<setup, runs, verdict>>
  <1>1. CASE \E in \in Concrete!Inputs : Concrete!Input(in) /\ UNCHANGED setup
    <2>1. PICK in \in Setup[setup].inputs : Concrete!Input(in) /\ UNCHANGED setup
      BY <1>1, SharedRuns DEF Inputs
    <2>2. /\ runs' = [s \in Sides |-> RunsAfter(Aut(setup, s), runs[s], in)]
          /\ states' = [s \in Sides |-> Concrete!next_states(s, in)]
          /\ verdict' = IF states'["neg"] = << >> THEN "POSITIVE"
                        ELSE IF states'["pos"] = << >> THEN "NEGATIVE"
                        ELSE verdict
      BY <2>1, InputIs
    <2>3. runs' = [s \in Concrete!Promise!Sides |->
                      Concrete!Promise!RunsAfter(Concrete!Promise!automaton[s], runs[s], in)]
      BY <2>2, SamePromise DEF Concrete!Promise!Sides, Sides, Concrete!Promise!automaton, Aut
    <2>4. \A s \in Sides : states'[s] # << >> => states[s] # << >>
      <3>1. \A s \in Sides : states[s] = << >> => Concrete!next_states(s, in) = << >>
        BY NextCounted DEF ConcreteInv
      <3> QED
        BY <2>2, <3>1
    <2>5. ASSUME Explained(runs') PROVE verdict' = Concrete!Promise!Judge(runs')
      <3>1. ASSUME NEW s \in Sides PROVE states'[s] = << >> <=> Alive(s, runs'[s]) = {}
        <4>1. (ConcreteInv /\ Whole /\ Inclusion /\ Explained(runs) => EmptyIffDead)'
          BY ConcreteOut, PTL
        <4>2. Inclusion' /\ Explained(runs)'
          BY <2>1, <2>5 DEF Inclusion, Explained
        <4>3. (Alive(s, runs[s]))' = Alive(s, runs'[s])
          BY <2>1 DEF Alive, accepting_space
        <4> QED
          BY <4>1, <4>2, <4>3 DEF EmptyIffDead
      <3>2. (\A s \in Sides : states'[s] # << >>) => verdict = "INCONCLUSIVE"
        BY <2>4 DEF ConcreteInv, Undecided
      <3> QED
        BY <2>2, <3>1, <3>2, SameJudge DEF Sides
    <2>6. verdict' \in Concrete!Promise!Verdicts
      BY DEF ConcreteInv, Undecided, Concrete!Promise!Verdicts
    <2>7. IF Concrete!Promise!Explained(runs') THEN verdict' = Concrete!Promise!Judge(runs')
          ELSE verdict' \in Concrete!Promise!Verdicts
      BY <2>5, <2>6, SamePromise
    <2>8. Concrete!Promise!Observe(in)
      BY <2>1, <2>3, <2>7 DEF Concrete!Promise!Observe
    <2> QED
      BY <2>8 DEF Concrete!Promise!Next, Concrete!Promise!Inputs
  <1>2. CASE \E in \in Concrete!Inputs : Concrete!Refuse(in) /\ UNCHANGED setup
    BY <1>2 DEF Concrete!Refuse
  <1>3. CASE UNCHANGED Concrete!vars
    BY <1>3 DEF Concrete!vars
  <1> QED
    BY <1>1, <1>2, <1>3 DEF Concrete!Next

LEMMA ConcretePromiseBegins ==
    ASSUME Concrete!Init, Concrete!ClocksFit
    PROVE  Concrete!Promise!Init
  <1>1. setup \in DOMAIN Setup /\ runs = [s \in Sides |-> FirstRuns(Aut(setup, s))]
    BY SharedRuns DEF Concrete!Init, automaton, Aut
  <1>2. runs = [s \in Concrete!Promise!Sides |->
                   Concrete!Promise!FirstRuns(Concrete!Promise!automaton[s])]
    BY <1>1, SamePromise DEF Concrete!Promise!Sides, Sides, Concrete!Promise!automaton, Aut
  <1> QED
    BY <1>1, <1>2, OneBegins DEF Concrete!Promise!Init

LEMMA InclusionStays ==
    ASSUME Inclusion, [Concrete!Next]_(Concrete!vars)
    PROVE  Inclusion'
  BY DEF Concrete!Next, Concrete!vars, Inclusion

\* Every call is an observation with the promised answer, or changes nothing.
THEOREM ListsKeepThePromise ==
    ASSUME Concrete!ClocksFit
    PROVE  Concrete!Spec /\ Inclusion /\ []Concrete!ToldApart => Concrete!Implements
  <1>1. Concrete!Spec /\ []Concrete!ToldApart => [](ConcreteInv /\ Whole)
    BY ConcreteWhole
  <1>2. Concrete!Init => Concrete!Promise!Init
    BY ConcretePromiseBegins
  <1>3. Inclusion /\ [Concrete!Next]_(Concrete!vars) => Inclusion'
    BY InclusionStays
  <1>4. ConcreteInv /\ ConcreteInv' /\ Whole' /\ Inclusion /\ [Concrete!Next]_(Concrete!vars)
           => [Concrete!Promise!Next]_<<setup, runs, verdict>>
    BY ConcretePromiseStep
  <1> QED
    BY <1>1, <1>2, <1>3, <1>4, PTL DEF Concrete!Spec, Concrete!Implements, Concrete!Promise!Spec

=============================================================================
