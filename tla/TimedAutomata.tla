---------------------------- MODULE TimedAutomata ----------------------------
(***************************************************************************)
(* Timed automata and their symbolic states, as MoniTAal manipulates them  *)
(* (TA.cpp, symbolic_state_base.cpp).  The clock valuations live on an     *)
(* integer grid: a DBM becomes the set of the grid points it contains, a   *)
(* federation the set of its DBMs, so that zone-wise inclusion keeps the   *)
(* approximation it has in the code.  One grid unit is whatever fraction   *)
(* of a time unit the instance needs for its strict bounds.                *)
(***************************************************************************)
EXTENDS Integers, Sequences, FiniteSets

CONSTANT Cap      \* clocks are not told apart beyond this value

ASSUME CapAssumption == Cap \in Nat

(***************************************************************************)
(* An automaton is a record.  "clocks" leaves out the reference clock and  *)
(* the global clock, and a constraint compares one clock with a bound: the *)
(* model parser and the compiler produce no other kind.                    *)
(***************************************************************************)
Constraints(C) == [clock : C, op : {"<", "<=", ">", ">="}, bound : Int]

EdgesOver(L, C) ==
    [from : L, to : L, label : STRING, guard : SUBSET Constraints(C), reset : SUBSET C]

IsAutomaton(A) ==
    /\ A.locations \subseteq Nat /\ IsFiniteSet(A.locations) /\ IsFiniteSet(A.clocks)
    /\ A.initial \in A.locations
    /\ A.accept \subseteq A.locations
    /\ A.invariant \in [A.locations -> SUBSET Constraints(A.clocks)]
    /\ A.edges \in Seq(EdgesOver(A.locations, A.clocks))

Edges(A) == {A.edges[i] : i \in DOMAIN A.edges}

labels(A) == {e.label : e \in Edges(A)}

(***************************************************************************)
(* Clock valuations.                                                       *)
(***************************************************************************)
Valuations(A) == [A.clocks -> 0 .. Cap]

Saturate(n) == IF n <= Cap THEN n ELSE Cap

Elapse(v, d) == [c \in DOMAIN v |-> Saturate(v[c] + d)]

Reset(v, R) == [c \in DOMAIN v |-> IF c \in R THEN 0 ELSE v[c]]

Satisfies(v, constraint) ==
    LET value == v[constraint.clock]
        bound == constraint.bound
    IN  \/ constraint.op = "<"  /\ value < bound
        \/ constraint.op = "<=" /\ value <= bound
        \/ constraint.op = ">"  /\ value > bound
        \/ constraint.op = ">=" /\ value >= bound

Meets(v, constraints) == \A c \in constraints : Satisfies(v, c)

(***************************************************************************)
(* Zones: the operations of symbolic_state_base on one DBM.                *)
(***************************************************************************)
down(A, Z) == {v \in Valuations(A) : \E d \in 0 .. Cap : Elapse(v, d) \in Z}

restrict(Z, constraints) == {v \in Z : Meets(v, constraints)}

restrict_to_zero(Z, R) == {v \in Z : \A c \in R : v[c] = 0}

free(A, Z, R) ==
    {v \in Valuations(A) : \E w \in Z : \A c \in A.clocks \ R : v[c] = w[c]}

\* Fault: the state may not linger in the source before the edge.
do_transition_backward_Hasty(A, e, Z) ==
    restrict(free(A, restrict_to_zero(down(A, Z), e.reset), e.reset), e.guard)

do_transition_backward(A, e, Z) ==
    down(A, restrict(free(A, restrict_to_zero(down(A, Z), e.reset), e.reset), e.guard))

(***************************************************************************)
(* Federations: sets of zones.                                             *)
(***************************************************************************)
Federations(A) == SUBSET (SUBSET Valuations(A))

\* Federation::relation<false>, "subset or equal": every zone in some zone.
is_included_in(F, G) == \A Z \in F : \E W \in G : Z \subseteq W

Points(F) == UNION F

(***************************************************************************)
(* Clocks that no constraint reads before their next reset.                *)
(***************************************************************************)
ReadAt(A, l) ==
    {c.clock : c \in A.invariant[l]
                     \cup UNION {e.guard : e \in {f \in Edges(A) : f.from = l}}}

\* Fault: only what the location itself reads counts as active.
compute_inactive_clocks_Local(A, rounds) ==
    [l \in A.locations |-> A.clocks \ ReadAt(A, l)]

compute_inactive_clocks(A, rounds) ==
    LET active[n \in 0 .. rounds] ==
          IF n = 0
          THEN [l \in A.locations |-> ReadAt(A, l)]
          ELSE LET before == active[n-1]
               IN  [l \in A.locations |->
                       before[l] \cup UNION {before[e.to] \ e.reset :
                                                e \in {f \in Edges(A) : f.from = l}}]
    IN  [l \in A.locations |-> A.clocks \ active[rounds][l]]

(***************************************************************************)
(* What may be said of a space, a federation for each location.  It is     *)
(* closed: time and edges lead into it from nowhere else.  And it is       *)
(* indifferent to clocks that are not read before they are reset: whatever *)
(* clocks D are kept for each location, as long as they are those its      *)
(* constraints read and those that the next location keeps.                *)
(***************************************************************************)
IsClosed(A, S) ==
    /\ \A l \in A.locations : \A Z \in S[l] :
          restrict(down(A, Z), A.invariant[l]) \subseteq Points(S[l])
    /\ \A e \in Edges(A) : \A Z \in S[e.to] :
          restrict(do_transition_backward(A, e, Z), A.invariant[e.from]) \subseteq Points(S[e.from])

Reads(A, D) ==
    /\ \A l \in A.locations : ReadAt(A, l) \subseteq D[l] /\ D[l] \subseteq A.clocks
    /\ \A e \in Edges(A) : D[e.to] \ e.reset \subseteq D[e.from]

Ignores(A, clocks, V) ==
    \A v \in V : \A w \in Valuations(A) : (\A c \in clocks : v[c] = w[c]) => w \in V

IsIndifferent(A, S) ==
    \A D \in [A.locations -> SUBSET A.clocks] :
        Reads(A, D) => \A l \in A.locations : Ignores(A, D[l], Points(S[l]))
=============================================================================
