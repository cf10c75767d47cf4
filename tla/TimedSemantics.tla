--------------------------- MODULE TimedSemantics ----------------------------
(***************************************************************************)
(* What a timed automaton means, independently of zones: the reference the *)
(* fixpoint and the monitors are checked against.  A configuration is a    *)
(* location and a valuation; a step lets time pass within the invariant    *)
(* and takes an edge.                                                      *)
(***************************************************************************)
EXTENDS TimedAutomata

Configurations(A) == [l : A.locations, v : Valuations(A)]

Inhabits(A, l, v) == Meets(v, A.invariant[l])

NoInvariants(A) == \A l \in A.locations : A.invariant[l] = {}

\* Where one edge, after some delay, leads from a configuration.
Successors(A, p) ==
    LET moments == {Elapse(p.v, d) : d \in 0 .. Cap}
        choices == {m \in {e \in Edges(A) : e.from = p.l} \X moments :
                        /\ Inhabits(A, p.l, p.v)
                        /\ Inhabits(A, p.l, m[2])
                        /\ Meets(m[2], m[1].guard)
                        /\ Inhabits(A, m[1].to, Reset(m[2], m[1].reset))}
    IN  {[l |-> m[1].to, v |-> Reset(m[2], m[1].reset)] : m \in choices}

Graph(A) == [p \in Configurations(A) |-> Successors(A, p)]

Leading(graph, S) == {p \in DOMAIN graph : graph[p] \cap S # {}}

\* The configurations from which some steps, at least one, lead into S.
Reaching(graph, S) ==
    LET grow[found \in SUBSET DOMAIN graph] ==
          LET more == found \cup Leading(graph, S \cup found)
          IN  IF more = found THEN found ELSE grow[more]
    IN  grow[{}]

\* The configurations with a run that visits accepting locations forever.
BuchiConfigurations(A) ==
    LET graph == Graph(A)
        accepting == {p \in Configurations(A) : p.l \in A.accept}
        shrink[kept \in SUBSET Configurations(A)] ==
          LET fewer == kept \cap Reaching(graph, kept \cap accepting)
          IN  IF fewer = kept THEN kept ELSE shrink[fewer]
    IN  shrink[Configurations(A)]
=============================================================================
