------------------------------ MODULE Fixpoint -------------------------------
(***************************************************************************)
(* Fixpoint<state_t>: the states of a timed automaton from which an        *)
(* accepting location can be visited infinitely often, computed backwards  *)
(* by a worklist (reach) inside a greatest-fixpoint loop                   *)
(* (buchi_accept_fixpoint).  BddFixpoint<state_t> is the same algorithm    *)
(* over edges whose BDD label is not false.                                *)
(***************************************************************************)
EXTENDS SymbolicStateMap, TimedSemantics

CONSTANT Automata      \* the automata the computation may be called on

ASSUME AutomataAssumption == \A T \in Automata : IsAutomaton(T)

VARIABLES
    A,          \* the automaton, a parameter of the call
    targets,    \* "states": what the current call of reach starts from
    waiting,    \* the worklist of reach
    passed,     \* what reach has explored so far
    reach_a,    \* the previous approximation of buchi_accept_fixpoint
    phase       \* "first" call of reach, a call in the loop, then returned or threw

vars == <<A, targets, waiting, passed, reach_a, phase>>

(***************************************************************************)
(* symbolic_state_map_t::equals compares the sizes and then, key by key in *)
(* increasing order, f[l] with g.at(l).  at() throws when g has no such    *)
(* key, unless an earlier key has already told the maps apart.             *)
(***************************************************************************)
SameFederation(F, G) == is_included_in(F, G) /\ is_included_in(G, F)

SameSize(f, g) == Cardinality(Keys(f)) = Cardinality(Keys(g))

\* Fault: maps of one size are taken to be equal.
equals_BySize(f, g) == SameSize(f, g)

equals(f, g) ==
    /\ SameSize(f, g)
    /\ \A l \in Keys(f) : has_state(g, l) /\ SameFederation(g[l], f[l])

equals_throws(f, g) ==
    /\ SameSize(f, g)
    /\ \E l \in Keys(f) :
          /\ ~has_state(g, l)
          /\ \A k \in Keys(f) : k < l => has_state(g, k) /\ SameFederation(g[k], f[k])

Init ==
    /\ A \in Automata
    /\ phase = "first"
    /\ targets = accept_states(A)
    /\ waiting = Seeds(A, accept_states(A))
    /\ passed = EmptyMap(A)
    /\ reach_a = EmptyMap(A)

Pending == Keys(waiting)

\* waiting.begin(): the smallest location of the worklist.
AtFront(l) == l \in Pending /\ \A k \in Pending : l <= k

\* The popped state adds nothing to what was passed.
Skip ==
    \E l \in Pending :
        /\ AtFront(l)
        /\ has_state(passed, l)
        /\ is_included_in(waiting[l], passed[l])
        /\ waiting' = [waiting EXCEPT ![l] = {}]
        /\ UNCHANGED <<A, targets, passed, reach_a, phase>>

\* Fault: the popped state is erased after its predecessors were inserted.
Explore_EraseLast ==
    \E l \in Pending :
        LET popped == [EmptyMap(A) EXCEPT ![l] = waiting[l]]
        IN  /\ AtFront(l)
            /\ ~(has_state(passed, l) /\ is_included_in(waiting[l], passed[l]))
            /\ passed' = [passed EXCEPT ![l] = @ \cup waiting[l]]
            /\ waiting' = [k \in A.locations |->
                              IF k = l THEN {} ELSE waiting[k] \cup Inserted(A, popped, k)]
            /\ UNCHANGED <<A, targets, reach_a, phase>>

\* The popped state is passed and its predecessors are inserted.
Explore ==
    \E l \in Pending :
        LET popped == [EmptyMap(A) EXCEPT ![l] = waiting[l]]
        IN  /\ AtFront(l)
            /\ ~(has_state(passed, l) /\ is_included_in(waiting[l], passed[l]))
            /\ passed' = [passed EXCEPT ![l] = @ \cup waiting[l]]
            /\ waiting' = [k \in A.locations |->
                              (IF k = l THEN {} ELSE waiting[k]) \cup Inserted(A, popped, k)]
            /\ UNCHANGED <<A, targets, reach_a, phase>>

StartReach(map) ==
    /\ targets' = map
    /\ waiting' = Seeds(A, map)
    /\ passed' = EmptyMap(A)

\* The first call of reach returns: reach_a keeps its accepting locations.
FirstReachReturns ==
    /\ phase = "first"
    /\ Pending = {}
    /\ reach_a' = OnlyAccepting(A, passed)
    /\ phase' = "loop"
    /\ StartReach(OnlyAccepting(A, passed))
    /\ UNCHANGED A

Differs == phase = "loop" /\ Pending = {} /\ ~equals(reach_a, passed)

\* Fault: every round starts from all accepting states again.
Iterate_Restart ==
    /\ Differs
    /\ ~equals_throws(reach_a, passed)
    /\ reach_a' = passed
    /\ StartReach(accept_states(A))
    /\ UNCHANGED <<A, phase>>

\* Fault: reach_a is cut down to the accepting locations, reach_b is not.
Iterate_CutA ==
    /\ Differs
    /\ ~equals_throws(reach_a, passed)
    /\ reach_a' = OnlyAccepting(A, passed)
    /\ StartReach(OnlyAccepting(A, passed))
    /\ UNCHANGED <<A, phase>>

\* reach_b differs from reach_a: another round.
Iterate ==
    /\ Differs
    /\ ~equals_throws(reach_a, passed)
    /\ reach_a' = passed
    /\ StartReach(OnlyAccepting(A, passed))
    /\ UNCHANGED <<A, phase>>

\* reach_a.equals(reach_b): the result is reach_a.
Return ==
    /\ phase = "loop"
    /\ Pending = {}
    /\ equals(reach_a, passed)
    /\ phase' = "returned"
    /\ UNCHANGED <<A, targets, waiting, passed, reach_a>>

\* std::map::at throws out_of_range inside equals; nothing catches it here.
Throw ==
    /\ phase = "loop"
    /\ Pending = {}
    /\ equals_throws(reach_a, passed)
    /\ phase' = "threw"
    /\ UNCHANGED <<A, targets, waiting, passed, reach_a>>

Next == Skip \/ Explore \/ FirstReachReturns \/ Iterate \/ Return \/ Throw

\* The computation is one thread that runs to the end.
Spec == Init /\ [][Next]_vars /\ WF_vars(Next)
-----------------------------------------------------------------------------
(***************************************************************************)
(* Types: the maps hold federations of nonempty zones over the clocks of   *)
(* the automaton of the call (symbolic_state_map_t::insert).               *)
(***************************************************************************)
TypeOK ==
    /\ IsAutomaton(A)
    /\ targets \in StateMaps(A)
    /\ waiting \in StateMaps(A)
    /\ passed \in StateMaps(A)
    /\ reach_a \in StateMaps(A)
    /\ phase \in {"first", "loop", "returned", "threw"}

(***************************************************************************)
(* The worklist of reach forgets nothing: a predecessor of what was passed *)
(* or of what reach was called on is passed or still waits (Fixpoint.cpp,  *)
(* the two loops over edges_to, and the inclusion test that skips).        *)
(***************************************************************************)
Covered(Z, F) == \E W \in F : Z \subseteq W

NothingForgotten ==
    \A e \in Edges(A) : \A Z \in Predecessors(A, e, targets[e.to] \cup passed[e.to]) :
        Covered(Z, passed[e.from] \cup waiting[e.from])

(***************************************************************************)
(* When a call of reach returns, its result holds every predecessor of its *)
(* argument and of itself: it is closed under backward steps.              *)
(***************************************************************************)
ReachIsClosed == Pending = {} =>
    \A e \in Edges(A) : \A Z \in Predecessors(A, e, targets[e.to] \cup passed[e.to]) :
        Covered(Z, passed[e.from])

(***************************************************************************)
(* And reach invents nothing: what it passed or still has to look at lies  *)
(* within every family X of sets of valuations that backward steps from    *)
(* the argument and from X itself do not leave.  With ReachIsClosed, the   *)
(* result of reach is the least such family.                               *)
(***************************************************************************)
ClosedFamily(X) ==
    \A e \in Edges(A) :
        restrict(do_transition_backward(A, e, X[e.to] \cup Points(targets[e.to])),
                 A.invariant[e.from]) \subseteq X[e.from]

NothingInvented ==
    \A X \in [A.locations -> SUBSET Valuations(A)] : ClosedFamily(X) =>
        \A l \in A.locations : \A Z \in passed[l] \cup waiting[l] : Z \subseteq X[l]

(***************************************************************************)
(* "Calculates the set of states that can infinitely often reach an        *)
(* accepting state" (Fixpoint.h): what the result holds has a run that     *)
(* visits accepting locations infinitely often, by the semantics of the    *)
(* automaton and not by zones.                                             *)
(***************************************************************************)
Result == {p \in Configurations(A) : p.v \in Points(reach_a[p.l])}

ResultIsAccepting == phase = "returned" => Result \subseteq BuchiConfigurations(A)

(***************************************************************************)
(* The same where no location has an invariant.  With ResultCovers, the    *)
(* result is exact then.                                                   *)
(***************************************************************************)
ResultIsSound == NoInvariants(A) => ResultIsAccepting

(***************************************************************************)
(* The safe half, which invariants do not break: no configuration with an  *)
(* accepting run is missing, so a monitor that prunes by the result never  *)
(* drops a run that can still be accepted.                                 *)
(***************************************************************************)
ResultCovers == phase = "returned" => BuchiConfigurations(A) \subseteq Result

(***************************************************************************)
(* The constructor of a monitor waits for this computation, so it has to   *)
(* end whatever the automaton: merging in the worklist, the skip test and  *)
(* the loop's test together leave no infinite run (Fixpoint.cpp, the two   *)
(* while loops).                                                           *)
(***************************************************************************)
Ends == <>(phase \in {"returned", "threw"})

(***************************************************************************)
(* "Calculates the set of states that can infinitely often reach an        *)
(* accepting state" (Fixpoint.h): the call has a result to return.         *)
(***************************************************************************)
AlwaysReturns == phase # "threw"

(***************************************************************************)
(* Why it ends: every step goes on to the next phase; or, in the outer     *)
(* loop, makes reach_a an over-approximation that backward steps do not    *)
(* leave, or a strictly smaller one, and only gives states up: no round    *)
(* finds a state in an accepting location that the round before it did not *)
(* have; or, in reach, passes a zone that was not passed; or takes a       *)
(* location off the worklist.  In this order of precedence nothing can go  *)
(* on for ever, as there are finitely many zones.                          *)
(***************************************************************************)
GivesUp == \A l \in A.accept : Points(reach_a'[l]) \subseteq Points(reach_a[l])

Approximates ==
    \A e \in Edges(A) : \A Z \in Predecessors(A, e, targets[e.to] \cup reach_a[e.to]) :
        Covered(Z, reach_a[e.from])

Within(f, g) == \A l \in A.locations : is_included_in(f[l], g[l])

RoundAdvances ==
    /\ GivesUp
    /\ Approximates'
    /\ Approximates => Within(reach_a', reach_a) /\ ~Within(reach_a, reach_a')

Fewer(f, g) == (\A l \in A.locations : f[l] \subseteq g[l]) /\ f # g

WorklistAdvances ==
    /\ UNCHANGED <<targets, reach_a>>
    /\ Fewer(passed, passed') \/ (passed' = passed /\ Fewer(waiting', waiting))

Advances ==
    [][\/ phase = "first" /\ phase' = "loop"
       \/ phase = "loop" /\ phase' \in {"returned", "threw"}
       \/ UNCHANGED <<A, phase>> /\ (WorklistAdvances \/ RoundAdvances)]_vars
=============================================================================
