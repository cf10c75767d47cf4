----------------------------- MODULE MCFixpoint ------------------------------
(***************************************************************************)
(* Fixpoint on every automaton of three small families.                    *)
(***************************************************************************)
EXTENDS Fixpoint

Space == INSTANCE BuchiSpace

NoInvariant(L) == [l \in L |-> {}]

upper(c, b) == [clock |-> c, op |-> "<=", bound |-> b]
above(c, b) == [clock |-> c, op |-> ">", bound |-> b]

edge(from, to, guard, reset) ==
    [from |-> from, to |-> to, label |-> "a", guard |-> guard, reset |-> reset]

Automaton(L, C, accept, invariant, es) ==
    [locations |-> L, initial |-> 0, clocks |-> C, accept |-> accept,
     invariant |-> invariant, edges |-> es]

(***************************************************************************)
(* Two locations and one clock: an edge out of each location and perhaps a *)
(* third, with every combination of guard and reset; location 1 accepts,   *)
(* alone or with location 0.                                               *)
(***************************************************************************)
Out(l) == {edge(l, t, g, r) : t \in {0, 1},
                              g \in {{}, {upper("x", 1)}, {above("x", 1)}},
                              r \in {{}, {"x"}}}

TwoLocations ==
    {Automaton({0, 1}, {"x"}, acc, NoInvariant({0, 1}), <<e, f, g>>) :
        acc \in {{1}, {0, 1}}, e \in Out(0), f \in Out(1), g \in Out(0) \cup Out(1)}

(***************************************************************************)
(* Four locations and no clock: some accepting locations lead to a cycle   *)
(* and others to a dead end.                                               *)
(***************************************************************************)
FourLocations ==
    LET L == 0 .. 3
        Links == {edge(f, t, {}, {}) : f \in L, t \in L}
    IN  {Automaton(L, {}, {1, 2, 3}, NoInvariant(L), <<e, f, g>>) :
            e \in Links, f \in Links, g \in Links}

(***************************************************************************)
(* Two clocks and a location that must be left in time: the invariant of   *)
(* location 0 bounds x, the guards of its edges read y.                    *)
(***************************************************************************)
Urgent ==
    LET guards == {{}, {upper("y", 1)}, {above("y", 1)}}
        leave == {edge(0, t, g, r) : t \in {0, 1}, g \in guards, r \in {{}, {"x"}}}
        stay == {edge(1, t, g, {"x"}) : t \in {0, 1}, g \in guards}
    IN  {Automaton({0, 1}, {"x", "y"}, {1},
                   [l \in {0, 1} |-> IF l = 0 THEN {upper("x", 1)} ELSE {}], <<e, f, g>>) :
            e \in leave, f \in leave, g \in stay}

TwoLocationsOrUrgent == TwoLocations \cup Urgent \cup FourLocations

(***************************************************************************)
(* The function the monitors are checked with (BuchiSpace) is the result   *)
(* of this computation, so a fault of either shows as a difference.        *)
(***************************************************************************)
ResultIsSpace == phase = "returned" => reach_a = Space!buchi_accept_fixpoint(A)
=============================================================================
