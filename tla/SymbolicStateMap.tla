-------------------------- MODULE SymbolicStateMap ---------------------------
(***************************************************************************)
(* symbolic_state_map_t: symbolic states kept per location, and the        *)
(* backward steps the fixpoint computation takes from such a map.  Only    *)
(* nonempty states are inserted, so an absent key is the empty federation. *)
(***************************************************************************)
EXTENDS TimedAutomata

StateMaps(T) ==
    {map \in [T.locations -> Federations(T)] : \A l \in T.locations : {} \notin map[l]}

EmptyMap(T) == [l \in T.locations |-> {}]

has_state(map, l) == map[l] # {}

\* Fault: empty states are kept.
Predecessors_Empty(T, e, F) ==
    {restrict(do_transition_backward(T, e, Z), T.invariant[e.from]) : Z \in F}

\* One backward step of every zone of a federation.
Predecessors(T, e, F) ==
    {restrict(do_transition_backward(T, e, Z), T.invariant[e.from]) : Z \in F} \ {{}}

\* Fault: the edges are followed forwards.
Inserted_Forward(T, map, l) ==
    UNION {Predecessors(T, e, map[e.from]) : e \in {f \in Edges(T) : f.to = l}}

\* What the loop over edges_to inserts into the worklist at location l.
Inserted(T, map, l) ==
    UNION {Predecessors(T, e, map[e.to]) : e \in {f \in Edges(T) : f.from = l}}

Seeds(T, map) == [l \in T.locations |-> Inserted(T, map, l)]

accept_states(T) ==
    [l \in T.locations |-> IF l \in T.accept THEN {Valuations(T)} ELSE {}]

\* Erasing the locations that do not accept.
OnlyAccepting(T, map) ==
    [l \in T.locations |-> IF l \in T.accept THEN map[l] ELSE {}]

Keys(map) == {l \in DOMAIN map : has_state(map, l)}
=============================================================================
