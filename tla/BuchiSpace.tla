----------------------------- MODULE BuchiSpace ------------------------------
(***************************************************************************)
(* The result of buchi_accept_fixpoint as a value: the accepting space a   *)
(* monitor is constructed with.  ResultIsSpace of MCFixpoint says it is    *)
(* what the computation returns.  A map is a set of zones, each with its   *)
(* location.  Only TLC uses this module.                                   *)
(***************************************************************************)
EXTENDS SymbolicStateMap, TLC

At(S, l) == {s.zone : s \in {t \in S : t.l = l}}

StepsBack(A, S) ==
    UNION {{[l |-> e.from, zone |-> Z] : Z \in Predecessors(A, e, At(S, e.to))} :
              e \in Edges(A)}

InLocations(S, L) == {s \in S : s.l \in L}

\* One call of reach, from the worklist to what it returns.
RECURSIVE reach(_, _, _)
reach(A, waiting, passed) ==
    IF waiting = {}
    THEN passed
    ELSE LET l == CHOOSE k \in A.locations :
                     /\ At(waiting, k) # {}
                     /\ \A j \in A.locations : At(waiting, j) # {} => k <= j
             popped == InLocations(waiting, {l})
         IN  IF is_included_in(At(waiting, l), At(passed, l))
             THEN reach(A, waiting \ popped, passed)
             ELSE reach(A, (waiting \ popped) \cup StepsBack(A, popped), passed \cup popped)

reach_from(A, S) == reach(A, StepsBack(A, S), {})

RECURSIVE shrink(_, _, _)
shrink(A, before, after) ==
    IF \A l \in A.locations : /\ is_included_in(At(before, l), At(after, l))
                              /\ is_included_in(At(after, l), At(before, l))
    THEN before
    ELSE shrink(A, after, reach_from(A, InLocations(after, A.accept)))

buchi_accept_fixpoint(A) ==
    LET everything == [l : A.accept, zone : {Valuations(A)}]
        first == InLocations(reach_from(A, everything), A.accept)
        result == shrink(A, first, reach_from(A, first))
    IN  [l \in A.locations |-> At(result, l)]
=============================================================================
