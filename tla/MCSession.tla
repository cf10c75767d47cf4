------------------------------ MODULE MCSession ------------------------------
(***************************************************************************)
(* MonitorSession with two locations, and lists of slacks around the       *)
(* threshold: near it, far from it, past it, and with the least one first, *)
(* last and between others.                                                *)
(***************************************************************************)
EXTENDS MonitorSession

AllChannels == {"Frontier", "Zone", "Obligation", "PropertyProgress", "MutationHint"}

SomeSlackLists == {<< >>, <<5, 1, 3>>, <<4, 6>>, <<1, -1>>}

\* Locations are interchangeable as long as all of them have obligations.
Renamings == Permutations(Locations)

AllSlackLists == UNION {[1 .. n -> {-2, -1, 0, 3, 5}] : n \in 0 .. 3}
=============================================================================
