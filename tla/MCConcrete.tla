------------------------------ MODULE MCConcrete -----------------------------
(***************************************************************************)
(* ConcreteMonitor on the pairs of automata of Examples.                   *)
(***************************************************************************)
EXTENDS ConcreteMonitor, Examples

\* Points, also of a label the automata do not know, and intervals, which are refused.
PointsAndIntervals(horizon) ==
    Certain({"a", "b", "d"}, {0}, horizon) \cup Certain({"a"}, {1}, horizon)

Unordered ==
    [unordered |->
        InAnyOrder(WithInclusion(Setting(Guess, Certain({"a", "b"}, {0}, 6), 6)))]

\* A property that guesses; the example of the repository without settings; the past.
Several ==
    [guess |-> WithInclusion(Setting(Guess, PointsAndIntervals(6), 6)),
     example |-> Setting(LeadsTo, PointsAndIntervals(5), 5)] @@ Unordered

(***************************************************************************)
(* Two locations with the same clocks: an edge without reset leaves the    *)
(* location a run may also wait in.                                        *)
(***************************************************************************)
Late ==
    [late |-> WithInclusion(Setting(LateGuess, Certain({"a", "b"}, {0}, 5), 5))]

SpacesOfSeveral ==
    [guess |-> GuessSpace, example |-> LeadsToSpace, unordered |-> GuessSpace]

SpacesOfUnordered == [unordered |-> GuessSpace]

SpacesOfLate == [late |-> LateGuessSpace]
=============================================================================
