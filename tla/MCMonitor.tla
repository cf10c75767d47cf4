------------------------------ MODULE MCMonitor ------------------------------
(***************************************************************************)
(* Monitor on the pairs of automata of Examples.                           *)
(***************************************************************************)
EXTENDS Monitor, Examples

(***************************************************************************)
(* A property that guesses, on points and intervals, also of no label; the *)
(* same with clock abstraction, on optional points, also of a label the    *)
(* automata do not know; one with an invariant, on optional intervals; the *)
(* example of the repository without settings; and the past.               *)
(***************************************************************************)
Several ==
    [intervals |->
        WithInclusion(Setting(Guess, Certain({"a", "b", ""}, {0, 1}, 4), 4)),
     abstraction |->
        WithAbstraction(Setting(Guess,
                                Observed({"a", "b"}, {0}, {"ONCE", "OPTIONAL"}, 3)
                                    \cup Certain({"d"}, {0}, 3), 3)),
     optional |->
        WithInclusion(Setting(Deadline,
                              Observed({"a", "b"}, {0, 1}, {"ONCE", "OPTIONAL"}, 3), 3)),
     example |->
        Setting(LeadsTo, Certain({"a", "b"}, {0}, 5), 5),
     unordered |->
        InAnyOrder(WithInclusion(
            Setting(LeadsTo, Certain({"a", "b"}, {0}, 4), 4)))]

\* The roles of guess are exchanged, and the settings are settings_t's own.
Default == [default |-> Setting(NotGuess, Certain({"a", "b"}, {0}, 4), 4)]

SpacesOfSeveral ==
    [intervals |-> GuessSpace, abstraction |-> GuessSpace, optional |-> DeadlineSpace,
     example |-> LeadsToSpace, unordered |-> LeadsToSpace]

SpacesOfDefault == [default |-> NotGuessSpace]
=============================================================================
